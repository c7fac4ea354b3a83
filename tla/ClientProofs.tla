----------------------------- MODULE ClientProofs -----------------------------
(***************************************************************************)
(* The disk and the CA agree on the accounts of a machine, for any number  *)
(* of keys, addresses, commands and failures; and the installers leave a   *)
(* web server as they found it when they fail, never with a configuration  *)
(* it would not load, nor with a page lost, and answer the challenges they *)
(* perform, whatever it is.                                                *)
(***************************************************************************)
EXTENDS MCClient, TLAPS, FiniteSetTheorems, SequenceTheorems, NaturalsInduction,
        WellFoundedInduction

-----------------------------------------------------------------------------
(***************************************************************************)
(* The inductive invariant.                                                *)
(***************************************************************************)

\* What _save still has to write: of a new account, or of an updated one.
Updating == <<"regr">>
Creating == {<<"regr", "key", "meta">>, <<"key", "meta">>, <<"meta">>}

Registration == [st : {"none", "open", "closed"}, mail : Mails \cup {NoMail}, agreed : BOOLEAN]

Types ==
  /\ ca \in [Keys -> Registration]
  /\ file \in [Keys -> [Files -> {"none", "torn", "full"}]]
  /\ contact \in [Keys -> Mails \cup {NoMail}]
  /\ mail \in Mails \cup {NoMail}
  /\ pc \in {"idle", "determine", "register", "agree", "save", "eff", "update", "close",
             "delete"}
  /\ pc \notin {"idle", "determine"} => key \in Keys
  /\ pc = "save" => toSave \in Creating \cup {Updating}
  /\ trouble \in Nat

NoFiles(k) == \A f \in Files : file[k][f] = "none"

\* A new account is being made, and there is no other.
BeingMade == pc \in {"register", "agree"} \/ (pc = "save" /\ toSave \in Creating)
Alone ==
  /\ BeingMade => Loadable = {}
  /\ pc \in {"register", "agree"} => NoFiles(key)
  /\ pc = "agree" => ca[key].st = "open"

\* How far _save has come with the files of the account.
Saving ==
  pc = "save" =>
    /\ ca[key].agreed
    /\ toSave = Updating => file[key]["key"] = "full" /\ file[key]["meta"] = "full"
    /\ toSave \in Creating => file[key]["meta"] # "full"
    /\ toSave \in Creating \ {<<"meta">>} => file[key]["key"] # "full"
    /\ toSave = <<"meta">> => file[key]["key"] = "full"
    /\ toSave \in {<<"key", "meta">>, <<"meta">>} =>
         file[key]["regr"] = "full" /\ contact[key] = ca[key].mail
    /\ trouble = 0 => ca[key].st = "open"

\* An account that is updated or closed can be used; what is deleted was closed.
Changing ==
  /\ pc \in {"update", "close"} => Loads(key)
  /\ pc = "delete" => ca[key].st = "closed"

InStepAt(k) == IF Loads(k) THEN ca[k].st = "open" /\ contact[k] = ca[k].mail ELSE NoFiles(k)

\* Without trouble only the account under way may be out of step.
OthersInStep ==
  trouble = 0 =>
    \A k \in Keys : InStepAt(k) \/ (pc \in {"save", "delete"} /\ k = key)

IInv == Types /\ Agreed /\ Alone /\ Saving /\ Changing /\ OthersInStep

-----------------------------------------------------------------------------
(***************************************************************************)
(* The invariant is inductive.                                             *)
(***************************************************************************)

\* The lists of files, and what is left of each.
LEMMA Lists ==
  /\ Head(<<"regr", "key", "meta">>) = "regr"
  /\ Tail(<<"regr", "key", "meta">>) = <<"key", "meta">>
  /\ Head(<<"key", "meta">>) = "key" /\ Tail(<<"key", "meta">>) = <<"meta">>
  /\ Head(<<"meta">>) = "meta" /\ Tail(<<"meta">>) = <<>>
  /\ Head(<<"regr">>) = "regr" /\ Tail(<<"regr">>) = <<>>
OBVIOUS

LEMMA ListsDiffer ==
  /\ <<"regr">> \notin Creating /\ <<>> \notin Creating \cup {<<"regr">>}
  /\ <<"regr", "key", "meta">> # <<"key", "meta">>
  /\ <<"regr", "key", "meta">> # <<"meta">>
  /\ <<"key", "meta">> # <<"meta">>
BY DEF Creating

\* The CA changes one field of what it knows of a key.
LEMMA Updates ==
  ASSUME Types, NEW k \in Keys
  PROVE  /\ \A b \in BOOLEAN :
              /\ [ca EXCEPT ![k].agreed = b] \in [Keys -> Registration]
              /\ [ca EXCEPT ![k].agreed = b][k] = [ca[k] EXCEPT !.agreed = b]
         /\ \A m \in Mails \cup {NoMail} :
              /\ [ca EXCEPT ![k].mail = m] \in [Keys -> Registration]
              /\ [ca EXCEPT ![k].mail = m][k] = [ca[k] EXCEPT !.mail = m]
         /\ /\ [ca EXCEPT ![k].st = "closed"] \in [Keys -> Registration]
            /\ [ca EXCEPT ![k].st = "closed"][k] = [ca[k] EXCEPT !.st = "closed"]
<1>1. ca[k] \in Registration /\ ca \in [Keys -> Registration]
  BY DEF Types
<1>2. \A b \in BOOLEAN : [ca[k] EXCEPT !.agreed = b] \in Registration
  BY <1>1 DEF Registration
<1>3. \A m \in Mails \cup {NoMail} : [ca[k] EXCEPT !.mail = m] \in Registration
  BY <1>1 DEF Registration
<1>4. [ca[k] EXCEPT !.st = "closed"] \in Registration
  BY <1>1 DEF Registration
<1>5. QED
  BY <1>1, <1>2, <1>3, <1>4

LEMMA InitInv == Init => IInv
<1> SUFFICES ASSUME Init PROVE IInv
  OBVIOUS
<1>1. PICK old \in SUBSET (Keys \cap {1, 2}), m \in Mails \ BadMails :
        /\ ca = [k \in Keys |-> IF k \in old THEN [st |-> "open", mail |-> m, agreed |-> TRUE]
                               ELSE Unknown]
        /\ file = [k \in Keys |-> [f \in Files |-> IF k \in old THEN "full" ELSE "none"]]
        /\ contact = [k \in Keys |-> IF k \in old THEN m ELSE NoMail]
  BY DEF Init
<1>2. pc = "idle" /\ mail = NoMail /\ trouble = 0
  BY DEF Init
<1>3. Types
  BY <1>1, <1>2 DEF Types, Unknown, Registration
<1>4. \A k \in Keys : Loads(k) <=> k \in old
  BY <1>1 DEF Loads, Files
<1>5. Agreed
  BY <1>1, <1>4 DEF Agreed, Loadable
<1>6. \A k \in Keys : InStepAt(k)
  BY <1>1, <1>4 DEF InStepAt, NoFiles
<1>7. QED
  BY <1>2, <1>3, <1>5, <1>6
     DEF IInv, Alone, BeingMade, Saving, Changing, OthersInStep

\* A new key is one of those that are left: the least of them.
LEMMA FreshKey ==
  ASSUME Fresh # {}
  PROVE  (CHOOSE k \in Fresh : \A j \in Fresh : k <= j) \in Fresh
<1>1. Fresh \subseteq Nat
  BY KeysAssumption DEF Fresh
<1>2. \E k \in Fresh : \A j \in Fresh : ~ (<<j, k>> \in OpToRel(<, Nat))
  BY <1>1, NatLessThanWellFounded, WFMin
<1>3. PICK k \in Fresh : \A j \in Fresh : ~ (j < k)
  BY <1>1, <1>2 DEF OpToRel
<1>4. \A j \in Fresh : k <= j
  BY <1>1, <1>3
<1>5. QED
  BY <1>4

\* What depends on the disk and the CA only, when a step leaves them alone.
LEMMA SameAccounts ==
  ASSUME IInv, UNCHANGED <<ca, disk>>
  PROVE  /\ Agreed' /\ Loadable' = Loadable
         /\ \A k \in Keys : (Loads(k)' <=> Loads(k)) /\ (NoFiles(k)' <=> NoFiles(k))
         /\ \A k \in Keys : InStepAt(k)' <=> InStepAt(k)
<1>1. \A k \in Keys : (Loads(k)' <=> Loads(k)) /\ (NoFiles(k)' <=> NoFiles(k))
  BY DEF Loads, NoFiles, disk
<1>2. Loadable' = Loadable
  BY <1>1 DEF Loadable
<1>3. \A k \in Keys : InStepAt(k)' <=> InStepAt(k)
  BY <1>1 DEF InStepAt, disk
<1>4. Agreed'
  BY <1>2 DEF IInv, Agreed
<1>5. QED
  BY <1>1, <1>2, <1>3, <1>4

\* A command begins or ends.
LEMMA QuietStep ==
  ASSUME IInv, UNCHANGED <<ca, disk>>, pc' \in {"idle", "determine"},
         mail' \in Mails \cup {NoMail}, trouble' \in Nat,
         trouble' = 0 => trouble = 0 /\ pc \notin {"save", "delete"}
  PROVE  IInv'
<1>1. Types'
  BY DEF IInv, Types, disk
<1>2. OthersInStep'
  BY SameAccounts DEF IInv, OthersInStep
<1>3. QED
  BY <1>1, <1>2, SameAccounts DEF IInv, Alone, BeingMade, Saving, Changing

LEMMA QuietActions ==
  ASSUME IInv,
         \/ \E v \in {"use", "register", "update", "unregister"}, m \in Mails, sure \in BOOLEAN :
              Start(v, m, sure)
         \/ NoKeyLeft \/ GiveUp \/ Kill
         \/ \E reached \in BOOLEAN : Subscribe(reached)
  PROVE  IInv'
<1>1. UNCHANGED <<ca, disk>> /\ pc' \in {"idle", "determine"}
  BY DEF Start, NoKeyLeft, GiveUp, Kill, Subscribe, End
<1>2. mail' \in Mails \cup {NoMail}
  BY DEF Start, NoKeyLeft, GiveUp, Kill, Subscribe, IInv, Types
<1>3. trouble' \in Nat /\ (trouble' = 0 => trouble = 0 /\ pc \notin {"save", "delete"})
  <2>1. trouble \in Nat
    BY DEF IInv, Types
  <2>2. CASE Kill
    BY <2>1, <2>2 DEF Kill
  <2>3. CASE ~Kill
    <3>1. trouble' = trouble /\ pc \notin {"save", "delete"}
      BY <2>3 DEF Start, NoKeyLeft, GiveUp, Subscribe, counts
    <3>2. QED
      BY <2>1, <3>1
  <2>4. QED
    BY <2>2, <2>3
<1>4. QED
  BY <1>1, <1>2, <1>3, QuietStep

LEMMA AskAgainStep ==
  ASSUME IInv, NEW m \in Mails, AskAgain(m)
  PROVE  IInv'
<1>1. /\ UNCHANGED <<ca, disk, key, pc, trouble>> /\ mail' \in Mails /\ pc = "register"
  BY DEF AskAgain, counts
<1>2. Types'
  BY <1>1 DEF IInv, Types, disk
<1>3. Alone'
  BY <1>1, SameAccounts DEF IInv, Types, Alone, BeingMade
<1>4. OthersInStep'
  BY <1>1, SameAccounts DEF IInv, OthersInStep
<1>5. QED
  BY <1>1, <1>2, <1>3, <1>4, SameAccounts DEF IInv, Saving, Changing

\* _determine_account: an account that can be used, or a fresh key.
LEMMA DetermineStep ==
  ASSUME IInv, NEW w \in Keys \cup {0}, Determine(w)
  PROVE  IInv'
<1>1. UNCHANGED <<ca, disk, mail, trouble>> /\ pc = "determine" /\ mail \in Mails \cup {NoMail}
      /\ trouble \in Nat
  BY DEF Determine, counts, IInv, Types
<1>2. CASE pc' = "idle"
  BY <1>1, <1>2, QuietStep
<1>3. CASE key' \in Loadable /\ Chosen
  <2>1. /\ pc' \in {"idle", "update", "close"} /\ key' \in Keys
        /\ \A f \in Files : file'[key'][f] = "full"
    BY <1>1, <1>3 DEF Chosen, Goto, End, Loadable, Loads, disk
  <2>2. Types'
    BY <1>1, <2>1 DEF IInv, Types, disk
  <2>3. OthersInStep'
    BY <1>1, SameAccounts DEF IInv, OthersInStep
  <2>4. Alone' /\ Saving'
    BY <2>1 DEF Alone, BeingMade, Saving
  <2>5. Changing'
    BY <2>1 DEF Changing, Loads
  <2>6. QED
    BY <1>1, <2>2, <2>3, <2>4, <2>5, SameAccounts DEF IInv
<1>4. CASE Loadable = {} /\ key' \in Fresh /\ Goto("register")
  <2>1. pc' = "register" /\ key' \in Keys /\ \A f \in Files : file[key'][f] = "none"
    BY <1>4 DEF Goto, Fresh
  <2>2. Types'
    BY <1>1, <2>1 DEF IInv, Types, disk
  <2>3. OthersInStep'
    BY <1>1, SameAccounts DEF IInv, OthersInStep
  <2>4. Alone'
    BY <1>1, <1>4, <2>1, SameAccounts DEF Alone, BeingMade, NoFiles, disk
  <2>5. QED
    BY <1>1, <2>1, <2>2, <2>3, <2>4, SameAccounts DEF IInv, Saving, Changing
<1>5. pc' = "idle" \/ (key' \in Loadable /\ Chosen)
        \/ (Loadable = {} /\ key' \in Fresh /\ Goto("register"))
  <2>1. CASE w # 0
    BY <2>1 DEF Determine, Loadable, End
  <2>2. CASE w = 0 /\ Crashing
    BY <2>2 DEF Determine, End
  <2>3. CASE w = 0 /\ ~ Crashing /\ Accounts # {}
    BY <2>3 DEF Determine, Accounts, End
  <2>4. CASE w = 0 /\ ~ Crashing /\ Accounts = {}
    BY <2>4, FreshKey DEF Determine, Accounts
  <2>5. QED
    BY <2>1, <2>2, <2>3, <2>4
<1>6. QED
  BY <1>2, <1>3, <1>4, <1>5

\* The CA takes a registration, or the answer is lost.
LEMMA RegisterStep ==
  ASSUME IInv, Register
  PROVE  IInv'
<1>1. /\ UNCHANGED <<disk, key, mail>> /\ key \in Keys /\ pc = "register"
      /\ ca' = [ca EXCEPT ![key] = [st |-> "open", mail |-> mail, agreed |-> FALSE]]
      /\ trouble \in Nat
  BY DEF Register, IInv, Types
<1>2. \/ pc' = "agree" /\ trouble' = trouble
      \/ pc' = "idle" /\ trouble' = trouble + 1
  BY DEF Register, Goto, Answered, Lost, End
<1>3. Types'
  BY <1>1, <1>2 DEF IInv, Types, Registration, disk
<1>4. \A k \in Keys : (Loads(k)' <=> Loads(k)) /\ (NoFiles(k)' <=> NoFiles(k)) /\ ~Loads(k)
  BY <1>1 DEF IInv, Alone, BeingMade, Loadable, Loads, NoFiles, disk
<1>5. Alone' /\ Agreed'
  BY <1>1, <1>2, <1>4 DEF IInv, Types, Alone, BeingMade, Loadable, Agreed
<1>6. OthersInStep'
  BY <1>1, <1>2, <1>4 DEF IInv, OthersInStep, InStepAt
<1>7. QED
  BY <1>2, <1>3, <1>5, <1>6 DEF IInv, Saving, Changing

\* The user agrees, or not.
LEMMA AgreeStep ==
  ASSUME IInv, AgreeToTos
  PROVE  IInv'
<1>1. UNCHANGED <<disk, key, mail>> /\ key \in Keys /\ pc = "agree" /\ trouble \in Nat
  BY DEF AgreeToTos, IInv, Types
<1>2. CASE UNCHANGED <<ca, trouble>> /\ pc' = "idle"
  BY <1>1, <1>2, QuietStep DEF IInv, Types
<1>3. CASE ca' = [ca EXCEPT ![key].agreed = TRUE] /\ pc' = "idle" /\ trouble' = trouble + 1
  <2>1. ca' \in [Keys -> Registration]
    BY <1>1, <1>3, Updates DEF IInv
  <2>2. trouble' \in Nat
    BY <1>1, <1>3
  <2>3. Types'
    BY <1>1, <1>3, <2>1, <2>2 DEF IInv, Types, disk
  <2>4. \A k \in Keys : ~Loads(k)' /\ ~Loads(k)
    BY <1>1 DEF IInv, Alone, BeingMade, Loadable, Loads, disk
  <2>5. trouble' # 0
    BY <1>1, <1>3
  <2>6. QED
    BY <1>3, <2>3, <2>4, <2>5
       DEF IInv, Agreed, Loadable, Alone, BeingMade, Saving, Changing, OthersInStep
<1>4. CASE /\ ca' = [ca EXCEPT ![key].agreed = TRUE] /\ trouble' = trouble
           /\ pc' = "save" /\ toSave' = <<"regr", "key", "meta">>
  <2>1. ca' \in [Keys -> Registration]
    BY <1>1, <1>4, Updates DEF IInv
  <2>2. toSave' \in Creating
    BY <1>4 DEF Creating
  <2>3. Types'
    BY <1>1, <1>4, <2>1, <2>2 DEF IInv, Types, disk
  <2>4. \A k \in Keys : ~Loads(k)' /\ ~Loads(k) /\ (NoFiles(k)' <=> NoFiles(k))
    BY <1>1 DEF IInv, Alone, BeingMade, Loadable, Loads, NoFiles, disk
  <2>5. NoFiles(key)
    BY <1>1 DEF IInv, Alone
  <2>6. Agreed' /\ Alone'
    BY <1>4, <2>4 DEF Agreed, Loadable, Alone, BeingMade
  <2>7. OthersInStep'
    BY <1>1, <1>4, <2>4 DEF IInv, OthersInStep, InStepAt
  <2>8. ca'[key].agreed /\ ca'[key].st = "open"
    <3>1. ca[key] \in Registration /\ ca[key].st = "open"
      BY <1>1 DEF IInv, Types, Alone
    <3>2. ca'[key] = [ca[key] EXCEPT !.agreed = TRUE]
      BY <1>1, <1>4, Updates DEF IInv
    <3>3. QED
      BY <3>1, <3>2 DEF Registration
  <2>9. Saving'
    BY <1>1, <1>4, <2>5, <2>8, ListsDiffer DEF Saving, NoFiles, Files, Updating, Creating, disk
  <2>10. QED
    BY <1>4, <2>3, <2>6, <2>7, <2>9 DEF IInv, Changing
<1>5. QED
  BY <1>2, <1>3, <1>4 DEF AgreeToTos, Save, Answered, Lost, End

\* One file of the account under way changes.
LEMMA OneFile ==
  ASSUME Types, NEW k \in Keys, NEW f \in Files, NEW s \in {"none", "torn", "full"},
         file' = [file EXCEPT ![k][f] = s]
  PROVE  /\ file' \in [Keys -> [Files -> {"none", "torn", "full"}]]
         /\ \A j \in Keys \ {k} : file'[j] = file[j]
         /\ file'[k][f] = s
         /\ \A g \in Files \ {f} : file'[k][g] = file[k][g]
<1>1. file \in [Keys -> [Files -> {"none", "torn", "full"}]]
  BY DEF Types
<1>2. file[k] \in [Files -> {"none", "torn", "full"}]
  BY <1>1
<1>3. [file[k] EXCEPT ![f] = s] \in [Files -> {"none", "torn", "full"}]
  BY <1>2
<1>4. file'[k] = [file[k] EXCEPT ![f] = s]
  BY <1>1
<1>5. QED
  BY <1>1, <1>2, <1>3, <1>4

\* The account files of the other keys are as usable as they were.
LEMMA OtherFiles ==
  ASSUME Types, NEW k \in Keys, NEW j \in Keys \ {k}, file'[j] = file[j],
         ca'[j] = ca[j], contact'[j] = contact[j]
  PROVE  /\ Loads(j)' <=> Loads(j)
         /\ InStepAt(j)' <=> InStepAt(j)
         /\ NoFiles(j)' <=> NoFiles(j)
<1>1. Loads(j)' <=> Loads(j)
  BY DEF Loads
<1>2. NoFiles(j)' <=> NoFiles(j)
  BY DEF NoFiles
<1>3. QED
  BY <1>1, <1>2 DEF InStepAt

\* A file is emptied before it is written.
LEMMA OpenFileStep ==
  ASSUME IInv, OpenFile
  PROVE  IInv'
<1> DEFINE f == Head(toSave)
<1>1. /\ UNCHANGED <<ca, contact, mail, key, toSave, pc, trouble>> /\ key \in Keys
      /\ pc = "save" /\ file' = [file EXCEPT ![key][f] = "torn"]
      /\ toSave \in Creating \cup {Updating}
  BY DEF OpenFile, counts, IInv, Types
<1>2. f \in Files
  BY <1>1, Lists DEF Creating, Updating, Files
<1>3. /\ file' \in [Keys -> [Files -> {"none", "torn", "full"}]]
      /\ \A j \in Keys \ {key} : file'[j] = file[j]
      /\ file'[key][f] = "torn"
      /\ \A g \in Files \ {f} : file'[key][g] = file[key][g]
  BY <1>1, <1>2, OneFile DEF IInv
<1>4. Types'
  BY <1>1, <1>3 DEF IInv, Types
<1>5. \A j \in Keys \ {key} : (Loads(j)' <=> Loads(j)) /\ (InStepAt(j)' <=> InStepAt(j))
  BY <1>1, <1>3, OtherFiles DEF IInv
<1>6. ~ Loads(key)'
  BY <1>1, <1>2, <1>3 DEF Loads
<1>7. Agreed' /\ Alone'
  BY <1>1, <1>5, <1>6 DEF IInv, Agreed, Alone, BeingMade, Loadable
<1>8. OthersInStep'
  BY <1>1, <1>5 DEF IInv, OthersInStep
<1>9. Saving'
  <2>1. CASE toSave = Updating
    BY <1>1, <1>3, <2>1, Lists, ListsDiffer DEF IInv, Saving, Updating, Creating, Files
  <2>2. CASE toSave = <<"regr", "key", "meta">>
    BY <1>1, <1>3, <2>2, Lists, ListsDiffer DEF IInv, Saving, Updating, Creating, Files
  <2>3. CASE toSave = <<"key", "meta">>
    BY <1>1, <1>3, <2>3, Lists, ListsDiffer DEF IInv, Saving, Updating, Creating, Files
  <2>4. CASE toSave = <<"meta">>
    BY <1>1, <1>3, <2>4, Lists, ListsDiffer DEF IInv, Saving, Updating, Creating, Files
  <2>5. QED
    BY <1>1, <2>1, <2>2, <2>3, <2>4 DEF Creating
<1>10. QED
  BY <1>1, <1>4, <1>7, <1>8, <1>9 DEF IInv, Changing

\* What is written is there once the file is closed; with the last one the
\* account can be used.
LEMMA CloseFileStep ==
  ASSUME IInv, CloseFile
  PROVE  IInv'
<1> DEFINE f == Head(toSave)
<1>1. /\ UNCHANGED <<ca, mail, key, trouble>> /\ key \in Keys
      /\ pc = "save" /\ file' = [file EXCEPT ![key][f] = "full"]
      /\ toSave \in Creating \cup {Updating} /\ toSave' = Tail(toSave)
      /\ contact' = IF f = "regr" THEN [contact EXCEPT ![key] = ca[key].mail] ELSE contact
      /\ pc' = IF Tail(toSave) = <<>> THEN "eff" ELSE "save"
  BY DEF CloseFile, Regr, AnsweredRegr, counts, IInv, Types
<1>2. f \in Files
  BY <1>1, Lists DEF Creating, Updating, Files
<1>3. /\ file' \in [Keys -> [Files -> {"none", "torn", "full"}]]
      /\ \A j \in Keys \ {key} : file'[j] = file[j]
      /\ file'[key][f] = "full"
      /\ \A g \in Files \ {f} : file'[key][g] = file[key][g]
  BY <1>1, <1>2, OneFile, ZenonT(30) DEF IInv
<1>4. ca[key] \in Registration /\ contact \in [Keys -> Mails \cup {NoMail}]
  BY <1>1 DEF IInv, Types
<1>5. /\ contact' \in [Keys -> Mails \cup {NoMail}]
      /\ \A j \in Keys \ {key} : contact'[j] = contact[j]
      /\ f = "regr" => contact'[key] = ca[key].mail
      /\ f # "regr" => contact'[key] = contact[key]
  BY <1>1, <1>4 DEF Registration
<1>6. \A j \in Keys \ {key} : (Loads(j)' <=> Loads(j)) /\ (InStepAt(j)' <=> InStepAt(j))
  BY <1>1, <1>3, <1>5, OtherFiles DEF IInv
<1>7. CASE toSave \in {Updating, <<"meta">>}
  <2>1. pc' = "eff" /\ toSave' = <<>>
    BY <1>1, <1>7, Lists DEF Updating
  <2>2. Types'
    BY <1>1, <1>3, <1>5, <2>1 DEF IInv, Types
  <2>3. file'[key]["regr"] = "full" /\ file'[key]["key"] = "full" /\ file'[key]["meta"] = "full"
    BY <1>1, <1>3, <1>7, Lists, ListsDiffer DEF IInv, Saving, Updating, Creating, Files
  <2>4. Loads(key)'
    BY <1>1, <2>3 DEF Loads, Files
  <2>5. ca[key].agreed /\ (trouble = 0 => ca[key].st = "open")
    BY <1>1 DEF IInv, Saving
  <2>6. Agreed'
    BY <1>1, <1>6, <2>5 DEF IInv, Agreed, Loadable
  <2>7. contact'[key] = ca[key].mail
    BY <1>1, <1>5, <1>7, Lists DEF IInv, Saving, Updating
  <2>8. trouble = 0 => InStepAt(key)'
    BY <1>1, <2>4, <2>5, <2>7 DEF InStepAt
  <2>9. OthersInStep'
    BY <1>1, <1>6, <2>8 DEF IInv, OthersInStep
  <2>10. QED
    BY <2>1, <2>2, <2>6, <2>9 DEF IInv, Alone, BeingMade, Saving, Changing
<1>8. CASE toSave \in {<<"regr", "key", "meta">>, <<"key", "meta">>}
  <2>1. toSave' \in {<<"key", "meta">>, <<"meta">>} /\ toSave' \in Creating /\ pc' = "save"
    BY <1>1, <1>8, Lists, ListsDiffer DEF Creating
  <2>2. Types'
    BY <1>1, <1>3, <1>5, <2>1 DEF IInv, Types
  <2>3. toSave \in Creating /\ Loadable = {} /\ file[key]["meta"] # "full"
    BY <1>1, <1>8 DEF IInv, Alone, BeingMade, Saving, Creating
  <2>4. file'[key]["meta"] = file[key]["meta"]
    BY <1>3, <1>8, Lists DEF Files
  <2>5. ~ Loads(key)'
    BY <1>1, <2>3, <2>4 DEF Loads, Files
  <2>6. Agreed' /\ Alone'
    BY <1>1, <1>6, <2>1, <2>3, <2>5 DEF IInv, Agreed, Alone, Loadable
  <2>7. OthersInStep'
    BY <1>1, <1>6, <2>1 DEF IInv, OthersInStep
  <2>8. Saving'
    <3>1. CASE toSave = <<"regr", "key", "meta">>
      BY <1>1, <1>3, <1>5, <2>3, <2>4, <3>1, Lists, ListsDiffer
         DEF IInv, Saving, Updating, Creating, Files
    <3>2. CASE toSave = <<"key", "meta">>
      BY <1>1, <1>3, <1>5, <2>3, <2>4, <3>2, Lists, ListsDiffer
         DEF IInv, Saving, Updating, Creating, Files
    <3>3. QED
      BY <1>8, <3>1, <3>2
  <2>9. QED
    BY <2>1, <2>2, <2>6, <2>7, <2>8 DEF IInv, Changing
<1>9. QED
  BY <1>1, <1>7, <1>8 DEF Creating

\* The CA takes another address, or refuses it, or its answer is lost.
LEMMA UpdateStep ==
  ASSUME IInv, UpdateRegistration
  PROVE  IInv'
<1>1. UNCHANGED <<disk, mail, key>> /\ key \in Keys /\ pc = "update" /\ trouble \in Nat
      /\ mail \in Mails \cup {NoMail}
  BY DEF UpdateRegistration, IInv, Types
<1>2. CASE UNCHANGED <<ca, trouble>> /\ pc' = "idle"
  BY <1>1, <1>2, QuietStep
<1>3. CASE /\ ca' = [ca EXCEPT ![key].mail = mail]
           /\ \/ trouble' = trouble /\ pc' = "save" /\ toSave' = Updating
              \/ trouble' = trouble + 1 /\ pc' = "idle"
  <2>1. /\ ca' \in [Keys -> Registration]
        /\ ca'[key] = [ca[key] EXCEPT !.mail = mail]
        /\ \A j \in Keys \ {key} : ca'[j] = ca[j]
    <3>1. ca' \in [Keys -> Registration] /\ ca'[key] = [ca[key] EXCEPT !.mail = mail]
      BY <1>1, <1>3, Updates DEF IInv
    <3>2. \A j \in Keys \ {key} : ca'[j] = ca[j]
      BY <1>1, <1>3 DEF IInv, Types
    <3>3. QED
      BY <3>1, <3>2
  <2>2. trouble' \in Nat /\ (trouble' = 0 => trouble = 0 /\ pc' = "save")
    BY <1>1, <1>3
  <2>3. Types'
    BY <1>1, <1>3, <2>1, <2>2 DEF IInv, Types, disk
  <2>4. Loads(key) /\ ca[key] \in Registration
    BY <1>1 DEF IInv, Types, Changing
  <2>5. ca[key].agreed /\ (trouble = 0 => ca[key].st = "open")
    BY <1>1, <2>4 DEF IInv, Agreed, Loadable, OthersInStep, InStepAt
  <2>6. ca'[key].agreed = ca[key].agreed /\ ca'[key].st = ca[key].st
    BY <2>1, <2>4 DEF Registration
  <2>7. \A j \in Keys : Loads(j)' <=> Loads(j)
    BY <1>1 DEF Loads, disk
  <2>8. \A j \in Keys \ {key} : InStepAt(j)' <=> InStepAt(j)
    BY <1>1, <2>1, OtherFiles DEF IInv, disk
  <2>9. Agreed'
    BY <1>1, <2>1, <2>5, <2>6, <2>7 DEF IInv, Agreed, Loadable
  <2>10. Alone' /\ Changing'
    BY <1>3, ListsDiffer DEF Alone, BeingMade, Changing, Updating
  <2>11. OthersInStep'
    BY <1>1, <2>2, <2>8 DEF IInv, OthersInStep
  <2>12. Saving'
    <3>1. file'[key]["key"] = "full" /\ file'[key]["meta"] = "full"
      BY <1>1, <2>4 DEF Loads, Files, disk
    <3>2. pc' = "save" => toSave' = Updating /\ trouble' = trouble
      BY <1>3
    <3>3. QED
      BY <1>1, <2>5, <2>6, <3>1, <3>2, ListsDiffer DEF Saving, Updating, Creating
  <2>13. QED
    BY <2>3, <2>9, <2>10, <2>11, <2>12 DEF IInv
<1>4. QED
  BY <1>2, <1>3 DEF UpdateRegistration, Save, Answered, Lost, End, Updating

\* The CA closes the account, or refuses to, or its answer is lost.
LEMMA DeactivateStep ==
  ASSUME IInv, DeactivateRegistration
  PROVE  IInv'
<1>1. UNCHANGED <<disk, mail, key>> /\ key \in Keys /\ pc = "close" /\ trouble \in Nat
      /\ mail \in Mails \cup {NoMail}
  BY DEF DeactivateRegistration, IInv, Types
<1>2. CASE UNCHANGED <<ca, trouble>> /\ pc' = "idle"
  BY <1>1, <1>2, QuietStep
<1>3. CASE /\ ca' = [ca EXCEPT ![key].st = "closed"]
           /\ \/ trouble' = trouble /\ pc' = "delete"
              \/ trouble' = trouble + 1 /\ pc' = "idle"
  <2>1. /\ ca' \in [Keys -> Registration]
        /\ ca'[key] = [ca[key] EXCEPT !.st = "closed"]
        /\ \A j \in Keys \ {key} : ca'[j] = ca[j]
    <3>1. ca' \in [Keys -> Registration] /\ ca'[key] = [ca[key] EXCEPT !.st = "closed"]
      BY <1>1, <1>3, Updates DEF IInv
    <3>2. \A j \in Keys \ {key} : ca'[j] = ca[j]
      BY <1>1, <1>3 DEF IInv, Types
    <3>3. QED
      BY <3>1, <3>2
  <2>2. trouble' \in Nat /\ (trouble' = 0 => trouble = 0 /\ pc' = "delete")
    BY <1>1, <1>3
  <2>3. Types'
    BY <1>1, <1>3, <2>1, <2>2 DEF IInv, Types, disk
  <2>4. ca[key] \in Registration
    BY <1>1 DEF IInv, Types
  <2>5. ca'[key].agreed = ca[key].agreed /\ ca'[key].st = "closed"
    BY <2>1, <2>4 DEF Registration
  <2>6. \A j \in Keys : Loads(j)' <=> Loads(j)
    BY <1>1 DEF Loads, disk
  <2>7. \A j \in Keys \ {key} : InStepAt(j)' <=> InStepAt(j)
    BY <1>1, <2>1, OtherFiles DEF IInv, disk
  <2>8. Agreed'
    BY <1>1, <2>1, <2>5, <2>6 DEF IInv, Agreed, Loadable
  <2>9. OthersInStep'
    BY <1>1, <2>2, <2>7 DEF IInv, OthersInStep
  <2>10. QED
    BY <1>1, <1>3, <2>3, <2>5, <2>8, <2>9 DEF IInv, Alone, BeingMade, Saving, Changing
<1>4. QED
  BY <1>2, <1>3 DEF DeactivateRegistration, NotDeactivated, Refused, Goto, Answered, Lost, End

\* One file of the closed account goes; with the last one nothing is left.
LEMMA DeleteStep ==
  ASSUME IInv, Delete
  PROVE  IInv'
<1>1. /\ UNCHANGED <<ca, mail, key, trouble>> /\ key \in Keys /\ pc = "delete"
      /\ ca[key].st = "closed"
  BY DEF Delete, counts, IInv, Types, Changing
<1>2. PICK f \in Remains :
        /\ file' = [file EXCEPT ![key][f] = "none"]
        /\ contact' = IF f = "regr" THEN [contact EXCEPT ![key] = NoMail] ELSE contact
        /\ IF Remains = {f} THEN pc' = "idle" ELSE pc' = "delete"
  BY <1>1 DEF Delete, Removal, End
<1>3. f \in Files
  BY <1>2 DEF Remains
<1>4. /\ file' \in [Keys -> [Files -> {"none", "torn", "full"}]]
      /\ \A j \in Keys \ {key} : file'[j] = file[j]
      /\ file'[key][f] = "none"
      /\ \A g \in Files \ {f} : file'[key][g] = file[key][g]
  BY <1>1, <1>2, <1>3, OneFile DEF IInv
<1>5. /\ contact' \in [Keys -> Mails \cup {NoMail}]
      /\ \A j \in Keys \ {key} : contact'[j] = contact[j]
  BY <1>1, <1>2 DEF IInv, Types
<1>6. Types'
  BY <1>1, <1>2, <1>4, <1>5 DEF IInv, Types
<1>7. \A j \in Keys \ {key} : (Loads(j)' <=> Loads(j)) /\ (InStepAt(j)' <=> InStepAt(j))
  BY <1>1, <1>4, <1>5, OtherFiles DEF IInv
<1>8. ~ Loads(key)'
  BY <1>1, <1>3, <1>4 DEF Loads
<1>9. Agreed'
  BY <1>1, <1>7, <1>8 DEF IInv, Agreed, Loadable
<1>10. OthersInStep'
  <2>1. CASE Remains = {f}
    <3>1. NoFiles(key)'
      BY <1>1, <1>3, <1>4, <2>1 DEF NoFiles, Remains
    <3>2. QED
      BY <1>1, <1>7, <1>8, <3>1 DEF IInv, OthersInStep, InStepAt
  <2>2. CASE Remains # {f}
    BY <1>1, <1>2, <1>7, <2>2 DEF IInv, OthersInStep
  <2>3. QED
    BY <2>1, <2>2
<1>11. QED
  BY <1>1, <1>2, <1>6, <1>9, <1>10 DEF IInv, Alone, BeingMade, Saving, Changing

LEMMA StepInv ==
  ASSUME IInv, [Next]_vars
  PROVE  IInv'
<1>1. CASE UNCHANGED vars
  <2>1. UNCHANGED <<ca, disk, mail, key, toSave, pc, trouble>>
    BY <1>1 DEF vars, disk, counts
  <2>2. QED
    BY <2>1, SameAccounts DEF IInv, Types, Alone, BeingMade, Saving, Changing, OthersInStep, disk,
       NoFiles, Loads
<1>2. CASE Step
  BY <1>2, QuietActions, DetermineStep, AskAgainStep, RegisterStep, AgreeStep, OpenFileStep,
     CloseFileStep, UpdateStep, DeactivateStep, DeleteStep DEF Step
<1>3. QED
  BY <1>1, <1>2, QuietActions DEF Next, Over

-----------------------------------------------------------------------------
(***************************************************************************)
(* The theorems.                                                           *)
(***************************************************************************)

\* Every reachable state of registration, update and deactivation has the
\* accounts of the disk as far as the commands have come with them.
LEMMA AccountsInvariant ==
  Spec => []IInv
BY InitInv, StepInv, PTL DEF Spec

\* Between two commands the disk and the CA agree on which accounts are open
\* and on their addresses, and nothing is left of the others, while no answer
\* was lost and nothing killed; what is on the disk has agreed to the terms of
\* service in any case (client.register, main.unregister, account._save).
THEOREM DiskAndCAInStep == Spec => []InStep
<1>1. IInv => InStep
  BY DEF IInv, OthersInStep, InStepAt, InStep, Synchronous, NoFiles
<1>2. QED
  BY <1>1, AccountsInvariant, PTL

\* What KeyKept says of a step.
KeyKeptStep ==
  \A k \in Keys :
    /\ file[k]["key"] = "full" /\ file'[k]["key"] # "full" => ca[k].st = "closed"
    /\ file[k]["key"] # "full" /\ file'[k]["key"] = "full" => Loadable = {}

\* The key of an account leaves the disk only after the CA has closed the
\* account, and no command makes a second account.
THEOREM KeysAreKept == Spec => KeyKept
<1>1. ASSUME IInv, [Next]_vars
      PROVE  [KeyKeptStep]_vars
  <2>1. CASE UNCHANGED vars
    BY <2>1
  <2>2. CASE UNCHANGED file
    BY <2>2 DEF KeyKeptStep
  <2>3. CASE OpenFile
    <3>1. /\ key \in Keys /\ file \in [Keys -> [Files -> {"none", "torn", "full"}]]
          /\ pc = "save" /\ file' = [file EXCEPT ![key][Head(toSave)] = "torn"]
          /\ toSave \in Creating \cup {Updating}
      BY <1>1, <2>3 DEF OpenFile, IInv, Types
    <3>2. Head(toSave) \in Files
      BY <3>1, Lists DEF Creating, Updating, Files
    <3>3. /\ \A j \in Keys \ {key} : file'[j] = file[j]
          /\ file'[key][Head(toSave)] = "torn"
          /\ \A g \in Files \ {Head(toSave)} : file'[key][g] = file[key][g]
      BY <1>1, <3>1, <3>2, OneFile DEF IInv
    <3>4. Head(toSave) = "key" => file[key]["key"] # "full"
      BY <1>1, <3>1, Lists, ListsDiffer DEF IInv, Saving, Creating, Updating
    <3>5. QED
      BY <3>1, <3>3, <3>4 DEF KeyKeptStep, Files
  <2>4. CASE CloseFile
    <3>1. /\ key \in Keys /\ file \in [Keys -> [Files -> {"none", "torn", "full"}]]
          /\ pc = "save" /\ file' = [file EXCEPT ![key][Head(toSave)] = "full"]
          /\ toSave \in Creating \cup {Updating}
      BY <1>1, <2>4 DEF CloseFile, IInv, Types
    <3>2. Head(toSave) \in Files
      BY <3>1, Lists DEF Creating, Updating, Files
    <3>3. /\ \A j \in Keys \ {key} : file'[j] = file[j]
          /\ file'[key][Head(toSave)] = "full"
          /\ \A g \in Files \ {Head(toSave)} : file'[key][g] = file[key][g]
      BY <1>1, <3>1, <3>2, OneFile DEF IInv
    <3>4. Head(toSave) = "key" => Loadable = {}
      BY <1>1, <3>1, Lists DEF IInv, Alone, BeingMade, Updating
    <3>5. QED
      BY <3>1, <3>3, <3>4 DEF KeyKeptStep, Files
  <2>5. CASE Delete
    <3>1. key \in Keys /\ pc = "delete" /\ ca[key].st = "closed"
      BY <1>1, <2>5 DEF Delete, IInv, Types, Changing
    <3>2. PICK f \in Remains : file' = [file EXCEPT ![key][f] = "none"]
      BY <2>5 DEF Delete, Removal
    <3>3. /\ f \in Files /\ \A j \in Keys \ {key} : file'[j] = file[j]
          /\ file'[key][f] = "none"
          /\ \A g \in Files \ {f} : file'[key][g] = file[key][g]
      BY <1>1, <3>1, <3>2, OneFile DEF IInv, Remains
    <3>4. QED
      BY <3>1, <3>3 DEF KeyKeptStep, Files
  <2>6. QED
    <3>1. CASE \/ \E v \in {"use", "register", "update", "unregister"}, m \in Mails,
                    sure \in BOOLEAN : Start(v, m, sure)
               \/ Kill \/ NoKeyLeft \/ GiveUp \/ Register \/ AgreeToTos
               \/ \E k \in Keys \cup {0} : Determine(k)
               \/ \E m \in Mails : AskAgain(m)
               \/ \E reached \in BOOLEAN : Subscribe(reached)
               \/ UpdateRegistration \/ DeactivateRegistration
      <4>1. UNCHANGED file
        BY <3>1 DEF Start, Kill, NoKeyLeft, GiveUp, Register, AgreeToTos, Determine, AskAgain,
           Subscribe, UpdateRegistration, DeactivateRegistration, disk
      <4>2. QED
        BY <4>1, <2>2
    <3>2. QED
      BY <1>1, <2>1, <2>3, <2>4, <2>5, <3>1 DEF Next, Step, Over
<1>2. QED
  BY <1>1, AccountsInvariant, PTL DEF Spec, KeyKept, KeyKeptStep

-----------------------------------------------------------------------------
(***************************************************************************)
(* The installers leave the configuration as they found it when they fail, *)
(* whatever it is and whatever they made of it: nothing here looks into a  *)
(* configuration.  What counts is where the one that was found is kept: in *)
(* the temporary checkpoint, in the one in progress, at the bottom of the  *)
(* stack, or on disk still.                                                *)
(***************************************************************************)

\* Sequences of anything.
Elements(s) == {s[i] : i \in DOMAIN s}
IsSeq(s) == s \in Seq(Elements(s))

LEMMA SeqOf ==
  ASSUME NEW S, NEW s \in Seq(S)
  PROVE  IsSeq(s)
BY DEF IsSeq, Elements

LEMMA Appended ==
  ASSUME NEW s, IsSeq(s), NEW x
  PROVE  /\ IsSeq(Append(s, x)) /\ Append(s, x) # <<>> /\ Len(Append(s, x)) = Len(s) + 1
         /\ Append(s, x)[1] = IF s = <<>> THEN x ELSE s[1]
         /\ Append(s, x) = s \o <<x>>
<1> DEFINE S == Elements(s) \cup {x}
<1>1. s \in Seq(S) /\ x \in S
  BY DEF IsSeq
<1> HIDE DEF S
<1>2. /\ Append(s, x) \in Seq(S) /\ Append(s, x) # <<>> /\ Len(Append(s, x)) = Len(s) + 1
      /\ Append(s, x)[1] = IF s = <<>> THEN x ELSE s[1]
      /\ Append(s, x) = s \o <<x>>
  BY <1>1
<1>3. QED
  BY <1>2, SeqOf

LEMMA Shorter ==
  ASSUME NEW S, NEW s \in Seq(S), s # <<>>
  PROVE  /\ Len(s) \in Nat \ {0}
         /\ Tail(s) \in Seq(S) /\ Len(Tail(s)) = Len(s) - 1
         /\ SubSeq(s, 1, Len(s) - 1) \in Seq(S) /\ Len(SubSeq(s, 1, Len(s) - 1)) = Len(s) - 1
         /\ Len(s) > 1 => SubSeq(s, 1, Len(s) - 1)[1] = s[1]
<1>1. Len(s) \in Nat \ {0}
  OBVIOUS
<1>2. Tail(s) \in Seq(S) /\ Len(Tail(s)) = Len(s) - 1
  OBVIOUS
<1> DEFINE n == Len(s) - 1
<1>3. n \in Nat /\ \A k \in 1..n : s[k] \in S
  BY <1>1
<1> HIDE DEF n
<1>4. /\ SubSeq(s, 1, n) \in Seq(S) /\ Len(SubSeq(s, 1, n)) = (IF 1 <= n THEN n - 1 + 1 ELSE 0)
      /\ \A k \in 1..(n - 1 + 1) : SubSeq(s, 1, n)[k] = s[1 + k - 1]
  BY <1>3, SubSeqProperties
<1>5. Len(SubSeq(s, 1, n)) = n /\ (n > 0 => SubSeq(s, 1, n)[1] = s[1])
  BY <1>3, <1>4
<1>6. QED
  BY <1>1, <1>2, <1>4, <1>5 DEF n

LEMMA NoElements ==
  ASSUME NEW S, NEW s \in Seq(S)
  PROVE  s = <<>> <=> Len(s) = 0
OBVIOUS

LEMMA Tailed ==
  ASSUME NEW s, IsSeq(s), s # <<>>
  PROVE  IsSeq(Tail(s)) /\ (Tail(s) = <<>> <=> Len(s) = 1) /\ Len(s) \in Nat /\ Len(Tail(s)) = Len(s) - 1
<1> DEFINE S == Elements(s)
<1>1. s \in Seq(S)
  BY DEF IsSeq
<1> HIDE DEF S
<1>2. /\ Len(s) \in Nat \ {0} /\ Tail(s) \in Seq(S) /\ Len(Tail(s)) = Len(s) - 1
  BY <1>1, Shorter
<1>3. Tail(s) = <<>> <=> Len(Tail(s)) = 0
  BY <1>2, NoElements
<1>4. IsSeq(Tail(s))
  BY <1>2, SeqOf
<1>5. QED
  BY <1>2, <1>3, <1>4

LEMMA Fronted ==
  ASSUME NEW s, IsSeq(s), s # <<>>
  PROVE  /\ IsSeq(SubSeq(s, 1, Len(s) - 1))
         /\ SubSeq(s, 1, Len(s) - 1) = <<>> => s[Len(s)] = s[1]
         /\ SubSeq(s, 1, Len(s) - 1) # <<>> => SubSeq(s, 1, Len(s) - 1)[1] = s[1]
<1> DEFINE S == Elements(s)
           f == SubSeq(s, 1, Len(s) - 1)
<1>1. s \in Seq(S)
  BY DEF IsSeq
<1> HIDE DEF S
<1>2. /\ Len(s) \in Nat \ {0} /\ f \in Seq(S) /\ Len(f) = Len(s) - 1
      /\ Len(s) > 1 => f[1] = s[1]
  BY <1>1, Shorter
<1> HIDE DEF f
<1>3. f = <<>> <=> Len(f) = 0
  BY <1>2, NoElements
<1>4. IsSeq(f)
  BY <1>2, SeqOf
<1>5. (f = <<>> => s[Len(s)] = s[1]) /\ (f # <<>> => f[1] = s[1])
  BY <1>2, <1>3
<1>6. QED
  BY <1>4, <1>5 DEF f

\* Where the configuration that was found is kept, and how many challenges are
\* open: the last of them reverts.
NginxFound ==
  /\ IsSeq(stack) /\ doms \in {<<"a">>, <<"a", "b">>}
  /\ ipc \notin {"raised", "done"} => missed = {}
  /\ ipc \in {"perform", "raised", "challenged"} => todo = doms
  /\ ipc = "perform" => conf = orig /\ temp = {} /\ prog = {} /\ stack = <<>>
  /\ ipc \in {"raised", "challenged"} =>
       /\ temp \in {{}, {orig}} /\ (temp = {} => conf = orig) /\ prog = {} /\ stack = <<>>
       /\ out \in SUBSET G!Domains /\ challOut = Cardinality(out)
  /\ ipc = "deploy" =>
       /\ stack = <<>> /\ prog \in {{}, {orig}} /\ (prog = {} => conf = orig)
       /\ IsSeq(todo) /\ Len(todo) <= Len(doms) /\ (todo = doms => prog = {})
  /\ ipc \in {"deployed", "enhance", "enhanced"} => stack # <<>> /\ stack[1] = orig /\ prog = {}

\* The same for Apache, whose checkpoints hold what changed only: as long as there
\* is none, nothing has.
ApacheFound ==
  /\ orig \in Servers /\ IsSeq(stack) /\ IsSeq(enh) /\ doms \in {<<"a">>, <<"a", "b">>}
  /\ ipc \notin {"raised", "done"} => missed = {}
  /\ ipc \in {"perform", "raised", "challenged"} => todo = doms
  /\ ipc = "perform" => conf = orig /\ prog = {} /\ stack = <<>>
  /\ ipc \in {"raised", "challenged"} => temp = {orig} /\ prog = {} /\ stack = <<>>
  /\ ipc \in {"deploy", "deployed", "enhance"} =>
       /\ stack = <<>> => prog \in {{}, {orig}} /\ (prog = {} => conf = orig)
       /\ stack # <<>> => stack[1] = orig
  /\ ipc = "deploy" => stack = <<>> /\ IsSeq(todo) /\ Len(todo) <= Len(doms) /\ (todo = doms => prog = {})
  /\ ipc = "deployed" => prog = {}
  /\ ipc = "enhance" => IsSeq(todo) /\ (todo = <<>> => prog = {}) /\ (\A x, y \in prog : x = y)

InstallersInv ==
  /\ Nginx => NginxFound /\ G!Undone
  /\ Apache => ApacheFound /\ (NameFree => A!Undone)

LEMMA Only == ASSUME NEW x PROVE (CHOOSE c \in {x} : TRUE) = x
OBVIOUS

-----------------------------------------------------------------------------
(* The nginx plugin. *)

\* What a certificate may be for.
LEMMA Asked ==
  /\ IsSeq(<<"a">>) /\ IsSeq(<<"a", "b">>)
  /\ Len(<<"a">>) = 1 /\ Len(<<"a", "b">>) = 2
  /\ Elements(<<"a">>) = {"a"} /\ Elements(<<"a", "b">>) = {"a", "b"}
<1>1. <<"a">> \in Seq({"a"}) /\ <<"a", "b">> \in Seq({"a", "b"})
  OBVIOUS
<1>2. Len(<<"a">>) = 1 /\ Len(<<"a", "b">>) = 2
  OBVIOUS
<1>3. DOMAIN <<"a">> = {1} /\ DOMAIN <<"a", "b">> = {1, 2}
  OBVIOUS
<1>4. <<"a">>[1] = "a" /\ <<"a", "b">>[1] = "a" /\ <<"a", "b">>[2] = "b"
  OBVIOUS
<1>5. Elements(<<"a">>) = {"a"} /\ Elements(<<"a", "b">>) = {"a", "b"}
  BY <1>3, <1>4 DEF Elements
<1>6. IsSeq(<<"a">>) /\ IsSeq(<<"a", "b">>)
  BY <1>1, SeqOf
<1>7. QED
  BY <1>2, <1>5, <1>6

LEMMA NginxCardinality == ASSUME NEW S PROVE G!Cardinality(S) = Cardinality(S)
BY DEF G!Cardinality, Cardinality, G!IsFiniteSet, IsFiniteSet

LEMMA DomainsCounted ==
  /\ IsFiniteSet(G!Domains) /\ Cardinality({"a"}) = 1 /\ Cardinality({"a", "b"}) = 2
<1>1. IsFiniteSet({"a"}) /\ Cardinality({"a"}) = 1
  BY FS_Singleton
<1>2. {"a", "b"} = {"a"} \cup {"b"} /\ "b" \notin {"a"}
  OBVIOUS
<1>3. IsFiniteSet({"a"} \cup {"b"}) /\ Cardinality({"a"} \cup {"b"}) = 2
  BY <1>1, <1>2, FS_AddElement
<1>4. QED
  BY <1>1, <1>2, <1>3 DEF G!Domains

LEMMA NginxBegins == G!Init => NginxFound /\ G!Undone
<1> SUFFICES ASSUME G!Init
             PROVE  NginxFound /\ G!Undone
  OBVIOUS
<1>1. /\ conf = orig /\ temp = {} /\ prog = {} /\ stack = <<>> /\ ipc = "perform"
      /\ doms \in {<<"a">>, <<"a", "b">>} /\ missed = {} /\ todo = doms
  BY DEF G!Init
<1>2. IsSeq(<<>>)
  <2>1. <<>> \in Seq({})
    OBVIOUS
  <2>2. QED
    BY <2>1, SeqOf
<1>3. QED
  BY <1>1, <1>2 DEF NginxFound, G!Undone

LEMMA NginxPerforms ==
  ASSUME NginxFound, NEW ok \in BOOLEAN, G!Perform(ok)
  PROVE  NginxFound' /\ G!Undone'
<1>1. /\ ipc = "perform" /\ ipc' \in {"challenged", "raised"}
      /\ orig' = orig /\ doms' = doms /\ prog' = prog /\ stack' = stack /\ todo' = todo
      /\ ipc' = "challenged" => missed' = missed
      /\ out' = G!ToSet(doms) /\ challOut' = Len(doms)
      /\ (temp' = {conf} \/ (temp' = temp /\ conf' = conf))
  BY DEF G!Perform, G!PutInPlace, G!asked
<1>2. /\ conf = orig /\ temp = {} /\ prog = {} /\ stack = <<>> /\ IsSeq(stack)
      /\ doms \in {<<"a">>, <<"a", "b">>} /\ missed = {} /\ todo = doms
  BY <1>1 DEF NginxFound
<1>3. out' \in SUBSET G!Domains /\ challOut' = Cardinality(out')
  <2>1. G!ToSet(doms) = Elements(doms)
    BY DEF G!ToSet, Elements
  <2>2. G!Domains = {"a", "b"}
    BY DEF G!Domains
  <2>3. CASE doms = <<"a">>
    BY <1>1, <2>1, <2>2, <2>3, Asked, DomainsCounted
  <2>4. CASE doms = <<"a", "b">>
    BY <1>1, <2>1, <2>2, <2>4, Asked, DomainsCounted
  <2>5. QED
    BY <2>3, <2>4 DEF NginxFound
<1>4. QED
  BY <1>1, <1>2, <1>3 DEF NginxFound, G!Undone

LEMMA NginxCleans ==
  ASSUME NginxFound, NEW ok \in BOOLEAN, NEW X \in SUBSET G!Domains, G!Cleanup(X, ok)
  PROVE  NginxFound' /\ G!Undone'
<1>1. /\ X # {} /\ X \subseteq out /\ ipc \in {"raised", "challenged"}
      /\ ipc = "raised" => X = out
      /\ out' = out \ X /\ challOut' = challOut - G!Cardinality(X)
      /\ orig' = orig /\ doms' = doms /\ prog' = prog /\ stack' = stack /\ todo' = todo
      /\ ok => missed' = missed
      /\ ipc' = IF ~ ok \/ ipc = "raised" THEN "done" ELSE IF out' = {} THEN "deploy" ELSE "challenged"
  BY DEF G!Cleanup, G!asked
<1>2. /\ temp \in {{}, {orig}} /\ (temp = {} => conf = orig) /\ prog = {} /\ stack = <<>>
      /\ IsSeq(stack) /\ out \in SUBSET G!Domains /\ challOut = Cardinality(out)
      /\ doms \in {<<"a">>, <<"a", "b">>} /\ todo = doms /\ (ipc = "challenged" => missed = {})
  BY <1>1 DEF NginxFound
<1>3. challOut' = Cardinality(out') /\ (challOut' = 0 <=> out' = {})
  <2>1. IsFiniteSet(out)
    BY <1>2, DomainsCounted, FS_Subset
  <2>2. out \cap X = X
    BY <1>1
  <2>3. IsFiniteSet(out \ X) /\ Cardinality(out \ X) = Cardinality(out) - Cardinality(X)
    BY <2>1, <2>2, FS_Difference
  <2>4. challOut' = Cardinality(out')
    BY <1>1, <1>2, <2>3, NginxCardinality
  <2>5. Cardinality(out') = 0 <=> out' = {}
    BY <1>1, <2>3, FS_EmptySet
  <2>6. QED
    BY <2>4, <2>5
<1>4. CASE challOut' = 0
  <2>1. conf' = IF temp = {} THEN conf ELSE CHOOSE c \in temp : TRUE
    BY <1>4 DEF G!Cleanup, G!Reverts, G!RevertDue
  <2>2. conf' = orig
    BY <1>2, <2>1, Only
  <2>3. ipc' \in {"done", "deploy"} /\ (ipc' = "deploy" => missed' = {})
    BY <1>1, <1>2, <1>3, <1>4
  <2>4. IsSeq(todo') /\ Len(todo') <= Len(doms')
    BY <1>1, <1>2, Asked
  <2>5. NginxFound'
    BY <1>1, <1>2, <2>2, <2>3, <2>4 DEF NginxFound
  <2>6. QED
    BY <1>1, <2>2, <2>5 DEF G!Undone
<1>5. CASE challOut' # 0
  <2>1. ok /\ conf' = conf /\ temp' = temp
    BY <1>5 DEF G!Cleanup, G!Reverts, G!RevertDue
  <2>2. ipc' = "challenged"
    BY <1>1, <1>3, <1>5, <2>1
  <2>3. out' \in SUBSET G!Domains
    BY <1>1, <1>2
  <2>4. missed' = {}
    BY <1>1, <1>2, <2>1, <2>2
  <2>5. QED
    BY <1>1, <1>2, <1>3, <2>1, <2>2, <2>3, <2>4 DEF NginxFound, G!Undone
<1>6. QED
  BY <1>4, <1>5

LEMMA NginxDeploys ==
  ASSUME NginxFound, G!Deploy
  PROVE  NginxFound' /\ G!Undone'
<1> DEFINE e == G!DeployCert(G!Edit(mem, newVhost, 0, TRUE), Head(todo))
<1>1. /\ ipc = "deploy" /\ orig' = orig /\ doms' = doms /\ stack' = stack /\ todo # <<>>
      /\ \/ /\ conf' = e.cfg /\ prog' = (IF prog = {} THEN {conf} ELSE prog) /\ ipc' = ipc
            /\ todo' = Tail(todo) /\ missed' = missed
         \/ /\ conf' = (IF prog = {} THEN conf ELSE CHOOSE c \in prog : TRUE)
            /\ prog' = {} /\ ipc' = "done"
  BY DEF G!Deploy, G!SaveOrRecover, G!Save, G!Recover, G!asked
<1> HIDE DEF e
<1>2. /\ stack = <<>> /\ IsSeq(stack) /\ prog \in {{}, {orig}} /\ (prog = {} => conf = orig)
      /\ doms \in {<<"a">>, <<"a", "b">>} /\ missed = {} /\ IsSeq(todo) /\ Len(todo) <= Len(doms)
  BY <1>1 DEF NginxFound
<1>3. CASE /\ prog' = (IF prog = {} THEN {conf} ELSE prog) /\ ipc' = ipc
           /\ todo' = Tail(todo) /\ missed' = missed
  <2>1. prog' = {orig}
    BY <1>2, <1>3
  <2>2. IsSeq(todo') /\ Len(todo') <= Len(doms) /\ todo' # doms
    BY <1>1, <1>2, <1>3, Tailed, Asked
  <2>3. QED
    BY <1>1, <1>2, <1>3, <2>1, <2>2 DEF NginxFound, G!Undone
<1>4. CASE conf' = (IF prog = {} THEN conf ELSE CHOOSE c \in prog : TRUE) /\ ipc' = "done"
  <2>1. conf' = orig
    BY <1>2, <1>4, Only
  <2>2. QED
    BY <1>1, <1>2, <1>4, <2>1 DEF NginxFound, G!Undone
<1>5. QED
  BY <1>1, <1>3, <1>4

LEMMA NginxSaves ==
  ASSUME NginxFound, G!SaveDeployed \/ G!SaveEnhanced
  PROVE  NginxFound' /\ G!Undone'
<1>1. /\ ipc \in {"deploy", "enhance"} /\ ipc' \in {"deployed", "enhance", "enhanced"}
      /\ orig' = orig /\ doms' = doms /\ prog' = {} /\ missed' = missed
      /\ stack' = Append(stack, IF prog = {} THEN conf ELSE CHOOSE x \in prog : TRUE)
  BY DEF G!SaveDeployed, G!SaveEnhanced, G!Finalize, G!asked
<1>2. IsSeq(stack) /\ doms \in {<<"a">>, <<"a", "b">>} /\ missed = {}
  BY <1>1 DEF NginxFound
<1>3. stack' # <<>> /\ IsSeq(stack') /\ stack'[1] = orig
  <2>1. CASE ipc = "deploy"
    <3>1. stack = <<>> /\ prog \in {{}, {orig}} /\ (prog = {} => conf = orig)
      BY <2>1 DEF NginxFound
    <3>2. stack' = Append(stack, orig)
      BY <1>1, <3>1, Only
    <3>3. QED
      BY <1>2, <3>1, <3>2, Appended
  <2>2. CASE ipc = "enhance"
    <3>1. stack # <<>> /\ stack[1] = orig
      BY <2>2 DEF NginxFound
    <3>2. QED
      BY <1>1, <1>2, <3>1, Appended
  <2>3. QED
    BY <1>1, <2>1, <2>2
<1>4. QED
  BY <1>1, <1>2, <1>3 DEF NginxFound, G!Undone

LEMMA NginxRestarts ==
  ASSUME NginxFound, NEW ok \in BOOLEAN, NEW again \in BOOLEAN,
         G!RestartDeployed(ok, again) \/ G!RestartEnhanced(ok, again)
  PROVE  NginxFound' /\ G!Undone'
<1>1. /\ ipc \in {"deployed", "enhanced"} /\ orig' = orig /\ doms' = doms
      /\ \/ /\ conf' = conf /\ prog' = prog /\ stack' = stack
            /\ ipc' \in {"done", "enhance"} /\ missed' = missed
         \/ /\ conf' = G!Last(stack) /\ stack' = G!Front(stack) /\ prog' = {} /\ ipc' = "done"
            /\ missed' \in {{"rolled back"}, {"rolled back", "not restored"}}
  BY DEF G!RestartDeployed, G!RestartEnhanced, G!Rollback, G!asked, G!files
<1>2. /\ IsSeq(stack) /\ stack # <<>> /\ stack[1] = orig /\ prog = {}
      /\ doms \in {<<"a">>, <<"a", "b">>}
  BY <1>1 DEF NginxFound
<1>3. CASE ipc' \in {"done", "enhance"} /\ conf' = conf /\ prog' = prog /\ stack' = stack /\ missed' = missed
  <2>1. missed = {}
    BY <1>1 DEF NginxFound
  <2>2. QED
    BY <1>1, <1>2, <1>3, <2>1 DEF NginxFound, G!Undone
<1>4. CASE /\ conf' = G!Last(stack) /\ stack' = G!Front(stack) /\ prog' = {} /\ ipc' = "done"
           /\ missed' \in {{"rolled back"}, {"rolled back", "not restored"}}
  <2>1. conf' = stack[Len(stack)] /\ stack' = SubSeq(stack, 1, Len(stack) - 1)
    BY <1>4 DEF G!Last, G!Front
  <2>2. IsSeq(stack') /\ (stack' = <<>> => conf' = orig)
    BY <1>2, <2>1, Fronted
  <2>3. NginxFound'
    BY <1>1, <1>2, <1>4, <2>2 DEF NginxFound
  <2>4. missed' \cap {"challenge", "invalid", "deploy"} = {}
    BY <1>4
  <2>5. QED
    BY <1>1, <2>2, <2>3, <2>4 DEF G!Undone
<1>5. QED
  BY <1>1, <1>3, <1>4

LEMMA NginxInvalid ==
  ASSUME NginxFound, G!Invalid
  PROVE  NginxFound' /\ G!Undone'
<1>1. /\ ipc = "deploy" /\ todo = doms /\ ipc' = "done"
      /\ orig' = orig /\ doms' = doms /\ conf' = conf /\ stack' = stack
  BY DEF G!Invalid, G!asked, G!files
<1>2. conf = orig /\ IsSeq(stack) /\ doms \in {<<"a">>, <<"a", "b">>}
  BY <1>1 DEF NginxFound
<1>3. QED
  BY <1>1, <1>2 DEF NginxFound, G!Undone

LEMMA NginxEnhances ==
  ASSUME NginxFound, NEW version \in BOOLEAN, G!Enhance(version)
  PROVE  NginxFound' /\ G!Undone'
<1>1. /\ ipc = "enhance" /\ orig' = orig /\ doms' = doms /\ stack' = stack
      /\ \/ prog' = prog /\ missed' = missed /\ ipc' = ipc
         \/ prog' = {} /\ missed' = {"enhance"} /\ ipc' = "done"
  BY DEF G!Enhance, G!KeepOrRecover, G!Recover, G!asked
<1>2. /\ IsSeq(stack) /\ stack # <<>> /\ stack[1] = orig /\ prog = {}
      /\ doms \in {<<"a">>, <<"a", "b">>} /\ missed = {}
  BY <1>1 DEF NginxFound
<1>3. CASE prog' = prog /\ missed' = missed /\ ipc' = ipc
  BY <1>1, <1>2, <1>3 DEF NginxFound, G!Undone
<1>4. CASE missed' = {"enhance"} /\ ipc' = "done"
  BY <1>1, <1>2, <1>4 DEF NginxFound, G!Undone
<1>5. QED
  BY <1>1, <1>3, <1>4

LEMMA NginxStutters ==
  ASSUME NginxFound, G!Undone, UNCHANGED shared, UNCHANGED challOut
  PROVE  NginxFound' /\ G!Undone'
BY DEF NginxFound, G!Undone, shared

LEMMA NginxKept ==
  ASSUME NginxFound, G!Undone, G!Next
  PROVE  NginxFound' /\ G!Undone'
<1>1. CASE G!Over
  BY <1>1, NginxStutters DEF G!Over, G!vars, shared
<1>2. CASE G!Client
  <2>1. ASSUME NEW ok \in BOOLEAN, NEW X \in SUBSET G!Domains, G!Cleanup(X, ok)
        PROVE  NginxFound' /\ G!Undone'
    BY <2>1, NginxCleans
  <2>2. ASSUME NEW ok \in BOOLEAN, G!Perform(ok) \/ G!Enhance(ok)
        PROVE  NginxFound' /\ G!Undone'
    BY <2>2, NginxPerforms, NginxEnhances
  <2>3. ASSUME NEW ok \in BOOLEAN, NEW again \in BOOLEAN,
               G!RestartDeployed(ok, again) \/ G!RestartEnhanced(ok, again)
        PROVE  NginxFound' /\ G!Undone'
    BY <2>3, NginxRestarts
  <2>4. QED
    BY <1>2, <2>1, <2>2, <2>3, NginxInvalid, NginxDeploys, NginxSaves DEF G!Client
<1>3. QED
  BY <1>1, <1>2 DEF G!Next

-----------------------------------------------------------------------------
(* The Apache plugin. *)

\* A set of at most one element, as a sequence.
LEMMA Sequenced ==
  /\ A!SetToSeq({}) = <<>>
  /\ \A x : A!SetToSeq({x}) = <<x>>
<1>1. \A S : A!Cardinality(S) = Cardinality(S)
  BY DEF A!Cardinality, Cardinality, A!IsFiniteSet, IsFiniteSet
<1>2. A!SetToSeq({}) = <<>>
  <2> DEFINE f == A!SetToSeq({})
             g == [i \in 1..0 |-> i]
  <2>1. Cardinality({}) = 0
    BY FS_EmptySet
  <2>2. g \in [1..0 -> {}] /\ A!IsInjective(g)
    BY DEF A!IsInjective
  <2>3. f \in [1..0 -> {}]
    <3> HIDE DEF g
    <3>1. f = CHOOSE h \in [1..0 -> {}] : A!IsInjective(h)
      BY <1>1, <2>1 DEF A!SetToSeq
    <3>2. QED
      BY <2>2, <3>1
  <2> HIDE DEF f
  <2>4. f \in Seq({}) /\ Len(f) = 0
    BY <2>3
  <2>5. QED
    BY <2>4, NoElements DEF f
<1>3. ASSUME NEW x
      PROVE  A!SetToSeq({x}) = <<x>>
  <2> DEFINE f == A!SetToSeq({x})
             g == [i \in 1..1 |-> x]
  <2>1. Cardinality({x}) = 1
    BY FS_Singleton
  <2>2. g \in [1..1 -> {x}] /\ A!IsInjective(g)
    BY DEF A!IsInjective
  <2>3. f \in [1..1 -> {x}]
    <3> HIDE DEF g
    <3>1. f = CHOOSE h \in [1..1 -> {x}] : A!IsInjective(h)
      BY <1>1, <2>1 DEF A!SetToSeq
    <3>2. QED
      BY <2>2, <3>1
  <2> HIDE DEF f
  <2>4. f \in Seq({x}) /\ Len(f) = 1 /\ f[1] = x
    BY <2>3
  <2>5. <<x>> \in Seq({x}) /\ Len(<<x>>) = 1 /\ <<x>>[1] = x
    OBVIOUS
  <2>6. f = <<x>>
    BY <2>4, <2>5, SeqEqual
  <2>7. QED
    BY <2>6 DEF f
<1>4. QED
  BY <1>2, <1>3

LEMMA ApacheBegins == A!Init => ApacheFound /\ A!Undone
<1> SUFFICES ASSUME A!Init
             PROVE  ApacheFound /\ A!Undone
  OBVIOUS
<1>0. IsSeq(enh)
  <2> DEFINE S == {"hsts", "redirect", "staple"}
  <2>1. <<>> \in Seq(S) /\ <<"redirect">> \in Seq(S) /\ <<"hsts", "redirect", "staple">> \in Seq(S)
    OBVIOUS
  <2> HIDE DEF S
  <2>2. enh \in {<<>>, <<"redirect">>, <<"hsts", "redirect", "staple">>}
    BY DEF A!Init
  <2>3. enh \in Seq(S)
    BY <2>1, <2>2
  <2>4. QED
    BY <2>3, SeqOf
<1>1. /\ conf = orig /\ prog = {} /\ stack = <<>> /\ ipc = "perform" /\ orig \in Servers
      /\ doms \in {<<"a">>, <<"a", "b">>} /\ missed = {} /\ todo = doms
  BY DEF A!Init
<1>2. IsSeq(<<>>)
  <2>1. <<>> \in Seq({})
    OBVIOUS
  <2>2. QED
    BY <2>1, SeqOf
<1>3. QED
  BY <1>0, <1>1, <1>2 DEF ApacheFound, A!Undone

LEMMA ApachePerforms ==
  ASSUME ApacheFound, NEW ok \in BOOLEAN, NEW able, A!Perform(ok, able)
  PROVE  ApacheFound' /\ A!Undone'
<1>1. /\ ipc = "perform" /\ ipc' \in {"challenged", "raised"}
      /\ orig' = orig /\ doms' = doms /\ enh' = enh /\ prog' = prog /\ stack' = stack /\ todo' = todo
      /\ ipc' = "challenged" => missed' = missed
      /\ temp' = {conf}
  BY DEF A!Perform, A!PutInPlace, A!asked
<1>2. /\ conf = orig /\ prog = {} /\ stack = <<>> /\ orig \in Servers /\ IsSeq(stack) /\ IsSeq(enh)
      /\ doms \in {<<"a">>, <<"a", "b">>} /\ missed = {} /\ todo = doms
  BY <1>1 DEF ApacheFound
<1>3. QED
  BY <1>1, <1>2 DEF ApacheFound, A!Undone

LEMMA ApacheCleans ==
  ASSUME ApacheFound, NEW ok \in BOOLEAN, NEW X \in SUBSET A!Domains, A!Cleanup(X, ok)
  PROVE  ApacheFound' /\ A!Undone'
<1>1. /\ ipc \in {"raised", "challenged"} /\ (ipc = "raised" => X = out) /\ out' = out \ X
      /\ orig' = orig /\ doms' = doms /\ enh' = enh /\ prog' = prog /\ stack' = stack /\ todo' = todo
      /\ ok => missed' = missed
      /\ IF out' = {} THEN conf' \in temp ELSE ok /\ temp' = temp
      /\ ipc' = IF ~ ok \/ ipc = "raised" THEN "done" ELSE IF out' = {} THEN "deploy" ELSE "challenged"
  BY DEF A!Cleanup, A!asked
<1>2. /\ temp = {orig} /\ prog = {} /\ stack = <<>> /\ orig \in Servers /\ IsSeq(stack) /\ IsSeq(enh)
      /\ doms \in {<<"a">>, <<"a", "b">>} /\ todo = doms /\ (ipc = "challenged" => missed = {})
  BY <1>1 DEF ApacheFound
<1>3. CASE out' = {}
  <2>1. conf' = orig
    BY <1>1, <1>2, <1>3
  <2>2. ipc' \in {"done", "deploy"} /\ (ipc' = "deploy" => missed' = {})
    BY <1>1, <1>2, <1>3
  <2>3. IsSeq(todo') /\ Len(todo') <= Len(doms')
    BY <1>1, <1>2, Asked
  <2>4. ApacheFound'
    BY <1>1, <1>2, <2>1, <2>2, <2>3 DEF ApacheFound
  <2>5. QED
    BY <1>1, <2>1, <2>4 DEF A!Undone
<1>4. CASE out' # {}
  <2>1. ok /\ temp' = temp /\ ipc = "challenged" /\ ipc' = "challenged" /\ missed' = {}
    BY <1>1, <1>2, <1>4
  <2>2. QED
    BY <1>1, <1>2, <2>1 DEF ApacheFound, A!Undone
<1>5. QED
  BY <1>3, <1>4

\* No entry of another site is there for a recovery to remove.
LEMMA NothingRemoved ==
  ASSUME NameFree, NEW s \in Servers, NEW why
  PROVE  A!Removed(s, why) = s
<1>1. s \in A!ServerState /\ s.other = FALSE
  BY ServersAssumption DEF NameFree, A!ServerState
<1>2. QED
  BY <1>1 DEF A!Removed, A!ServerState

LEMMA ApacheDeploys ==
  ASSUME ApacheFound, NEW pick, NEW linkFails, NEW able, A!Deploy(pick, linkFails, able)
  PROVE  ApacheFound' /\ (NameFree => A!Undone')
<1> DEFINE e == A!DeployCert(A!Edit(able), Head(todo), pick, linkFails)
<1>1. /\ ipc = "deploy" /\ orig' = orig /\ doms' = doms /\ enh' = enh /\ stack' = stack /\ todo # <<>>
      /\ \/ /\ conf' = A!Server(e) /\ ipc' = ipc /\ todo' = Tail(todo) /\ missed' = missed
            /\ prog' = IF prog = {} /\ A!Server(e) # conf THEN {conf} ELSE prog
         \/ /\ conf' = A!Removed(IF prog = {} THEN conf ELSE CHOOSE c \in prog : TRUE, e.why)
            /\ prog' = {} /\ ipc' = "done"
  BY DEF A!Deploy, A!SaveOrRecover, A!Keep, A!Checkpoint, A!Begun, A!Recover, A!RecoverDisk, A!asked
<1> HIDE DEF e
<1>2. /\ stack = <<>> /\ orig \in Servers /\ IsSeq(stack) /\ IsSeq(enh) /\ prog \in {{}, {orig}} /\ (prog = {} => conf = orig)
      /\ doms \in {<<"a">>, <<"a", "b">>} /\ missed = {} /\ IsSeq(todo) /\ Len(todo) <= Len(doms)
      /\ orig \in Servers
  BY <1>1 DEF ApacheFound
<1>3. CASE /\ conf' = A!Server(e) /\ ipc' = ipc /\ todo' = Tail(todo) /\ missed' = missed
           /\ prog' = IF prog = {} /\ A!Server(e) # conf THEN {conf} ELSE prog
  <2>1. prog' \in {{}, {orig}} /\ (prog' = {} => conf' = orig)
    BY <1>2, <1>3
  <2>2. IsSeq(todo') /\ Len(todo') <= Len(doms) /\ todo' # doms
    BY <1>1, <1>2, <1>3, Tailed, Asked
  <2>3. QED
    BY <1>1, <1>2, <1>3, <2>1, <2>2 DEF ApacheFound, A!Undone
<1>4. CASE /\ conf' = A!Removed(IF prog = {} THEN conf ELSE CHOOSE c \in prog : TRUE, e.why)
           /\ ipc' = "done"
  <2>1. conf' = A!Removed(orig, e.why)
    BY <1>2, <1>4, Only
  <2>3. NameFree => conf' = orig
    BY <1>2, <2>1, NothingRemoved
  <2>2. QED
    BY <1>1, <1>2, <1>4, <2>3 DEF ApacheFound, A!Undone
<1>5. QED
  BY <1>1, <1>3, <1>4

LEMMA ApacheSaves ==
  ASSUME ApacheFound, A!SaveDeployed
  PROVE  ApacheFound' /\ A!Undone'
<1>1. /\ ipc = "deploy" /\ ipc' = "deployed" /\ orig' = orig /\ doms' = doms /\ enh' = enh
      /\ prog' = {} /\ missed' = missed /\ conf' = conf /\ stack' = stack \o A!SetToSeq(prog)
  BY DEF A!SaveDeployed, A!Finalize, A!asked
<1>2. /\ stack = <<>> /\ orig \in Servers /\ IsSeq(stack) /\ IsSeq(enh) /\ prog \in {{}, {orig}} /\ (prog = {} => conf = orig)
      /\ doms \in {<<"a">>, <<"a", "b">>} /\ missed = {}
  BY <1>1 DEF ApacheFound
<1>3. IsSeq(stack') /\ (stack' = <<>> => conf' = orig) /\ (stack' # <<>> => stack'[1] = orig)
  <2>1. CASE prog = {}
    <3>1. stack' = <<>>
      BY <1>1, <1>2, <2>1, Sequenced
    <3>2. QED
      BY <1>1, <1>2, <2>1, <3>1
  <2>2. CASE prog = {orig}
    <3>1. stack' = <<>> \o <<orig>> /\ Append(<<>>, orig) = <<>> \o <<orig>>
      BY <1>1, <1>2, <2>2, Sequenced, Appended
    <3>2. QED
      BY <1>2, <3>1, Appended
  <2>3. QED
    BY <1>2, <2>1, <2>2
<1>4. QED
  BY <1>1, <1>2, <1>3 DEF ApacheFound, A!Undone

LEMMA ApacheInvalid ==
  ASSUME ApacheFound, A!Invalid
  PROVE  ApacheFound' /\ A!Undone'
<1>1. /\ ipc = "deploy" /\ todo = doms /\ ipc' = "done"
      /\ orig' = orig /\ doms' = doms /\ enh' = enh /\ conf' = conf /\ stack' = stack
  BY DEF A!Invalid, A!asked, A!files
<1>2. conf = orig /\ orig \in Servers /\ IsSeq(stack) /\ IsSeq(enh) /\ doms \in {<<"a">>, <<"a", "b">>}
  BY <1>1 DEF ApacheFound
<1>3. QED
  BY <1>1, <1>2 DEF ApacheFound, A!Undone

\* A finalized checkpoint, if there is one in progress.
LEMMA Finalized ==
  ASSUME NEW s, IsSeq(s), NEW B, \A x, y \in B : x = y
  PROVE  /\ IsSeq(s \o A!SetToSeq(B))
         /\ s # <<>> => s \o A!SetToSeq(B) # <<>> /\ (s \o A!SetToSeq(B))[1] = s[1]
         /\ s = <<>> /\ B = {} => s \o A!SetToSeq(B) = <<>>
         /\ \A x : s = <<>> /\ B = {x} => s \o A!SetToSeq(B) = <<x>> /\ <<x>>[1] = x
<1> DEFINE t == s \o A!SetToSeq(B)
<1>1. CASE B = {}
  <2>1. t = s
    <3>1. A!SetToSeq(B) = <<>>
      BY <1>1, Sequenced
    <3>2. s \o <<>> = s
      BY DEF IsSeq
    <3>3. QED
      BY <3>1, <3>2
  <2> HIDE DEF t
  <2>2. QED
    BY <1>1, <2>1 DEF t
<1>2. ASSUME NEW x, B = {x}
      PROVE  /\ IsSeq(t) /\ (s # <<>> => t # <<>> /\ t[1] = s[1])
             /\ s = <<>> => t = <<x>> /\ <<x>>[1] = x
  <2>1. t = Append(s, x)
    <3>1. t = s \o <<x>>
      BY <1>2, Sequenced
    <3>2. QED
      BY <3>1, Appended
  <2>2. IsSeq(t) /\ (s # <<>> => t # <<>> /\ t[1] = s[1])
    <3>1. /\ IsSeq(Append(s, x)) /\ Append(s, x) # <<>>
          /\ Append(s, x)[1] = IF s = <<>> THEN x ELSE s[1]
      BY Appended
    <3> HIDE DEF t
    <3>2. QED
      BY <2>1, <3>1
  <2>3. s = <<>> => t = <<x>>
    BY <2>1
  <2>4. QED
    BY <2>2, <2>3
<1> HIDE DEF t
<1>3. CASE B # {}
  <2>1. PICK x : B = {x}
    BY <1>3
  <2>2. /\ IsSeq(t) /\ (s # <<>> => t # <<>> /\ t[1] = s[1])
        /\ s = <<>> => t = <<x>> /\ <<x>>[1] = x
    BY <1>2, <2>1
  <2>3. \A y : B = {y} => y = x
    BY <2>1
  <2>4. QED
    BY <1>3, <2>2, <2>3 DEF t
<1>4. QED
  BY <1>1, <1>3

LEMMA ApacheEnhances ==
  ASSUME ApacheFound, NEW version \in BOOLEAN, NEW able, A!Enhance(version, able)
  PROVE  ApacheFound' /\ A!Undone'
<1> DEFINE e == A!Supported([A!Edit(able) EXCEPT !.at = assoc[Head(todo)[2]]], Head(todo)[1], version)
           B == IF prog = {} /\ A!Server(e) # conf THEN {conf} ELSE prog
<1>1. /\ ipc = "enhance" /\ orig' = orig /\ doms' = doms /\ enh' = enh /\ todo # <<>>
      /\ \/ /\ conf' = A!Server(e) /\ todo' = Tail(todo) /\ missed' = missed /\ ipc' = ipc
            /\ \/ prog' = {} /\ stack' = stack \o A!SetToSeq(B)
               \/ Len(todo) # 1 /\ prog' = B /\ stack' = stack
         \/ stack' = stack /\ missed' = {"enhance"} /\ ipc' = "done"
  BY DEF A!Enhance, A!KeepOrRecover, A!Keep, A!Begun, A!LastDomain, A!asked
<1>2. /\ orig \in Servers /\ IsSeq(stack) /\ IsSeq(enh) /\ doms \in {<<"a">>, <<"a", "b">>} /\ missed = {}
      /\ stack = <<>> => prog \in {{}, {orig}} /\ (prog = {} => conf = orig)
      /\ stack # <<>> => stack[1] = orig
      /\ IsSeq(todo) /\ \A x, y \in prog : x = y
  BY <1>1 DEF ApacheFound
<1>3. /\ \A x, y \in B : x = y
      /\ stack = <<>> => B \in {{}, {orig}} /\ (B = {} => A!Server(e) = orig)
  <2> HIDE DEF e
  <2>1. QED
    BY <1>2
<1> HIDE DEF e, B
<1>4. CASE stack' = stack /\ missed' = {"enhance"} /\ ipc' = "done"
  BY <1>1, <1>2, <1>4 DEF ApacheFound, A!Undone
<1>5. CASE /\ conf' = A!Server(e) /\ todo' = Tail(todo) /\ missed' = missed /\ ipc' = ipc
           /\ prog' = {} /\ stack' = stack \o A!SetToSeq(B)
  <2>1. IsSeq(stack') /\ (stack' = <<>> => conf' = orig) /\ (stack' # <<>> => stack'[1] = orig)
    <3>1. CASE stack # <<>>
      BY <1>2, <1>3, <1>5, <3>1, Finalized
    <3>2. CASE stack = <<>> /\ B = {}
      BY <1>2, <1>3, <1>5, <3>2, Finalized
    <3>3. CASE stack = <<>> /\ B = {orig}
      <4>1. /\ IsSeq(stack \o A!SetToSeq(B))
            /\ stack \o A!SetToSeq(B) = <<orig>> /\ <<orig>>[1] = orig
        BY <1>2, <1>3, <3>3, Finalized
      <4>2. stack' = <<orig>> /\ IsSeq(stack')
        BY <1>5, <4>1
      <4>3. QED
        BY <4>1, <4>2
    <3>4. QED
      BY <1>3, <3>1, <3>2, <3>3
  <2>2. IsSeq(todo')
    BY <1>1, <1>2, <1>5, Tailed
  <2>3. ApacheFound'
    BY <1>1, <1>2, <1>5, <2>1, <2>2 DEF ApacheFound
  <2>4. QED
    BY <1>1, <1>5, <2>3 DEF A!Undone
<1>6. CASE /\ conf' = A!Server(e) /\ todo' = Tail(todo) /\ missed' = missed /\ ipc' = ipc
           /\ Len(todo) # 1 /\ prog' = B /\ stack' = stack
  <2>1. IsSeq(todo') /\ todo' # <<>>
    BY <1>1, <1>2, <1>6, Tailed
  <2>2. ApacheFound'
    BY <1>1, <1>2, <1>3, <1>6, <2>1 DEF ApacheFound
  <2>3. QED
    BY <1>1, <1>6, <2>2 DEF A!Undone
<1>7. QED
  BY <1>1, <1>4, <1>5, <1>6

LEMMA ApacheRollsBack ==
  ASSUME ApacheFound, NEW again \in BOOLEAN, A!Rollback(again),
         ipc \in {"deployed", "enhance"}, ipc = "enhance" => todo = <<>>,
         UNCHANGED <<orig, doms, enh>>
  PROVE  ApacheFound' /\ A!Undone'
<1>1. /\ orig \in Servers /\ IsSeq(stack) /\ IsSeq(enh) /\ doms \in {<<"a">>, <<"a", "b">>}
      /\ (stack = <<>> => conf = orig) /\ (stack # <<>> => stack[1] = orig)
  BY DEF ApacheFound
<1>2. /\ ipc' = "done" /\ missed' \in {{"rolled back"}, {"rolled back", "not restored"}}
      /\ IF stack = <<>> THEN conf' = conf /\ stack' = stack
         ELSE conf' = stack[Len(stack)] /\ stack' = SubSeq(stack, 1, Len(stack) - 1)
  BY DEF A!Rollback, A!Last, A!Front
<1>3. IsSeq(stack') /\ (stack' = <<>> => conf' = orig)
  <2>1. CASE stack = <<>>
    BY <1>1, <1>2, <2>1
  <2>2. CASE stack # <<>>
    BY <1>1, <1>2, <2>2, Fronted
  <2>3. QED
    BY <2>1, <2>2
<1>4. ApacheFound'
  BY <1>1, <1>2, <1>3 DEF ApacheFound
<1>5. missed' \cap {"challenge", "invalid", "deploy"} = {}
  BY <1>2
<1>6. QED
  BY <1>3, <1>4, <1>5 DEF A!Undone

LEMMA ApacheRestarts ==
  ASSUME ApacheFound, NEW ok \in BOOLEAN, NEW again \in BOOLEAN,
         A!RestartDeployed(ok, again) \/ A!RestartEnhanced(ok, again)
  PROVE  ApacheFound' /\ A!Undone'
<1> DEFINE n == Len(enh) * Len(doms)
           steps == [i \in 1..n |->
                       <<enh[((i - 1) \div Len(doms)) + 1], doms[((i - 1) % Len(doms)) + 1]>>]
<1>1. /\ ipc \in {"deployed", "enhance"} /\ (ipc = "enhance" => todo = <<>>)
      /\ orig' = orig /\ doms' = doms /\ enh' = enh
      /\ \/ /\ conf' = conf /\ prog' = prog /\ stack' = stack /\ missed' = missed
            /\ \/ ipc' = "done"
               \/ ipc = "deployed" /\ ipc' = "enhance" /\ enh # <<>> /\ todo' = steps
         \/ A!Rollback(again)
  BY DEF A!RestartDeployed, A!RestartEnhanced, A!asked, A!files
<1>2. /\ orig \in Servers /\ IsSeq(stack) /\ IsSeq(enh) /\ doms \in {<<"a">>, <<"a", "b">>} /\ missed = {}
      /\ (stack = <<>> => conf = orig) /\ (stack # <<>> => stack[1] = orig)
      /\ ipc = "deployed" => prog = {}
  BY <1>1 DEF ApacheFound
<1>3. enh # <<>> => IsSeq(steps) /\ steps # <<>>
  <2> SUFFICES ASSUME enh # <<>>
               PROVE  IsSeq(steps) /\ steps # <<>>
    OBVIOUS
  <2>1. Len(enh) \in Nat \ {0}
    BY <1>2 DEF IsSeq
  <2>2. n \in Nat \ {0}
    <3>1. CASE Len(doms) = 1
      BY <2>1, <3>1
    <3>2. CASE Len(doms) = 2
      BY <2>1, <3>2
    <3>3. QED
      BY <1>2, <3>1, <3>2, Asked
  <2> DEFINE S == Range(steps)
  <2>3. steps \in [1..n -> S]
    BY DEF Range
  <2> HIDE DEF n, steps, S
  <2>4. steps \in Seq(S) /\ Len(steps) = n
    BY <2>2, <2>3
  <2>5. steps # <<>>
    BY <2>2, <2>4
  <2>6. QED
    BY <2>4, <2>5, SeqOf
<1> HIDE DEF steps
<1>4. CASE A!Rollback(again)
  BY <1>1, <1>4, ApacheRollsBack
<1>5. CASE conf' = conf /\ stack' = stack /\ missed' = missed /\ ipc' = "done"
  BY <1>1, <1>2, <1>5 DEF ApacheFound, A!Undone
<1>6. CASE /\ conf' = conf /\ prog' = prog /\ stack' = stack /\ missed' = missed
           /\ ipc = "deployed" /\ ipc' = "enhance" /\ enh # <<>> /\ todo' = steps
  <2>1. IsSeq(todo') /\ todo' # <<>> /\ prog' = {}
    BY <1>2, <1>3, <1>6
  <2>2. QED
    BY <1>1, <1>2, <1>6, <2>1 DEF ApacheFound, A!Undone
<1>7. QED
  BY <1>1, <1>4, <1>5, <1>6

LEMMA ApacheStutters ==
  ASSUME ApacheFound, NameFree => A!Undone, UNCHANGED shared
  PROVE  ApacheFound' /\ (NameFree => A!Undone)'
BY DEF ApacheFound, A!Undone, shared

LEMMA ApacheKept ==
  ASSUME ApacheFound, NameFree => A!Undone, A!Next
  PROVE  ApacheFound' /\ (NameFree => A!Undone)'
<1>1. CASE A!Over
  BY <1>1, ApacheStutters DEF A!Over, A!vars, shared
<1>2. CASE A!Client
  <2>1. ASSUME NEW ok \in BOOLEAN, NEW X \in SUBSET A!Domains, A!Cleanup(X, ok)
        PROVE  ApacheFound' /\ (NameFree => A!Undone)'
    BY <2>1, ApacheCleans
  <2>2. ASSUME NEW ok \in BOOLEAN, NEW able, A!Perform(ok, able) \/ A!Enhance(ok, able)
        PROVE  ApacheFound' /\ (NameFree => A!Undone)'
    BY <2>2, ApachePerforms, ApacheEnhances
  <2>3. ASSUME NEW ok \in BOOLEAN, NEW again \in BOOLEAN,
               A!RestartDeployed(ok, again) \/ A!RestartEnhanced(ok, again)
        PROVE  ApacheFound' /\ (NameFree => A!Undone)'
    BY <2>3, ApacheRestarts
  <2>4. ASSUME NEW pick, NEW linkFails, NEW able, A!Deploy(pick, linkFails, able)
        PROVE  ApacheFound' /\ (NameFree => A!Undone)'
    BY <2>4, ApacheDeploys
  <2>5. QED
    BY <1>2, <2>1, <2>2, <2>3, <2>4, ApacheInvalid, ApacheSaves DEF A!Client
<1>3. QED
  BY <1>1, <1>2 DEF A!Next

-----------------------------------------------------------------------------
LEMMA InstallersInvariant == MCSpec => []InstallersInv
<1>1. MCInit => InstallersInv
  BY NginxBegins, ApacheBegins DEF MCInit, InstallersInv, Nginx, Apache
<1>2. InstallersInv /\ [MCNext]_mcVars => InstallersInv'
  <2> SUFFICES ASSUME InstallersInv, [MCNext]_mcVars
               PROVE  InstallersInv'
    OBVIOUS
  <2>1. CASE NginxNext
    BY <2>1, NginxKept DEF NginxNext, InstallersInv, Nginx, Apache
  <2>2. CASE ApacheNext
    BY <2>2, ApacheKept DEF ApacheNext, InstallersInv, Nginx, Apache
  <2>3. CASE AccountsNext
    BY <2>3 DEF AccountsNext, InstallersInv, Nginx, Apache
  <2>4. CASE UNCHANGED mcVars
    <3>1. part' = part /\ UNCHANGED shared /\ UNCHANGED challOut
      BY <2>4 DEF mcVars, nginx
    <3>2. QED
      BY <3>1, NginxStutters, ApacheStutters DEF InstallersInv, Nginx, Apache
  <2>5. QED
    BY <2>1, <2>2, <2>3, <2>4 DEF MCNext
<1>3. QED
  BY <1>1, <1>2, PTL DEF MCSpec

\* A challenge, a deployment or a restart that fails leaves the configuration as
\* it was found: whichever configurations nginx and Apache start with, whatever
\* the edits make of them, whichever steps fail and in whichever portions the
\* challenges are cleaned up.
THEOREM AllUndone ==
  ASSUME NameFree
  PROVE  MCSpec => []Undone
<1>1. InstallersInv => Undone
  BY DEF InstallersInv, Undone
<1>2. QED
  BY <1>1, InstallersInvariant, PTL

-----------------------------------------------------------------------------
(***************************************************************************)
(* The installers never save what the server would not load.  Here the     *)
(* edits are looked into: none of nginx's makes a second default block of  *)
(* an address, and none of Apache's uses a directive before its module is  *)
(* enabled.                                                                *)
(***************************************************************************)

\* A block, known by its fields and the type of its addresses.
IsBlock(b) ==
  /\ b \in [names : {b.names}, addrs : {b.addrs}, sslOn : {b.sslOn}, cert : {b.cert},
            clash : {b.clash}, gone : {b.gone}, redirects : {b.redirects},
            answers : {b.answers}, stapled : {b.stapled}]
  /\ b.addrs \subseteq G!Addr

\* Its default address at a port, of which nginx allows one.
Defaults(b, p) == {a \in b.addrs : a.port = p /\ a.def}
Once(S) == \A x, y \in S : x.port = y.port => x = y
Tame(b) == IsBlock(b) /\ Once(b.addrs)
Quiet(b) == Tame(b) /\ \A p \in {80, 443} : Defaults(b, p) = {}

\* A block that speaks no plain text at port 443, as SaysSsl has it.
SaidSsl(b) == \A a \in b.addrs : a.port = 443 /\ ~ b.sslOn => a.ssl

\* A configuration that nginx loads: no block has two addresses at a port, and one at
\* most has a default address there.  An edit starts from one that is Fine.
Good(c) ==
  /\ IsSeq(c) /\ \A i \in DOMAIN c : Tame(c[i])
  /\ \A p \in {80, 443} : \A i, j \in DOMAIN c :
       Defaults(c[i], p) # {} /\ Defaults(c[j], p) # {} => i = j
Fine(c) == Good(c) /\ SaysSsl(c)

LEMMA AtMostOne ==
  ASSUME NEW S, IsFiniteSet(S)
  PROVE  Cardinality(S) <= 1 <=> \A x, y \in S : x = y
<1>1. ASSUME Cardinality(S) <= 1, NEW x \in S, NEW y \in S, x # y
      PROVE  FALSE
  <2>1. {x, y} = {x} \cup {y} /\ y \notin {x}
    BY <1>1
  <2>2. IsFiniteSet({x}) /\ Cardinality({x}) = 1
    BY FS_Singleton
  <2>3. Cardinality({x, y}) = 2
    BY <2>1, <2>2, FS_AddElement
  <2>4. {x, y} \in SUBSET S
    OBVIOUS
  <2>5. Cardinality({x, y}) <= Cardinality(S)
    BY <2>4, FS_Subset
  <2>6. Cardinality(S) \in Nat
    BY FS_CardinalityType
  <2>7. QED
    BY <1>1, <2>3, <2>5, <2>6
<1>2. ASSUME \A x, y \in S : x = y
      PROVE  Cardinality(S) <= 1
  <2>1. CASE S = {}
    <3>1. Cardinality(S) = 0
      BY <2>1, FS_EmptySet
    <3>2. QED
      BY <3>1
  <2>2. CASE S # {}
    <3>1. PICK x : S = {x}
      BY <1>2, <2>2
    <3>2. Cardinality(S) = 1
      BY <3>1, FS_Singleton
    <3>3. QED
      BY <3>2
  <2>3. QED
    BY <2>1, <2>2
<1>3. QED
  BY <1>1, <1>2

LEMMA GoodIsValid ==
  ASSUME NEW c, IsSeq(c)
  PROVE  G!Valid(c) <=>
           /\ \A p \in {80, 443} : \A i, j \in DOMAIN c :
                Defaults(c[i], p) # {} /\ Defaults(c[j], p) # {} => i = j
           /\ \A i \in DOMAIN c : Once(c[i].addrs)
<1>1. DOMAIN c = 1..Len(c) /\ Len(c) \in Nat
  BY DEF IsSeq
<1>2. IsFiniteSet(DOMAIN c)
  BY <1>1, FS_Interval
<1>3. ASSUME NEW p \in {80, 443}
      PROVE  G!Cardinality({i \in DOMAIN c : \E a \in c[i].addrs : a.port = p /\ a.def}) <= 1 <=>
             \A i, j \in DOMAIN c : Defaults(c[i], p) # {} /\ Defaults(c[j], p) # {} => i = j
  <2> DEFINE S == {i \in DOMAIN c : \E a \in c[i].addrs : a.port = p /\ a.def}
  <2>1. IsFiniteSet(S)
    BY <1>2, FS_Subset
  <2>2. G!Cardinality(S) <= 1 <=> \A x, y \in S : x = y
    BY <2>1, AtMostOne, NginxCardinality
  <2>3. \A i \in DOMAIN c : i \in S <=> Defaults(c[i], p) # {}
    BY DEF Defaults
  <2>4. QED
    BY <2>2, <2>3
<1>4. QED
  BY <1>3 DEF G!Valid, Once

LEMMA Begin ==
  ASSUME SslAt443, NEW c \in Configs
  PROVE  Fine(c)
<1>1. c \in Seq(G!Block) /\ G!Valid(c)
  BY ConfigsAssumption
<1>2. IsSeq(c)
  BY <1>1, SeqOf
<1>3. ASSUME NEW i \in DOMAIN c
      PROVE  Tame(c[i])
  <2>1. c[i] \in G!Block
    BY <1>1
  <2>2. IsBlock(c[i])
    BY <2>1 DEF IsBlock, G!Block
  <2>3. Once(c[i].addrs)
    BY <1>1, <1>2, GoodIsValid
  <2>4. QED
    BY <2>2, <2>3 DEF Tame
<1>4. Good(c)
  BY <1>1, <1>2, <1>3, GoodIsValid DEF Good
<1>5. QED
  BY <1>4 DEF Fine, SslAt443

\* Where a block is put in the place of another, or after all of them.
LEMMA SaysMore ==
  ASSUME NEW c, IsSeq(c), SaysSsl(c), NEW b, SaidSsl(b)
  PROVE  SaysSsl(Append(c, b)) /\ \A i : SaysSsl([c EXCEPT ![i] = b])
<1>1. ASSUME NEW i
      PROVE  SaysSsl([c EXCEPT ![i] = b])
  BY DEF SaysSsl, SaidSsl
<1>2. SaysSsl(Append(c, b))
  <2> DEFINE S == Elements(c) \cup {b}
             d == Append(c, b)
  <2>1. c \in Seq(S) /\ b \in S
    BY DEF IsSeq
  <2> HIDE DEF S
  <2>2. /\ DOMAIN c = 1..Len(c) /\ DOMAIN d = 1..(Len(c) + 1) /\ Len(c) \in Nat
        /\ \A j \in DOMAIN d : d[j] = IF j = Len(c) + 1 THEN b ELSE c[j]
    BY <2>1
  <2> HIDE DEF d
  <2>3. \A j \in DOMAIN d : d[j] = b \/ (j \in DOMAIN c /\ d[j] = c[j])
    BY <2>2
  <2>4. SaysSsl(d)
    BY <2>3 DEF SaysSsl, SaidSsl
  <2>5. QED
    BY <2>4 DEF d
<1>3. QED
  BY <1>1, <1>2

LEMMA QuietIsTame == ASSUME NEW b, Quiet(b) PROVE Tame(b)
BY DEF Quiet

\* A block replaced by one with no other default.
LEMMA Replaced ==
  ASSUME NEW c, Good(c), NEW i, NEW b,
         i \in DOMAIN c => Tame(b) /\ \A p \in {80, 443} : Defaults(b, p) # {} => Defaults(c[i], p) # {}
  PROVE  Good([c EXCEPT ![i] = b]) /\ DOMAIN [c EXCEPT ![i] = b] = DOMAIN c
<1> DEFINE d == [c EXCEPT ![i] = b]
           S == Elements(c) \cup {b}
<1>1. c \in Seq(Elements(c))
  BY DEF Good, IsSeq
<1>2. c \in Seq(S) /\ b \in S
  BY <1>1
<1> HIDE DEF S
<1>3. d \in Seq(S)
  <2>1. c \in [1..Len(c) -> S] /\ Len(c) \in Nat
    BY <1>2
  <2>2. d \in [1..Len(c) -> S]
    BY <1>2, <2>1
  <2>3. QED
    BY <2>1, <2>2
<1>4. DOMAIN d = DOMAIN c /\ \A j \in DOMAIN c : d[j] = IF j = i THEN b ELSE c[j]
  OBVIOUS
<1>5. IsSeq(d)
  BY <1>3, SeqOf
<1> HIDE DEF d
<1>6. \A j \in DOMAIN d : /\ Tame(d[j])
                          /\ \A p \in {80, 443} : Defaults(d[j], p) # {} => Defaults(c[j], p) # {}
  BY <1>4 DEF Good
<1>7. Good(d)
  BY <1>4, <1>5, <1>6 DEF Good
<1>8. QED
  BY <1>4, <1>7 DEF d

LEMMA AddedLast ==
  ASSUME NEW c, Good(c), NEW b, Quiet(b)
  PROVE  /\ Good(Append(c, b)) /\ Len(c) \in Nat /\ DOMAIN c = 1..Len(c)
         /\ DOMAIN Append(c, b) = 1..(Len(c) + 1)
<1> DEFINE d == Append(c, b)
           S == Elements(c) \cup {b}
<1>1. c \in Seq(Elements(c))
  BY DEF Good, IsSeq
<1>2. c \in Seq(S) /\ b \in S
  BY <1>1
<1> HIDE DEF S
<1>3. /\ d \in Seq(S) /\ Len(c) \in Nat /\ DOMAIN c = 1..Len(c) /\ DOMAIN d = 1..(Len(c) + 1)
      /\ \A j \in DOMAIN d : d[j] = IF j = Len(c) + 1 THEN b ELSE c[j]
  BY <1>2
<1>4. IsSeq(d)
  BY <1>3, SeqOf
<1> HIDE DEF d
<1>5. Tame(b) /\ \A p \in {80, 443} : Defaults(b, p) = {}
  BY QuietIsTame DEF Quiet
<1>6. ASSUME NEW j \in DOMAIN d
      PROVE  /\ Tame(d[j])
             /\ \A p \in {80, 443} :
                  Defaults(d[j], p) # {} => j \in DOMAIN c /\ Defaults(c[j], p) # {}
  <2>1. CASE j = Len(c) + 1
    BY <1>3, <1>5, <2>1
  <2>2. CASE j # Len(c) + 1
    <3>1. j \in DOMAIN c /\ d[j] = c[j]
      BY <1>3, <2>2
    <3>2. QED
      BY <3>1 DEF Good
  <2>3. QED
    BY <2>1, <2>2
<1>7. Good(d)
  BY <1>4, <1>6 DEF Good
<1>8. QED
  BY <1>3, <1>7 DEF d

LEMMA PutFirst ==
  ASSUME NEW c, Good(c), NEW n, IsSeq(n), \A i \in DOMAIN n : Quiet(n[i])
  PROVE  Good(n \o c)
<1> DEFINE d == n \o c
           S == Elements(c) \cup Elements(n)
<1>1. c \in Seq(Elements(c)) /\ n \in Seq(Elements(n))
  BY DEF Good, IsSeq
<1>2. c \in Seq(S) /\ n \in Seq(S)
  BY <1>1
<1> HIDE DEF S
<1>3. /\ d \in Seq(S) /\ Len(c) \in Nat /\ Len(n) \in Nat /\ DOMAIN d = 1..(Len(n) + Len(c))
      /\ DOMAIN n = 1..Len(n) /\ DOMAIN c = 1..Len(c)
      /\ \A j \in 1..(Len(n) + Len(c)) : d[j] = IF j <= Len(n) THEN n[j] ELSE c[j - Len(n)]
  BY <1>2
<1>4. IsSeq(d)
  BY <1>3, SeqOf
<1> HIDE DEF d
<1>5. ASSUME NEW j \in DOMAIN d
      PROVE  /\ Tame(d[j])
             /\ \A p \in {80, 443} : Defaults(d[j], p) # {} =>
                  j > Len(n) /\ (j - Len(n)) \in DOMAIN c /\ Defaults(c[j - Len(n)], p) # {}
  <2>1. CASE j <= Len(n)
    BY <1>3, <2>1, QuietIsTame DEF Quiet
  <2>2. CASE ~ (j <= Len(n))
    <3>1. (j - Len(n)) \in DOMAIN c /\ d[j] = c[j - Len(n)] /\ j > Len(n)
      BY <1>3, <2>2
    <3>2. QED
      BY <3>1 DEF Good
  <2>3. QED
    BY <2>1, <2>2
<1>6. ASSUME NEW p \in {80, 443}, NEW i \in DOMAIN d, NEW j \in DOMAIN d,
             Defaults(d[i], p) # {}, Defaults(d[j], p) # {}
      PROVE  i = j
  <2>1. i - Len(n) = j - Len(n)
    BY <1>5, <1>6 DEF Good
  <2>2. QED
    BY <1>3, <2>1
<1>7. Good(d)
  BY <1>4, <1>5, <1>6 DEF Good
<1>8. QED
  BY <1>7 DEF d
-----------------------------------------------------------------------------
(* The edits of the nginx plugin keep a configuration good. *)

IsEdit(e) == e \in [cfg : {e.cfg}, nv : {e.nv}, at : {e.at}, ok : {e.ok}]
GoodEdit(e) == IsEdit(e) /\ Fine(e.cfg) /\ e.nv \in {0} \cup DOMAIN e.cfg
Aimed(e) == e.ok => e.at \in DOMAIN e.cfg

LEMMA NewEdit ==
  ASSUME NEW c, Fine(c), NEW n \in {0} \cup DOMAIN c, NEW at \in DOMAIN c
  PROVE  GoodEdit(G!Edit(c, n, at, TRUE)) /\ Aimed(G!Edit(c, n, at, TRUE))
<1> DEFINE f == G!Edit(c, n, at, TRUE)
<1>1. IsEdit(f) /\ f.cfg = c /\ f.nv = n /\ f.at = at
  BY DEF IsEdit, G!Edit
<1> HIDE DEF f
<1>2. GoodEdit(f) /\ Aimed(f)
  BY <1>1 DEF GoodEdit, Aimed
<1>3. QED
  BY <1>2 DEF f

\* An edit that failed.
LEMMA FailedEdit ==
  ASSUME NEW e, GoodEdit(e)
  PROVE  GoodEdit([e EXCEPT !.ok = FALSE]) /\ Aimed([e EXCEPT !.ok = FALSE])
<1> DEFINE f == [e EXCEPT !.ok = FALSE]
<1>1. IsEdit(f) /\ f.cfg = e.cfg /\ f.nv = e.nv /\ f.ok = FALSE
  BY DEF GoodEdit, IsEdit
<1> HIDE DEF f
<1>2. GoodEdit(f) /\ Aimed(f)
  BY <1>1 DEF GoodEdit, Aimed
<1>3. QED
  BY <1>2 DEF f

LEMMA FineReplaced ==
  ASSUME NEW c, Fine(c), NEW i, NEW b, SaidSsl(b),
         i \in DOMAIN c => Tame(b) /\ \A p \in {80, 443} : Defaults(b, p) # {} => Defaults(c[i], p) # {}
  PROVE  Fine([c EXCEPT ![i] = b]) /\ DOMAIN [c EXCEPT ![i] = b] = DOMAIN c
<1> DEFINE d == [c EXCEPT ![i] = b]
<1>1. Good(d) /\ DOMAIN d = DOMAIN c
  BY Replaced DEF Fine
<1>2. SaysSsl(d)
  BY SaysMore, SMTT(30) DEF Fine, Good
<1> HIDE DEF d
<1>3. Fine(d) /\ DOMAIN d = DOMAIN c
  BY <1>1, <1>2 DEF Fine
<1>4. QED
  BY <1>3 DEF d

LEMMA FineAdded ==
  ASSUME NEW c, Fine(c), NEW b, Quiet(b), SaidSsl(b)
  PROVE  Fine(Append(c, b)) /\ DOMAIN Append(c, b) = 1..(Len(c) + 1)
<1> DEFINE d == Append(c, b)
<1>1. Good(d) /\ DOMAIN d = 1..(Len(c) + 1)
  BY AddedLast DEF Fine
<1>2. SaysSsl(d)
  BY SaysMore DEF Fine, Good
<1> HIDE DEF d
<1>3. Fine(d) /\ DOMAIN d = 1..(Len(c) + 1)
  BY <1>1, <1>2 DEF Fine
<1>4. QED
  BY <1>3 DEF d

LEMMA Undefaulted ==
  ASSUME NEW S \in SUBSET G!Addr
  PROVE  /\ G!Undefault(S) \subseteq G!Addr /\ \A a \in G!Undefault(S) : ~ a.def
         /\ Once(S) => Once(G!Undefault(S))
         /\ \A b : SaidSsl(b) /\ b.addrs = S =>
              \A a \in G!Undefault(S) : a.port = 443 /\ ~ b.sslOn => a.ssl
<1>1. ASSUME NEW a \in S
      PROVE  /\ [a EXCEPT !.def = FALSE] \in G!Addr /\ ~ [a EXCEPT !.def = FALSE].def
             /\ [a EXCEPT !.def = FALSE].port = a.port /\ [a EXCEPT !.def = FALSE].ssl = a.ssl
  <2>1. a \in [port : {80, 443}, ssl : BOOLEAN, def : BOOLEAN]
    BY DEF G!Addr
  <2>2. [a EXCEPT !.def = FALSE] \in [port : {80, 443}, ssl : BOOLEAN, def : BOOLEAN]
    BY <2>1, ZenonT(30)
  <2>3. [a EXCEPT !.def = FALSE].port = a.port /\ [a EXCEPT !.def = FALSE].ssl = a.ssl
    BY <2>1
  <2>4. QED
    BY <2>1, <2>2, <2>3 DEF G!Addr
<1>2. ASSUME NEW a \in G!Undefault(S)
      PROVE  \E o \in S : a = [o EXCEPT !.def = FALSE] /\ a.port = o.port /\ a.ssl = o.ssl
  <2>1. PICK o \in S : a = [o EXCEPT !.def = FALSE]
    BY DEF G!Undefault
  <2>2. QED
    BY <1>1, <2>1
<1>3. ASSUME Once(S), NEW x \in G!Undefault(S), NEW y \in G!Undefault(S), x.port = y.port
      PROVE  x = y
  <2>1. PICK o \in S : x = [o EXCEPT !.def = FALSE] /\ x.port = o.port
    BY <1>2
  <2>2. PICK q \in S : y = [q EXCEPT !.def = FALSE] /\ y.port = q.port
    BY <1>2
  <2>3. o = q
    BY <1>3, <2>1, <2>2 DEF Once
  <2>4. QED
    BY <2>1, <2>2, <2>3
<1>4. ASSUME NEW b, SaidSsl(b), b.addrs = S, NEW a \in G!Undefault(S), a.port = 443, ~ b.sslOn
      PROVE  a.ssl
  BY <1>2, <1>4 DEF SaidSsl
<1>5. G!Undefault(S) \subseteq G!Addr /\ \A a \in G!Undefault(S) : ~ a.def
  BY <1>1 DEF G!Undefault
<1>6. QED
  BY <1>3, <1>4, <1>5 DEF Once

LEMMA LeastIn ==
  ASSUME NEW S \in SUBSET Nat, S # {}
  PROVE  G!Min(S) \in S
<1>1. \E x \in S : \A y \in S : ~ (<<y, x>> \in OpToRel(<, Nat))
  BY NatLessThanWellFounded, WFMin
<1>2. PICK x \in S : \A y \in S : ~ (y < x)
  BY <1>1 DEF OpToRel
<1>3. \A y \in S : x <= y
  BY <1>2
<1>4. QED
  BY <1>2, <1>3 DEF G!Min

LEMMA FromDefaultGood ==
  ASSUME NEW e, GoodEdit(e), NEW d, NEW port
  PROVE  GoodEdit(G!FromDefault(e, d, port)) /\ Aimed(G!FromDefault(e, d, port))
<1> DEFINE defaults == {i \in DOMAIN e.cfg : \E a \in e.cfg[i].addrs : a.def /\ port \in {0, a.port}}
           copy == [e.cfg[G!Min(defaults)] EXCEPT !.names = {d}, !.addrs = G!Undefault(@)]
           f == G!FromDefault(e, d, port)
<1>0. f = IF e.nv # 0 THEN G!Edit([e.cfg EXCEPT ![e.nv].names = @ \cup {d}], e.nv, e.nv, TRUE)
          ELSE IF G!Cardinality(defaults) # 1 THEN [e EXCEPT !.ok = FALSE]
          ELSE G!Edit(Append(e.cfg, copy), Len(e.cfg) + 1, Len(e.cfg) + 1, TRUE)
  BY DEF G!FromDefault
<1> HIDE DEF f
<1>1. CASE e.nv # 0
  <2> DEFINE b == [e.cfg[e.nv] EXCEPT !.names = @ \cup {d}]
             c == [e.cfg EXCEPT ![e.nv] = b]
  <2>1. f = G!Edit(c, e.nv, e.nv, TRUE)
    BY <1>0, <1>1
  <2>2. e.nv \in DOMAIN e.cfg
    BY <1>1 DEF GoodEdit
  <2>3. /\ Tame(b) /\ \A p \in {80, 443} : Defaults(b, p) = Defaults(e.cfg[e.nv], p)
        /\ SaidSsl(b)
    BY <2>2 DEF GoodEdit, Fine, Good, Tame, IsBlock, Defaults, SaysSsl, SaidSsl
  <2> HIDE DEF b
  <2>4. Fine(c) /\ DOMAIN c = DOMAIN e.cfg
    BY <2>2, <2>3, FineReplaced DEF GoodEdit
  <2> HIDE DEF c
  <2>5. QED
    <3>1. GoodEdit(f) /\ Aimed(f)
      BY <2>1, <2>2, <2>4, NewEdit
    <3>2. QED
      BY <3>1 DEF f
<1>2. CASE e.nv = 0 /\ G!Cardinality(defaults) # 1
  <2>1. f = [e EXCEPT !.ok = FALSE]
    BY <1>0, <1>2
  <2>2. QED
    <3>1. GoodEdit(f) /\ Aimed(f)
      BY <2>1, FailedEdit
    <3>2. QED
      BY <3>1 DEF f
<1>3. CASE e.nv = 0 /\ G!Cardinality(defaults) = 1
  <2>1. f = G!Edit(Append(e.cfg, copy), Len(e.cfg) + 1, Len(e.cfg) + 1, TRUE)
    BY <1>0, <1>3
  <2>2. DOMAIN e.cfg = 1..Len(e.cfg) /\ Len(e.cfg) \in Nat
    BY DEF GoodEdit, Fine, Good, IsSeq
  <2>3. defaults \in SUBSET Nat
    BY <2>2
  <2>4. defaults # {}
    BY <1>3, FS_EmptySet, NginxCardinality
  <2>5. G!Min(defaults) \in DOMAIN e.cfg
    BY <2>3, <2>4, LeastIn
  <2>6. Tame(e.cfg[G!Min(defaults)]) /\ SaidSsl(e.cfg[G!Min(defaults)])
    BY <2>5 DEF GoodEdit, Fine, Good, SaysSsl, SaidSsl
  <2> DEFINE old == e.cfg[G!Min(defaults)]
  <2>7. /\ G!Undefault(old.addrs) \subseteq G!Addr /\ \A a \in G!Undefault(old.addrs) : ~ a.def
        /\ Once(G!Undefault(old.addrs))
        /\ \A a \in G!Undefault(old.addrs) : a.port = 443 /\ ~ old.sslOn => a.ssl
    <3>1. old.addrs \in SUBSET G!Addr /\ Once(old.addrs) /\ SaidSsl(old)
      BY <2>6 DEF Tame, IsBlock
    <3> HIDE DEF old
    <3>2. QED
      BY <3>1, Undefaulted
  <2>8. copy = [old EXCEPT !.names = {d}, !.addrs = G!Undefault(old.addrs)]
    OBVIOUS
  <2> HIDE DEF old, copy
  <2>9. Quiet(copy) /\ SaidSsl(copy)
    <3>1. Tame(old)
      BY <2>6 DEF old
    <3>2. /\ IsBlock(copy) /\ copy.addrs = G!Undefault(old.addrs) /\ copy.sslOn = old.sslOn
      BY <2>7, <2>8, <3>1 DEF Tame, IsBlock
    <3>3. QED
      BY <2>7, <3>2 DEF Quiet, Tame, Defaults, SaidSsl
  <2>10. Fine(Append(e.cfg, copy)) /\ DOMAIN Append(e.cfg, copy) = 1..(Len(e.cfg) + 1)
    BY <2>9, FineAdded DEF GoodEdit
  <2>11. Len(e.cfg) + 1 \in 1..(Len(e.cfg) + 1)
    BY <2>2
  <2> DEFINE c == Append(e.cfg, copy)
             n == Len(e.cfg) + 1
  <2>13. f = G!Edit(c, n, n, TRUE)
    BY <2>1
  <2>14. Fine(c) /\ n \in DOMAIN c
    BY <2>10, <2>11
  <2> HIDE DEF c, n
  <2>15. QED
    <3>1. GoodEdit(f) /\ Aimed(f)
      BY <2>13, <2>14, NewEdit
    <3>2. QED
      BY <3>1 DEF f
<1>4. QED
  BY <1>1, <1>2, <1>3 DEF f

\* The block chosen is changed, and keeps its addresses but for some that are no defaults.
LEMMA ChangedBlock ==
  ASSUME NEW e, GoodEdit(e), NEW b, NEW k, e.at \in DOMAIN e.cfg => Tame(b), SaidSsl(b),
         e.at \in DOMAIN e.cfg => \A p \in {80, 443} : Defaults(b, p) # {} => Defaults(e.cfg[e.at], p) # {},
         NEW f, IsEdit(f), f.cfg = [e.cfg EXCEPT ![e.at] = b], f.nv = e.nv, f.at = e.at
  PROVE  GoodEdit(f) /\ (e.at \in DOMAIN e.cfg => f.at \in DOMAIN f.cfg)
<1>1. Fine(f.cfg) /\ DOMAIN f.cfg = DOMAIN e.cfg
  BY FineReplaced DEF GoodEdit
<1>2. QED
  BY <1>1 DEF GoodEdit

\* Where no block speaks plain text at port 443, one that is no ssl block has no
\* address there.
LEMMA NoneAt443 ==
  ASSUME NEW c, SaysSsl(c), NEW i \in DOMAIN c, ~ G!IsSsl(c, i)
  PROVE  \A a \in c[i].addrs : a.port # 443
<1> SUFFICES ASSUME NEW a \in c[i].addrs, a.port = 443
             PROVE  FALSE
  OBVIOUS
<1>1. ~ c[i].sslOn /\ a.port \notin G!SslPorts(c)
  BY DEF G!IsSsl
<1>2. a.ssl
  BY <1>1 DEF SaysSsl
<1>3. QED
  BY <1>1, <1>2 DEF G!SslPorts

LEMMA MadeSsl ==
  ASSUME NEW e, GoodEdit(e), Aimed(e)
  PROVE  GoodEdit(G!Secured(e)) /\ Aimed(G!Secured(e))
<1> DEFINE old == e.cfg[e.at]
           kept == IF old.addrs = {} THEN {G!At(80)} ELSE old.addrs
           new == kept \cup {[G!At(443) EXCEPT !.ssl = TRUE]}
           b == [old EXCEPT !.addrs = new, !.cert = "snakeoil"]
           f == G!MakeServerSsl(e)
<1>1. CASE e.at \in DOMAIN e.cfg /\ ~ G!IsSsl(e.cfg, e.at)
  <2>1. /\ IsEdit(f) /\ f.nv = e.nv /\ f.at = e.at
        /\ f.cfg = [e.cfg EXCEPT ![e.at] = b]
    <3>1. e \in [cfg : {e.cfg}, nv : {e.nv}, at : {e.at}, ok : {e.ok}]
      BY DEF GoodEdit, IsEdit
    <3>2. f = [e EXCEPT !.ok = ~ G!Conflict(old), !.cfg[e.at].addrs = new, !.cfg[e.at].cert = "snakeoil"]
      BY DEF G!MakeServerSsl
    <3> HIDE DEF f, new
    <3>3. f.nv = e.nv /\ f.at = e.at /\ f \in [cfg : {f.cfg}, nv : {e.nv}, at : {e.at}, ok : {f.ok}]
      BY <3>1, <3>2
    <3>4. f.cfg = [e.cfg EXCEPT ![e.at].addrs = new, ![e.at].cert = "snakeoil"]
      BY <3>1, <3>2
    <3>5. f.cfg = [e.cfg EXCEPT ![e.at] = b]
      BY <3>4
    <3>6. QED
      BY <3>3, <3>5 DEF IsEdit
  <2>2. Tame(old) /\ SaidSsl(old) /\ \A a \in old.addrs : a.port # 443
    BY <1>1, NoneAt443 DEF GoodEdit, Fine, Good, SaysSsl, SaidSsl
  <2>3. /\ new \subseteq G!Addr /\ \A a \in new : a.def => a \in old.addrs
        /\ Once(new) /\ \A a \in new : a.port = 443 => a.ssl
    <3> DEFINE a443 == [G!At(443) EXCEPT !.ssl = TRUE]
    <3>1. G!At(80) \in G!Addr /\ ~ G!At(80).def /\ G!At(80).port = 80
      BY DEF G!At, G!Addr
    <3>2. a443 \in G!Addr /\ ~ a443.def /\ a443.ssl /\ a443.port = 443
      <4>1. G!At(443) \in [port : {80, 443}, ssl : BOOLEAN, def : BOOLEAN] /\ ~ G!At(443).def
            /\ G!At(443).port = 443
        BY DEF G!At
      <4>2. ASSUME NEW r \in [port : {80, 443}, ssl : BOOLEAN, def : BOOLEAN]
            PROVE  /\ [r EXCEPT !.ssl = TRUE] \in [port : {80, 443}, ssl : BOOLEAN, def : BOOLEAN]
                   /\ [r EXCEPT !.ssl = TRUE].def = r.def /\ [r EXCEPT !.ssl = TRUE].port = r.port
                   /\ [r EXCEPT !.ssl = TRUE].ssl
        OBVIOUS
      <4>3. QED
        BY <4>1, <4>2 DEF G!Addr
    <3>3. old.addrs \subseteq G!Addr /\ Once(old.addrs)
      BY <2>2 DEF Tame, IsBlock
    <3>4. /\ kept \subseteq G!Addr /\ \A a \in kept : a.def => a \in old.addrs
          /\ Once(kept) /\ \A a \in kept : a.port # 443
      <4>1. Once({G!At(80)})
        BY DEF Once
      <4> HIDE DEF old
      <4>2. QED
        BY <2>2, <3>1, <3>3, <4>1
    <3>5. new = kept \cup {a443}
      OBVIOUS
    <3> HIDE DEF new, kept, old, a443
    <3>6. QED
      BY <3>2, <3>4, <3>5 DEF Once
  <2> HIDE DEF new, old
  <2>4. IsBlock(b) /\ b.addrs = new /\ SaidSsl(b)
    <3>1. IsBlock(b) /\ b.addrs = new
      BY <2>2, <2>3 DEF Tame, IsBlock
    <3> HIDE DEF b
    <3>2. QED
      BY <2>3, <3>1 DEF SaidSsl
  <2> HIDE DEF b
  <2>5. \A p \in {80, 443} : Defaults(b, p) \subseteq Defaults(old, p)
    BY <2>3, <2>4 DEF Defaults
  <2>6. Tame(b)
    BY <2>3, <2>4 DEF Tame
  <2> HIDE DEF f
  <2>7. GoodEdit(f) /\ f.at \in DOMAIN f.cfg
    BY <1>1, <2>1, <2>4, <2>5, <2>6, ChangedBlock DEF old
  <2>8. QED
    BY <1>1, <2>7 DEF G!Secured, Aimed, f
<1>2. CASE e.at \notin DOMAIN e.cfg
  <2>1. ~ e.ok
    BY <1>2 DEF Aimed
  <2>2. QED
    BY <2>1 DEF G!Secured
<1>3. CASE G!IsSsl(e.cfg, e.at)
  BY <1>3 DEF G!Secured
<1>4. QED
  BY <1>1, <1>2, <1>3

\* The search finds a block among the candidates, or none.
LEMMA SelectIn ==
  ASSUME NEW c, NEW cand \in SUBSET Nat, NEW h
  PROVE  G!SelectBest(c, cand, h) \in {0} \cup cand
<1> DEFINE rank == [i \in cand |-> G!Ranked(G!BestMatch(h, c[i].names), G!IsSsl(c, i))]
           found == G!Longest(G!Foremost(rank), rank)
<1>1. DOMAIN rank = cand
  OBVIOUS
<1>2. G!SelectBest(c, cand, h) = G!FirstOf(found)
  BY DEF G!SelectBest, G!SelectByRank
<1> HIDE DEF rank
<1>3. found \in SUBSET cand
  BY <1>1 DEF G!Longest, G!Foremost
<1> HIDE DEF found
<1>4. found # {} => G!Min(found) \in found
  BY <1>3, LeastIn
<1>5. QED
  BY <1>2, <1>3, <1>4 DEF G!FirstOf

LEMMA FoundGood ==
  ASSUME NEW e, GoodEdit(e), NEW d, NEW at \in {0} \cup DOMAIN e.cfg, NEW create
  PROVE  GoodEdit(G!Found(e, d, at, create)) /\ Aimed(G!Found(e, d, at, create))
<1>1. ASSUME at # 0
      PROVE  GoodEdit([e EXCEPT !.at = at]) /\ Aimed([e EXCEPT !.at = at])
  <2> DEFINE f == [e EXCEPT !.at = at]
  <2>1. IsEdit(f) /\ f.cfg = e.cfg /\ f.nv = e.nv /\ f.at = at
    BY DEF GoodEdit, IsEdit
  <2> HIDE DEF f
  <2>2. GoodEdit(f) /\ Aimed(f)
    BY <1>1, <2>1 DEF GoodEdit, Aimed
  <2>3. QED
    BY <2>2 DEF f
<1>2. GoodEdit(G!FromDefault(e, d, 0)) /\ Aimed(G!FromDefault(e, d, 0))
  BY FromDefaultGood
<1>3. GoodEdit([e EXCEPT !.ok = FALSE]) /\ Aimed([e EXCEPT !.ok = FALSE])
  BY FailedEdit
<1>4. QED
  BY <1>1, <1>2, <1>3 DEF G!Found

LEMMA ChosenGood ==
  ASSUME NEW e, GoodEdit(e), NEW d, NEW create
  PROVE  GoodEdit(G!ChooseVhost(e, d, create)) /\ Aimed(G!ChooseVhost(e, d, create))
<1> DEFINE at == G!SelectBest(e.cfg, DOMAIN e.cfg, d)
<1>1. DOMAIN e.cfg \in SUBSET Nat
  BY DEF GoodEdit, Fine, Good, IsSeq
<1>2. at \in {0} \cup DOMAIN e.cfg
  BY <1>1, SelectIn
<1> HIDE DEF at
<1>3. GoodEdit(G!Found(e, d, at, create)) /\ Aimed(G!Found(e, d, at, create))
  BY <1>2, FoundGood
<1>4. G!ChooseVhost(e, d, create) = G!Secured(G!Found(e, d, at, create))
  BY DEF G!ChooseVhost, at
<1>5. QED
  BY <1>3, <1>4, MadeSsl

\* A change of the block chosen that leaves its addresses alone.
LEMMA Touched ==
  ASSUME NEW e, GoodEdit(e), e.at \in DOMAIN e.cfg, NEW b, IsBlock(b), b.addrs = e.cfg[e.at].addrs,
         b.sslOn = e.cfg[e.at].sslOn
  PROVE  LET f == [e EXCEPT !.cfg[e.at] = b]
         IN GoodEdit(f) /\ f.at = e.at /\ e.at \in DOMAIN f.cfg
<1> DEFINE f == [e EXCEPT !.cfg[e.at] = b]
<1>1. IsEdit(f) /\ f.cfg = [e.cfg EXCEPT ![e.at] = b] /\ f.nv = e.nv /\ f.at = e.at
  BY DEF GoodEdit, IsEdit
<1>2. Tame(e.cfg[e.at]) /\ SaidSsl(e.cfg[e.at])
  BY DEF GoodEdit, Fine, Good, SaysSsl, SaidSsl
<1>3. Tame(b) /\ SaidSsl(b) /\ \A p \in {80, 443} : Defaults(b, p) = Defaults(e.cfg[e.at], p)
  BY <1>2 DEF Tame, Defaults, SaidSsl
<1> HIDE DEF f
<1>4. GoodEdit(f) /\ f.at \in DOMAIN f.cfg
  BY <1>1, <1>3, ChangedBlock
<1>5. QED
  BY <1>1, <1>4 DEF f

LEMMA BlockOf ==
  ASSUME NEW e, GoodEdit(e), NEW i \in DOMAIN e.cfg
  PROVE  IsBlock(e.cfg[i])
BY DEF GoodEdit, Fine, Good, Tame

LEMMA CertGiven ==
  ASSUME NEW e, GoodEdit(e), Aimed(e)
  PROVE  GoodEdit(G!GiveCert(e))
<1>1. CASE e.ok
  <2> DEFINE b == [e.cfg[e.at] EXCEPT !.cert = "le"]
  <2>1. e.at \in DOMAIN e.cfg
    BY <1>1 DEF Aimed
  <2>2. IsBlock(b) /\ b.addrs = e.cfg[e.at].addrs /\ b.sslOn = e.cfg[e.at].sslOn
    BY <2>1, BlockOf DEF IsBlock
  <2>3. G!GiveCert(e) = [e EXCEPT !.cfg[e.at] = b]
    BY <1>1 DEF G!GiveCert
  <2> HIDE DEF b
  <2>4. QED
    BY <2>1, <2>2, <2>3, Touched
<1>2. CASE ~ e.ok
  BY <1>2 DEF G!GiveCert
<1>3. QED
  BY <1>1, <1>2

LEMMA StapledGood ==
  ASSUME NEW e, GoodEdit(e), Aimed(e), NEW version
  PROVE  GoodEdit(G!Staple(e, version))
<1> DEFINE b == [e.cfg[e.at] EXCEPT !.stapled = "ours"]
<1>1. ASSUME e.ok
      PROVE  GoodEdit([e EXCEPT !.cfg[e.at] = b])
  <2>1. e.at \in DOMAIN e.cfg
    BY <1>1 DEF Aimed
  <2>2. IsBlock(b) /\ b.addrs = e.cfg[e.at].addrs /\ b.sslOn = e.cfg[e.at].sslOn
    BY <2>1, BlockOf DEF IsBlock
  <2> HIDE DEF b
  <2>3. QED
    BY <2>1, <2>2, Touched
<1>2. GoodEdit([e EXCEPT !.ok = FALSE])
  BY FailedEdit
<1>3. QED
  BY <1>1, <1>2 DEF G!Staple

\* The plain addresses of a block move to a new one: of its default addresses
\* at a port, which are all ssl or all plain, they take all or none.
LEMMA SplitGood ==
  ASSUME NEW c, Good(c), NEW i \in DOMAIN c, NEW b, NEW q, IsBlock(b), IsBlock(q),
         b.addrs = {a \in c[i].addrs : a.ssl}, q.addrs = {a \in c[i].addrs : ~ a.ssl},
         ~ c[i].sslOn, SaysSsl(c)
  PROVE  /\ Fine(Append([c EXCEPT ![i] = b], q))
         /\ DOMAIN c \cup {Len(c) + 1} \subseteq DOMAIN Append([c EXCEPT ![i] = b], q)
<1> DEFINE S == Elements(c) \cup {b, q}
           m == [c EXCEPT ![i] = b]
           d == Append(m, q)
<1>1. c \in Seq(S) /\ b \in S /\ q \in S
  BY DEF Good, IsSeq
<1> HIDE DEF S
<1>2. m \in Seq(S) /\ Len(m) = Len(c) /\ \A j \in DOMAIN c : m[j] = IF j = i THEN b ELSE c[j]
  <2>1. c \in [1..Len(c) -> S] /\ Len(c) \in Nat
    BY <1>1
  <2>2. m \in [1..Len(c) -> S]
    BY <1>1, <2>1
  <2>3. QED
    BY <2>1, <2>2
<1>3. DOMAIN c = 1..Len(c) /\ Len(c) \in Nat
  BY <1>1
<1> HIDE DEF m
<1>4. /\ d \in Seq(S) /\ DOMAIN d = 1..(Len(c) + 1)
      /\ \A j \in 1..(Len(c) + 1) : d[j] = IF j = Len(c) + 1 THEN q ELSE m[j]
  BY <1>1, <1>2, <1>3, SMTT(30)
<1>5. IsSeq(d)
  BY <1>4, SeqOf
<1> HIDE DEF d
<1>6. Tame(c[i])
  BY DEF Good
<1>7. Tame(b) /\ Tame(q) /\ SaidSsl(b) /\ SaidSsl(q)
  BY <1>6 DEF Tame, Once, SaidSsl, SaysSsl
<1>8. \A p \in {80, 443} :
        /\ Defaults(b, p) \subseteq Defaults(c[i], p)
        /\ Defaults(q, p) \subseteq Defaults(c[i], p)
        /\ Defaults(b, p) = {} \/ Defaults(q, p) = {}
  BY <1>6 DEF Tame, Once, Defaults
<1> DEFINE From(j) == IF j = Len(c) + 1 THEN i ELSE j
<1>9. ASSUME NEW j \in DOMAIN d
      PROVE  /\ Tame(d[j]) /\ From(j) \in DOMAIN c
             /\ \A p \in {80, 443} : Defaults(d[j], p) \subseteq Defaults(c[From(j)], p)
  <2>1. CASE j = Len(c) + 1
    BY <1>3, <1>4, <1>7, <1>8, <2>1
  <2>2. CASE j # Len(c) + 1
    <3>1. j \in DOMAIN c /\ d[j] = IF j = i THEN b ELSE c[j]
      BY <1>2, <1>3, <1>4, <2>2
    <3>2. From(j) = j /\ Tame(c[j])
      BY <2>2, <3>1 DEF Good
    <3>3. CASE j = i
      <4>1. d[j] = b
        BY <3>1, <3>3
      <4>2. Tame(d[j])
        BY <1>7, <4>1
      <4>3. \A p \in {80, 443} : Defaults(d[j], p) \subseteq Defaults(c[j], p)
        BY <1>8, <3>3, <4>1
      <4>4. QED
        BY <3>1, <3>2, <4>2, <4>3
    <3>4. CASE j # i
      BY <3>1, <3>2, <3>4
    <3>5. QED
      BY <3>3, <3>4
  <2>3. QED
    BY <2>1, <2>2
<1>10. ASSUME NEW p \in {80, 443}, NEW j \in DOMAIN d, NEW k \in DOMAIN d,
              Defaults(d[j], p) # {}, Defaults(d[k], p) # {}
       PROVE  j = k
  <2>1. Defaults(c[From(j)], p) # {} /\ Defaults(c[From(k)], p) # {}
    BY <1>9, <1>10
  <2>2. From(j) \in DOMAIN c /\ From(k) \in DOMAIN c
    BY <1>9
  <2>3. From(j) = From(k)
    BY <2>1, <2>2 DEF Good
  <2>4. CASE j = Len(c) + 1 /\ k # Len(c) + 1
    <3>1. k = i /\ d[k] = b /\ d[j] = q
      BY <1>2, <1>4, <2>3, <2>4
    <3>2. QED
      BY <1>8, <1>10, <3>1
  <2>5. CASE k = Len(c) + 1 /\ j # Len(c) + 1
    <3>1. j = i /\ d[j] = b /\ d[k] = q
      BY <1>2, <1>4, <2>3, <2>5
    <3>2. QED
      BY <1>8, <1>10, <3>1
  <2>6. QED
    BY <2>3, <2>4, <2>5
<1>11. Good(d)
  BY <1>5, <1>9, <1>10 DEF Good
<1>12. IsSeq(m) /\ SaysSsl(m)
  BY <1>2, <1>7, SeqOf, SaysMore DEF Good, m
<1>13. SaysSsl(d)
  BY <1>7, <1>12, SaysMore DEF d
<1>14. QED
  BY <1>3, <1>4, <1>11, <1>13 DEF Fine, d, m

LEMMA PlainBlock ==
  ASSUME NEW names, NEW addrs \in SUBSET G!Addr
  PROVE  IsBlock(G!Plain(names, addrs)) /\ G!Plain(names, addrs).addrs = addrs
BY DEF G!Plain, IsBlock

LEMMA SplitEdit ==
  ASSUME NEW e, GoodEdit(e), e.at \in DOMAIN e.cfg, ~ e.cfg[e.at].sslOn
  PROVE  GoodEdit(G!Split(e)) /\ G!Split(e).at \in DOMAIN G!Split(e).cfg
<1> DEFINE old == e.cfg[e.at]
           b == [old EXCEPT !.addrs = {a \in old.addrs : a.ssl}]
           p == G!Plain(old.names, {a \in old.addrs : ~ a.ssl})
           q == [p EXCEPT !.gone = TRUE]
           c == Append([e.cfg EXCEPT ![e.at] = b], q)
           n == Len(e.cfg) + 1
<1>1. IsBlock(old)
  BY BlockOf
<1>2. IsBlock(b) /\ b.addrs = {a \in old.addrs : a.ssl}
  BY <1>1 DEF IsBlock
<1>3. IsBlock(p) /\ p.addrs = {a \in old.addrs : ~ a.ssl}
  BY <1>1, PlainBlock DEF IsBlock
<1>4. IsBlock(q) /\ q.addrs = p.addrs
  <2> HIDE DEF p
  <2>1. QED
    BY <1>3 DEF IsBlock
<1>5. G!Split(e) = G!Edit(c, e.nv, n, TRUE)
  BY DEF G!Split, G!SplitVhost
<1> HIDE DEF b, q
<1>6. Fine(c) /\ DOMAIN e.cfg \cup {n} \subseteq DOMAIN c
  BY <1>2, <1>3, <1>4, SplitGood DEF GoodEdit, Fine
<1> HIDE DEF c, n
<1>7. e.nv \in {0} \cup DOMAIN c /\ n \in DOMAIN c
  BY <1>6 DEF GoodEdit
<1> DEFINE f == G!Edit(c, e.nv, n, TRUE)
<1>8. GoodEdit(f)
  BY <1>6, <1>7, NewEdit
<1>9. f.at = n /\ f.cfg = c
  BY DEF G!Edit
<1> HIDE DEF f
<1>10. G!Split(e) = f
  BY <1>5 DEF f
<1>11. QED
  BY <1>7, <1>8, <1>9, <1>10

LEMMA Redirected ==
  ASSUME NEW e, GoodEdit(e), e.at \in {0} \cup DOMAIN e.cfg, e.at # 0 => ~ e.cfg[e.at].sslOn, NEW d
  PROVE  GoodEdit(G!Redirect(e, d))
<1>1. ASSUME NEW f, GoodEdit(f), f.at \in DOMAIN f.cfg
      PROVE  GoodEdit(G!RedirectIn(f, d))
  <2> DEFINE b == [f.cfg[f.at] EXCEPT !.redirects = @ \cup {d}]
  <2>1. IsBlock(b) /\ b.addrs = f.cfg[f.at].addrs /\ b.sslOn = f.cfg[f.at].sslOn
    BY <1>1, BlockOf DEF IsBlock
  <2>2. G!RedirectIn(f, d) = [f EXCEPT !.cfg[f.at] = b]
    BY DEF G!RedirectIn
  <2> HIDE DEF b
  <2>3. QED
    BY <1>1, <2>1, <2>2, Touched
<1>2. CASE e.at = 0
  BY <1>2 DEF G!Redirect
<1>3. CASE e.at # 0
  <2>1. GoodEdit(G!Split(e)) /\ G!Split(e).at \in DOMAIN G!Split(e).cfg
    BY <1>3, SplitEdit
  <2>2. GoodEdit(G!RedirectIn(e, d)) /\ GoodEdit(G!RedirectIn(G!Split(e), d))
    BY <1>1, <1>3, <2>1
  <2>3. QED
    BY <1>3, <2>2 DEF G!Redirect
<1>4. QED
  BY <1>2, <1>3

LEMMA PlainChosen ==
  ASSUME NEW e, GoodEdit(e), NEW d, NEW create
  PROVE  LET f == G!ChooseRedirectVhost(e, d, create)
         IN /\ GoodEdit(f) /\ (create => Aimed(f))
            /\ ~ create => f.at \in {0} \cup DOMAIN f.cfg /\ (f.at # 0 => ~ f.cfg[f.at].sslOn)
<1> DEFINE cand == {i \in DOMAIN e.cfg : G!PlainPort80(e.cfg, i)}
           at == G!SelectBest(e.cfg, cand, d)
<1>1. cand \in SUBSET Nat
  BY DEF GoodEdit, Fine, Good, IsSeq
<1>2. at \in {0} \cup cand
  BY <1>1, SelectIn, SMTT(30)
<1>3. at \in {0} \cup DOMAIN e.cfg /\ (at # 0 => ~ e.cfg[at].sslOn)
  BY <1>2, Zenon DEF G!PlainPort80
<1>4. G!ChooseRedirectVhost(e, d, create) = G!FoundPlain(e, d, at, create)
  BY DEF G!ChooseRedirectVhost
<1> HIDE DEF at
<1> DEFINE f == [e EXCEPT !.at = at]
<1>5. IsEdit(f) /\ f.cfg = e.cfg /\ f.nv = e.nv /\ f.at = at
  BY DEF GoodEdit, IsEdit
<1> HIDE DEF f
<1>6. /\ GoodEdit(f) /\ f.at \in {0} \cup DOMAIN f.cfg /\ (at # 0 => Aimed(f))
      /\ f.at # 0 => ~ f.cfg[f.at].sslOn
  BY <1>3, <1>5 DEF GoodEdit, Aimed
<1>7. GoodEdit(G!FromDefault(e, d, 80)) /\ Aimed(G!FromDefault(e, d, 80))
  BY FromDefaultGood
<1>8. G!FoundPlain(e, d, at, create) = IF at # 0 \/ ~ create THEN f ELSE G!FromDefault(e, d, 80)
  BY DEF G!FoundPlain, f
<1>9. QED
  BY <1>4, <1>6, <1>7, <1>8

\* What a challenge adds: to the configuration, and to the challenges' own file.
IsWork(x) == x \in [e : {x.e}, new : {x.new}]
GoodWork(x) ==
  IsWork(x) /\ GoodEdit(x.e) /\ IsSeq(x.new) /\ \A i \in DOMAIN x.new : Quiet(x.new[i])

LEMMA OneMore ==
  ASSUME NEW n, IsSeq(n), \A i \in DOMAIN n : Quiet(n[i]), NEW b, Quiet(b)
  PROVE  IsSeq(Append(n, b)) /\ \A i \in DOMAIN Append(n, b) : Quiet(Append(n, b)[i])
<1> DEFINE S == Elements(n) \cup {b}
<1>1. n \in Seq(S) /\ b \in S
  BY DEF IsSeq
<1>2. \A x \in S : Quiet(x)
  BY DEF Elements
<1> HIDE DEF S
<1>3. Append(n, b) \in Seq(S)
  BY <1>1
<1>4. IsSeq(Append(n, b))
  BY <1>3, SeqOf
<1>5. \A i \in DOMAIN Append(n, b) : Append(n, b)[i] \in S
  BY <1>3
<1>6. QED
  BY <1>2, <1>4, <1>5

LEMMA HttpBlockGood ==
  ASSUME NEW x, GoodWork(x), NEW d
  PROVE  GoodWork(G!HttpBlock(x, d))
<1> DEFINE f == G!ChooseRedirectVhost(x.e, d, TRUE)
           y == G!HttpBlock(x, d)
<1>1. GoodEdit(f) /\ Aimed(f)
  BY PlainChosen DEF GoodWork
<1>2. y = G!Answer(x, f, d)
  BY DEF G!HttpBlock
<1> HIDE DEF f, y
<1>3. CASE ~ f.ok
  <2> DEFINE b == G!ChallengeServer(d)
             p == G!Plain({d}, {G!At(80)})
  <2>1. G!At(80) \in G!Addr /\ ~ G!At(80).def
    BY DEF G!At, G!Addr
  <2>2. IsBlock(p) /\ p.addrs = {G!At(80)}
    BY <2>1, PlainBlock
  <2>3. b = [p EXCEPT !.answers = {d}, !.gone = TRUE]
    BY DEF G!ChallengeServer
  <2> HIDE DEF p, b
  <2>4. IsBlock(b) /\ b.addrs = {G!At(80)}
    BY <2>2, <2>3 DEF IsBlock
  <2>5. Quiet(b)
    BY <2>1, <2>4 DEF Quiet, Defaults, Tame, Once
  <2>6. y = [x EXCEPT !.new = Append(@, b)]
    BY <1>2, <1>3 DEF G!Answer, b
  <2>7. IsWork(y) /\ y.e = x.e /\ y.new = Append(x.new, b)
    BY <2>6 DEF GoodWork, IsWork
  <2>8. GoodWork(y)
    BY <2>5, <2>7, OneMore DEF GoodWork
  <2>9. QED
    BY <2>8 DEF y
<1>4. CASE f.ok
  <2> DEFINE b == [f.cfg[f.at] EXCEPT !.answers = @ \cup {d}]
             g == [f EXCEPT !.cfg[f.at] = b]
  <2>1. f.at \in DOMAIN f.cfg
    BY <1>1, <1>4 DEF Aimed
  <2>2. IsBlock(b) /\ b.addrs = f.cfg[f.at].addrs /\ b.sslOn = f.cfg[f.at].sslOn
    BY <1>1, <2>1, BlockOf DEF IsBlock
  <2>3. y = [x EXCEPT !.e = g]
    BY <1>2, <1>4 DEF G!Answer
  <2> HIDE DEF b
  <2>4. GoodEdit(g)
    BY <1>1, <2>1, <2>2, Touched
  <2> HIDE DEF g
  <2>5. IsWork(y) /\ y.e = g /\ y.new = x.new
    BY <2>3 DEF GoodWork, IsWork
  <2>6. GoodWork(y)
    BY <2>4, <2>5 DEF GoodWork
  <2>7. QED
    BY <2>6 DEF y
<1>5. QED
  BY <1>3, <1>4

LEMMA SniBlockGood ==
  ASSUME NEW x, GoodWork(x), NEW d
  PROVE  GoodWork(G!SniBlock(x, d))
<1> DEFINE f == G!ChooseVhost(x.e, d, TRUE)
           y == G!SniBlock(x, d)
<1>1. GoodEdit(f) /\ Aimed(f)
  BY ChosenGood DEF GoodWork
<1>2. y = G!AnswerSni(x, f, d)
  BY DEF G!SniBlock
<1> HIDE DEF f, y
<1>3. CASE ~ x.e.ok \/ ~ f.ok
  <2> DEFINE g == [x.e EXCEPT !.ok = FALSE]
  <2>1. y = [x EXCEPT !.e = g]
    BY <1>2, <1>3 DEF G!AnswerSni
  <2>2. GoodEdit(g)
    BY FailedEdit DEF GoodWork
  <2> HIDE DEF g
  <2>3. IsWork(y) /\ y.e = g /\ y.new = x.new
    BY <2>1 DEF GoodWork, IsWork
  <2>4. GoodWork(y)
    BY <2>2, <2>3 DEF GoodWork
  <2>5. QED
    BY <2>4 DEF y
<1>4. CASE x.e.ok /\ f.ok
  <2> DEFINE z == G!Zdomain[d]
             S == f.cfg[f.at].addrs
             p == G!Plain({z}, G!Undefault(S))
             b == G!SniServer(z, S)
  <2>1. f.at \in DOMAIN f.cfg
    BY <1>1, <1>4 DEF Aimed
  <2>2. S \in SUBSET G!Addr /\ Once(S)
    BY <1>1, <2>1 DEF GoodEdit, Fine, Good, Tame, IsBlock
  <2>3. b = [p EXCEPT !.answers = {z}, !.cert = "challenge"]
    BY DEF G!SniServer
  <2>4. y = [e |-> f, new |-> Append(x.new, b)]
    BY <1>2, <1>4 DEF G!AnswerSni
  <2> HIDE DEF S, b, z
  <2>5. /\ G!Undefault(S) \subseteq G!Addr /\ \A a \in G!Undefault(S) : ~ a.def
        /\ Once(G!Undefault(S))
    BY <2>2, Undefaulted
  <2>6. IsBlock(p) /\ p.addrs = G!Undefault(S)
    BY <2>5, PlainBlock
  <2> HIDE DEF p
  <2>7. IsBlock(b) /\ b.addrs = G!Undefault(S)
    BY <2>3, <2>6 DEF IsBlock
  <2>8. Quiet(b)
    BY <2>5, <2>7 DEF Quiet, Defaults, Tame
  <2>9. IsWork(y) /\ y.e = f /\ y.new = Append(x.new, b)
    BY <2>4 DEF IsWork
  <2>10. GoodWork(y)
    BY <1>1, <2>8, <2>9, OneMore DEF GoodWork
  <2>11. QED
    BY <2>10 DEF y
<1>5. QED
  BY <1>3, <1>4

\* Sequences of good configurations.
Stacked(s) == IsSeq(s) /\ \A i \in DOMAIN s : Fine(s[i])

LEMMA StackedMore ==
  ASSUME NEW s, Stacked(s), NEW c, Fine(c)
  PROVE  Stacked(Append(s, c))
<1> DEFINE S == Elements(s) \cup {c}
<1>1. s \in Seq(S) /\ c \in S
  BY DEF Stacked, IsSeq
<1>2. \A x \in S : Fine(x)
  BY DEF Elements, Stacked
<1> HIDE DEF S
<1>3. Append(s, c) \in Seq(S) /\ \A i \in DOMAIN Append(s, c) : Append(s, c)[i] \in S
  BY <1>1
<1>4. QED
  BY <1>2, <1>3, SeqOf DEF Stacked

LEMMA StackedLess ==
  ASSUME NEW s, Stacked(s), s # <<>>
  PROVE  Fine(s[Len(s)]) /\ Stacked(SubSeq(s, 1, Len(s) - 1))
<1> DEFINE S == Elements(s)
           f == SubSeq(s, 1, Len(s) - 1)
<1>1. s \in Seq(S)
  BY DEF Stacked, IsSeq
<1>2. \A x \in S : Fine(x)
  BY DEF Elements, Stacked
<1> HIDE DEF S
<1>3. f \in Seq(S) /\ Len(s) \in Nat \ {0}
  BY <1>1, Shorter
<1>4. s[Len(s)] \in S
  BY <1>1, <1>3
<1> HIDE DEF f
<1>5. \A i \in DOMAIN f : f[i] \in S
  BY <1>3
<1>6. Stacked(f)
  BY <1>2, <1>3, <1>5, SeqOf DEF Stacked
<1>7. QED
  BY <1>2, <1>4, <1>6 DEF f

\* Every configuration there is, edited, saved or kept in a checkpoint, is one
\* that nginx loads; and one that an edit may start from, but for the challenges' own
\* blocks, which are on disk for a while and in no edit.
NginxGood ==
  /\ Fine(mem) /\ newVhost \in {0} \cup DOMAIN mem /\ Fine(orig)
  /\ Good(conf) /\ (ipc \notin {"raised", "challenged", "done"} => Fine(conf))
  /\ (\A c \in temp \cup prog : Fine(c)) /\ Stacked(stack)

LEMMA NginxBeginsGood == SslAt443 /\ G!Init => NginxGood
<1> SUFFICES ASSUME SslAt443, G!Init
             PROVE  NginxGood
  OBVIOUS
<1>1. /\ orig \in Configs /\ mem = orig /\ conf = orig /\ temp = {} /\ prog = {} /\ stack = <<>>
      /\ newVhost = 0
  BY DEF G!Init
<1>2. Stacked(<<>>)
  <2>1. <<>> \in Seq({}) /\ DOMAIN <<>> = {}
    OBVIOUS
  <2>2. QED
    BY <2>1, SeqOf DEF Stacked
<1>3. QED
  BY <1>1, <1>2, Begin DEF NginxGood, Fine

LEMMA NginxEdit ==
  ASSUME NginxGood
  PROVE  GoodEdit(G!Edit(mem, newVhost, 0, TRUE))
<1> DEFINE f == G!Edit(mem, newVhost, 0, TRUE)
<1>1. IsEdit(f) /\ f.cfg = mem /\ f.nv = newVhost
  BY DEF IsEdit, G!Edit
<1> HIDE DEF f
<1>2. GoodEdit(f)
  BY <1>1 DEF GoodEdit, NginxGood
<1>3. QED
  BY <1>2 DEF f

LEMMA NginxPerformsGood ==
  ASSUME NginxFound, NginxGood, NEW ok \in BOOLEAN, G!Perform(ok)
  PROVE  NginxGood'
<1> DEFINE x0 == [e |-> G!Edit(mem, newVhost, 0, TRUE), new |-> <<>>]
           x == G!InTurn(x0)
<1>1. GoodWork(x0)
  <2> DEFINE e == G!Edit(mem, newVhost, 0, TRUE)
  <2>1. GoodEdit(e)
    BY NginxEdit
  <2>2. IsWork(x0) /\ x0.e = e /\ x0.new = <<>>
    BY DEF IsWork
  <2> HIDE DEF e
  <2>3. IsSeq(<<>>) /\ DOMAIN <<>> = {}
    <3>1. <<>> \in Seq({}) /\ DOMAIN <<>> = {}
      OBVIOUS
    <3>2. QED
      BY <3>1, SeqOf
  <2> HIDE DEF x0
  <2>4. QED
    BY <2>1, <2>2, <2>3 DEF GoodWork
<1> HIDE DEF x0
<1>2. ASSUME NEW y, GoodWork(y), NEW d
      PROVE  GoodWork(G!Blocks(y, d))
  BY <1>2, HttpBlockGood, SniBlockGood DEF G!Blocks
<1>3. x = IF Len(doms) = 1 THEN G!Blocks(x0, doms[1]) ELSE G!Blocks(G!Blocks(x0, doms[1]), doms[2])
  BY DEF G!InTurn
<1>4. GoodWork(x)
  BY <1>1, <1>2, <1>3
<1>5. /\ mem' = x.e.cfg /\ newVhost' = x.e.nv /\ prog' = prog /\ stack' = stack /\ orig' = orig
      /\ ipc = "perform" /\ ipc' \in {"challenged", "raised"}
      /\ \/ conf' = x.new \o x.e.cfg /\ temp' = {conf}
         \/ conf' = conf /\ temp' = temp
  BY DEF G!Perform, G!PutInPlace, G!IncludedFirst, G!asked, x0
<1> HIDE DEF x
<1>6. Fine(x.e.cfg) /\ x.e.nv \in {0} \cup DOMAIN x.e.cfg
  BY <1>4 DEF GoodWork, GoodEdit
<1>7. Good(x.new \o x.e.cfg)
  BY <1>4, <1>6, PutFirst DEF GoodWork, Fine
<1>8. QED
  BY <1>5, <1>6, <1>7 DEF NginxGood

LEMMA NginxCleansGood ==
  ASSUME NginxFound, NginxFound', NginxGood, NEW ok \in BOOLEAN, NEW X, G!Cleanup(X, ok)
  PROVE  NginxGood'
<1>1. /\ prog' = prog /\ stack' = stack /\ orig' = orig /\ ipc \in {"raised", "challenged"}
      /\ ipc' \in {"done", "challenged", "deploy"}
      /\ \/ /\ conf' = (IF temp = {} THEN conf ELSE CHOOSE c \in temp : TRUE)
            /\ temp' = {} /\ mem' = conf' /\ newVhost' = 0
         \/ conf' = conf /\ temp' = temp /\ mem' = mem /\ newVhost' = newVhost
  BY DEF G!Cleanup, G!asked
<1>2. prog = {} /\ (temp = {} => conf = orig)
  BY <1>1 DEF NginxFound
<1>3. ipc' = "deploy" => conf' = orig'
  BY <1>1, <1>2 DEF NginxFound
<1>4. QED
  BY <1>1, <1>2, <1>3 DEF NginxGood, Fine

LEMMA NginxDeploysGood ==
  ASSUME NginxGood, G!Deploy
  PROVE  NginxGood'
<1> DEFINE e0 == G!Edit(mem, newVhost, 0, TRUE)
           f == G!ChooseVhost(e0, Head(todo), TRUE)
           e == G!DeployCert(e0, Head(todo))
<1>1. GoodEdit(e0)
  BY NginxEdit
<1> HIDE DEF e0
<1>2. GoodEdit(f) /\ Aimed(f)
  BY <1>1, ChosenGood
<1> HIDE DEF f
<1>3. e = G!GiveCert(f)
  BY DEF G!DeployCert, f
<1>4. GoodEdit(e)
  BY <1>2, <1>3, CertGiven
<1>5. /\ stack' = stack /\ temp' = temp /\ orig' = orig /\ ipc = "deploy"
      /\ \/ /\ mem' = e.cfg /\ conf' = e.cfg /\ newVhost' = e.nv
            /\ prog' = (IF prog = {} THEN {conf} ELSE prog)
         \/ /\ conf' = (IF prog = {} THEN conf ELSE CHOOSE c \in prog : TRUE)
            /\ prog' = {} /\ mem' = conf' /\ newVhost' = 0
  BY DEF G!Deploy, G!SaveOrRecover, G!Save, G!Recover, G!asked, e0
<1> HIDE DEF e
<1>6. QED
  BY <1>4, <1>5 DEF NginxGood, GoodEdit, Fine

LEMMA NginxSavesGood ==
  ASSUME NginxGood, G!SaveDeployed \/ G!SaveEnhanced
  PROVE  NginxGood'
<1> DEFINE c == IF prog = {} THEN conf ELSE CHOOSE x \in prog : TRUE
<1>1. /\ temp' = temp /\ newVhost' = newVhost /\ mem' = mem /\ conf' = mem /\ prog' = {}
      /\ stack' = Append(stack, c) /\ orig' = orig /\ ipc \in {"deploy", "enhance"}
  BY DEF G!SaveDeployed, G!SaveEnhanced, G!Finalize, G!asked
<1>2. Fine(c)
  BY <1>1 DEF NginxGood
<1> HIDE DEF c
<1>3. QED
  BY <1>1, <1>2, StackedMore DEF NginxGood, Fine

LEMMA NginxRestartsGood ==
  ASSUME NginxFound, NginxGood, NEW ok \in BOOLEAN, NEW again \in BOOLEAN,
         G!RestartDeployed(ok, again) \/ G!RestartEnhanced(ok, again)
  PROVE  NginxGood'
<1>1. /\ ipc \in {"deployed", "enhanced"} /\ temp' = temp /\ orig' = orig
      /\ \/ /\ conf' = conf /\ prog' = prog /\ stack' = stack /\ mem' = mem /\ newVhost' = newVhost
         \/ /\ conf' = stack[Len(stack)] /\ stack' = SubSeq(stack, 1, Len(stack) - 1)
            /\ mem' = conf' /\ newVhost' = 0 /\ prog' = {}
  BY DEF G!RestartDeployed, G!RestartEnhanced, G!Rollback, G!files, G!edit, G!asked, G!Last, G!Front
<1>2. stack # <<>>
  BY <1>1 DEF NginxFound
<1>3. QED
  BY <1>1, <1>2, StackedLess DEF NginxGood, Fine

LEMMA NginxEnhancesGood ==
  ASSUME NginxGood, NEW version \in BOOLEAN, G!Enhance(version)
  PROVE  NginxGood'
<1> DEFINE e0 == G!Edit(mem, newVhost, 0, TRUE)
           d == Head(todo)
<1>1. GoodEdit(e0)
  BY NginxEdit
<1> HIDE DEF e0
<1>2. GoodEdit(G!EnableRedirect(e0, d))
  <2> DEFINE f == G!ChooseRedirectVhost(e0, d, FALSE)
  <2>1. GoodEdit(f) /\ f.at \in {0} \cup DOMAIN f.cfg /\ (f.at # 0 => ~ f.cfg[f.at].sslOn)
    BY <1>1, PlainChosen
  <2> HIDE DEF f
  <2>2. GoodEdit(G!Redirect(f, d))
    BY <2>1, Redirected
  <2>3. QED
    BY <2>2 DEF G!EnableRedirect, f
<1>3. GoodEdit(G!EnableStapling(e0, d, version))
  <2> DEFINE f == G!ChooseVhost(e0, d, FALSE)
  <2>1. GoodEdit(f) /\ Aimed(f)
    BY <1>1, ChosenGood
  <2> HIDE DEF f
  <2>2. GoodEdit(G!Staple(f, version))
    BY <2>1, StapledGood
  <2>3. QED
    BY <2>2 DEF G!EnableStapling, f
<1> HIDE DEF d
<1>4. ASSUME NEW e, GoodEdit(e), G!KeepOrRecover(e), stack' = stack, temp' = temp, orig' = orig,
             ipc = "enhance"
      PROVE  NginxGood'
  <2>1. \/ mem' = e.cfg /\ newVhost' = e.nv /\ conf' = conf /\ prog' = prog
        \/ /\ conf' = (IF prog = {} THEN conf ELSE CHOOSE c \in prog : TRUE)
           /\ prog' = {} /\ mem' = conf' /\ newVhost' = 0
    BY <1>4 DEF G!KeepOrRecover, G!Recover
  <2>2. QED
    BY <1>4, <2>1 DEF NginxGood, GoodEdit, Fine
<1>5. /\ stack' = stack /\ temp' = temp /\ orig' = orig /\ ipc = "enhance"
      /\ \/ G!KeepOrRecover(G!EnableRedirect(e0, d))
         \/ G!KeepOrRecover(G!EnableStapling(e0, d, version))
  BY DEF G!Enhance, G!asked, e0, d
<1>6. QED
  BY <1>2, <1>3, <1>4, <1>5

LEMMA NginxKeptGood ==
  ASSUME NginxFound, NginxFound', NginxGood, G!Next
  PROVE  NginxGood'
<1>1. CASE UNCHANGED <<mem, newVhost, conf, temp, prog, stack, orig>> /\ ipc' \in {ipc, "done"}
  BY <1>1 DEF NginxGood
<1>2. ASSUME NEW ok \in BOOLEAN, NEW X \in SUBSET G!Domains, G!Cleanup(X, ok)
      PROVE  NginxGood'
  BY <1>2, NginxCleansGood
<1>3. ASSUME NEW ok \in BOOLEAN, G!Perform(ok) \/ G!Enhance(ok)
      PROVE  NginxGood'
  BY <1>3, NginxPerformsGood, NginxEnhancesGood
<1>4. ASSUME NEW ok \in BOOLEAN, NEW again \in BOOLEAN,
             G!RestartDeployed(ok, again) \/ G!RestartEnhanced(ok, again)
      PROVE  NginxGood'
  BY <1>4, NginxRestartsGood
<1>5. CASE G!Over \/ G!Invalid
  BY <1>1, <1>5 DEF G!Over, G!Invalid, G!vars, G!files, G!edit, G!asked
<1>6. QED
  BY <1>2, <1>3, <1>4, <1>5, NginxDeploysGood, NginxSavesGood DEF G!Next, G!Client
-----------------------------------------------------------------------------
(* The edits of the Apache plugin enable a module before they use it. *)

\* A host, and an edit, known by their fields.
IsHost(v) ==
  v \in [names : {v.names}, wild : {v.wild}, port : {v.port}, enabled : {v.enabled}, cert : {v.cert},
         toHttps : {v.toHttps}, rule : {v.rule}, conds : {v.conds}, header : {v.header},
         stapled : {v.stapled}, answers : {v.answers}]
IsChange(e) ==
  e \in [cfg : {e.cfg}, listen : {e.listen}, mods : {e.mods}, modules : {e.modules},
         assoc : {e.assoc}, enhanced : {e.enhanced}, ancestor : {e.ancestor}, at : {e.at},
         why : {e.why}, able : {e.able}]

\* No host waits for a module, and the plugin knows which are loaded.
Tidy(c, mods) == IsSeq(c) /\ \A i \in DOMAIN c : IsHost(c[i]) /\ A!Provided(c[i], mods)
TidyEdit(e) == IsChange(e) /\ e.modules = e.mods /\ Tidy(e.cfg, e.mods)

LEMMA MoreModules ==
  ASSUME NEW c, NEW mods, Tidy(c, mods), NEW m
  PROVE  Tidy(c, mods \cup {m})
BY DEF Tidy, A!Provided

LEMMA HostReplaced ==
  ASSUME NEW c, NEW mods, Tidy(c, mods), NEW i, NEW v,
         i \in DOMAIN c => IsHost(v) /\ A!Provided(v, mods)
  PROVE  Tidy([c EXCEPT ![i] = v], mods)
<1> DEFINE d == [c EXCEPT ![i] = v]
           S == Elements(c) \cup {v}
<1>1. c \in Seq(Elements(c))
  BY DEF Tidy, IsSeq
<1>2. c \in Seq(S) /\ v \in S
  BY <1>1
<1> HIDE DEF S
<1>3. d \in Seq(S)
  <2>1. c \in [1..Len(c) -> S] /\ Len(c) \in Nat
    BY <1>2
  <2>2. d \in [1..Len(c) -> S]
    BY <1>2, <2>1
  <2>3. QED
    BY <2>1, <2>2
<1>4. DOMAIN d = DOMAIN c /\ \A j \in DOMAIN c : d[j] = IF j = i THEN v ELSE c[j]
  OBVIOUS
<1>5. IsSeq(d)
  BY <1>3, SeqOf
<1> HIDE DEF d
<1>6. Tidy(d, mods)
  BY <1>4, <1>5 DEF Tidy
<1>7. QED
  BY <1>6 DEF d

LEMMA HostAdded ==
  ASSUME NEW c, NEW mods, Tidy(c, mods), NEW v, IsHost(v), A!Provided(v, mods)
  PROVE  Tidy(Append(c, v), mods)
<1> DEFINE d == Append(c, v)
           S == Elements(c) \cup {v}
<1>1. c \in Seq(S) /\ v \in S
  BY DEF Tidy, IsSeq
<1>2. \A x \in S : IsHost(x) /\ A!Provided(x, mods)
  BY DEF Elements, Tidy
<1> HIDE DEF S
<1>3. d \in Seq(S) /\ \A j \in DOMAIN d : d[j] \in S
  BY <1>1
<1>4. IsSeq(d)
  BY <1>3, SeqOf
<1> HIDE DEF d
<1>5. Tidy(d, mods)
  BY <1>2, <1>3, <1>4 DEF Tidy
<1>6. QED
  BY <1>5 DEF d

\* Edits that leave the hosts and the modules alone.
LEMMA SameHosts ==
  ASSUME NEW e, TidyEdit(e), NEW f, IsChange(f), f.cfg = e.cfg, f.mods = e.mods, f.modules = e.modules
  PROVE  TidyEdit(f)
BY DEF TidyEdit

LEMMA Raised ==
  ASSUME NEW e, TidyEdit(e), NEW why
  PROVE  TidyEdit(A!Raise(e, why)) /\ A!Raise(e, why).why = why
<1> DEFINE f == A!Raise(e, why)
<1>1. IsChange(f) /\ f.cfg = e.cfg /\ f.mods = e.mods /\ f.modules = e.modules /\ f.why = why
  BY DEF TidyEdit, IsChange, A!Raise
<1> HIDE DEF f
<1>2. TidyEdit(f) /\ f.why = why
  BY <1>1, SameHosts
<1>3. QED
  BY <1>2 DEF f

LEMMA ModNeeded ==
  ASSUME NEW e, TidyEdit(e), NEW m
  PROVE  LET f == A!NeedMod(e, m)
         IN TidyEdit(f) /\ (f.why = "ok" => m \in f.mods) /\ f.at = e.at
<1> DEFINE f == A!NeedMod(e, m)
           g == [e EXCEPT !.mods = @ \cup {m}, !.modules = @ \cup {m}]
<1>1. /\ IsChange(g) /\ g.cfg = e.cfg /\ g.mods = e.mods \cup {m} /\ g.modules = e.modules \cup {m}
      /\ g.at = e.at
  BY DEF TidyEdit, IsChange
<1> HIDE DEF g
<1>2. TidyEdit(g)
  <2>1. e.modules = e.mods /\ Tidy(e.cfg, e.mods)
    BY DEF TidyEdit
  <2>2. Tidy(e.cfg, e.mods \cup {m})
    BY <2>1, MoreModules
  <2>3. QED
    BY <1>1, <2>1, <2>2 DEF TidyEdit
<1>3. TidyEdit(A!Raise(e, "error")) /\ A!Raise(e, "error").why = "error" /\ A!Raise(e, "error").at = e.at
  <2>1. A!Raise(e, "error").at = e.at
    BY DEF A!Raise, TidyEdit, IsChange
  <2>2. QED
    BY <2>1, Raised
<1>4. f = IF e.why # "ok" \/ m \in e.modules THEN e ELSE IF debian /\ m \in e.able THEN g ELSE A!Raise(e, "error")
  BY DEF A!NeedMod, g
<1>5. e.modules = e.mods
  BY DEF TidyEdit
<1> HIDE DEF f
<1>6. TidyEdit(f) /\ (f.why = "ok" => m \in f.mods) /\ f.at = e.at
  BY <1>1, <1>2, <1>3, <1>4, <1>5
<1>7. QED
  BY <1>6 DEF f

\* A change of one host.
LEMMA HostTouched ==
  ASSUME NEW e, TidyEdit(e), NEW i, NEW v, i \in DOMAIN e.cfg => IsHost(v) /\ A!Provided(v, e.mods),
         NEW f, IsChange(f), f.cfg = [e.cfg EXCEPT ![i] = v], f.mods = e.mods, f.modules = e.modules
  PROVE  TidyEdit(f)
BY HostReplaced DEF TidyEdit

LEMMA HostOf ==
  ASSUME NEW e, TidyEdit(e), NEW i \in DOMAIN e.cfg
  PROVE  IsHost(e.cfg[i]) /\ A!Provided(e.cfg[i], e.mods)
BY DEF TidyEdit, Tidy

\* A host changed in what needs no module, or only one that is enabled.
LEMMA StillProvided ==
  ASSUME NEW mods, NEW old, NEW v, A!Provided(old, mods),
         v.answers = old.answers, v.toHttps = old.toHttps,
         v.rule = old.rule \/ "rewrite" \in mods,
         v.header = old.header \/ "headers" \in mods,
         v.stapled = old.stapled \/ "socache" \in mods
  PROVE  A!Provided(v, mods)
BY DEF A!Provided

LEMMA Listened ==
  ASSUME NEW e, TidyEdit(e), NEW p
  PROVE  TidyEdit(A!Listening(e, p))
<1> DEFINE f == A!Listening(e, p)
<1>1. IsChange(f) /\ f.cfg = e.cfg /\ f.mods = e.mods /\ f.modules = e.modules
  BY DEF TidyEdit, IsChange, A!Listening
<1> HIDE DEF f
<1>2. TidyEdit(f)
  BY <1>1, SameHosts
<1>3. QED
  BY <1>2 DEF f

\* The copy for https has no rule.
LEMMA SslCopied ==
  ASSUME NEW e, TidyEdit(e), e.at \in DOMAIN e.cfg
  PROVE  TidyEdit(A!SslOf(e))
<1> DEFINE old == e.cfg[e.at]
           w == [old EXCEPT !.port = 443, !.enabled = ~ debian]
           v == A!SiftRewriteRules(w)
           g == A!Made(e, v)
           f == A!NewVhost(e, v)
<1>1. IsHost(old) /\ A!Provided(old, e.mods)
  BY HostOf
<1>2. /\ IsHost(w) /\ w.answers = old.answers /\ w.header = old.header /\ w.stapled = old.stapled
  BY <1>1, ZenonT(30) DEF IsHost
<1> HIDE DEF w
<1>3. /\ IsHost(v) /\ v.answers = w.answers /\ v.header = w.header /\ v.stapled = w.stapled
      /\ v.toHttps = FALSE /\ v.rule = "none"
  BY <1>2 DEF IsHost, A!SiftRewriteRules
<1> HIDE DEF v, old
<1>4. A!Provided(v, e.mods)
  BY <1>1, <1>2, <1>3 DEF A!Provided
<1>5. IsChange(g) /\ g.cfg = Append(e.cfg, v) /\ g.mods = e.mods /\ g.modules = e.modules
  BY DEF TidyEdit, IsChange, A!Made
<1>6. f = [g EXCEPT !.ancestor = Append(@, e.at)]
  BY DEF A!NewVhost
<1> HIDE DEF g, f
<1>7. IsChange(f) /\ f.cfg = g.cfg /\ f.mods = g.mods /\ f.modules = g.modules
  BY <1>5, <1>6 DEF IsChange
<1>8. TidyEdit(f)
  BY <1>3, <1>4, <1>5, <1>7, HostAdded DEF TidyEdit
<1>9. A!SslOf(e) = IF e.cfg[e.at].port = 443 THEN e ELSE f
  BY DEF A!SslOf, A!MakeVhostSsl, f, v, w, old
<1>10. QED
  BY <1>8, <1>9

LEMMA Aliased ==
  ASSUME NEW e, TidyEdit(e), NEW d
  PROVE  TidyEdit(A!Alias(e, d))
<1> DEFINE v == A!Named(e.cfg[e.at], d)
           f == A!Alias(e, d)
<1>1. e.at \in DOMAIN e.cfg => IsHost(v) /\ A!Provided(v, e.mods)
  <2> SUFFICES ASSUME e.at \in DOMAIN e.cfg
               PROVE  IsHost(v) /\ A!Provided(v, e.mods)
    OBVIOUS
  <2> DEFINE old == e.cfg[e.at]
  <2>1. IsHost(old) /\ A!Provided(old, e.mods)
    BY HostOf
  <2> HIDE DEF old
  <2>2. v = [old EXCEPT !.names = @ \cup (IF old.wild THEN {} ELSE {d})]
    BY DEF A!Named, old
  <2> HIDE DEF v
  <2>3. /\ IsHost(v) /\ v.answers = old.answers /\ v.header = old.header /\ v.stapled = old.stapled
        /\ v.toHttps = old.toHttps /\ v.rule = old.rule
    BY <2>1, <2>2 DEF IsHost
  <2>4. QED
    BY <2>1, <2>3 DEF A!Provided
<1>2. IsChange(f) /\ f.cfg = [e.cfg EXCEPT ![e.at] = v] /\ f.mods = e.mods /\ f.modules = e.modules
  BY DEF TidyEdit, IsChange, A!Alias
<1> HIDE DEF f, v
<1>3. TidyEdit(f)
  BY <1>1, <1>2, HostTouched
<1>4. QED
  BY <1>3 DEF f

LEMMA VhostChosen ==
  ASSUME NEW e, TidyEdit(e), NEW d, NEW pick
  PROVE  TidyEdit(A!ChooseVhost(e, d, pick))
<1>1. ASSUME NEW at
      PROVE  LET f == [e EXCEPT !.at = at] IN TidyEdit(f) /\ f.at = at /\ f.cfg = e.cfg
  <2> DEFINE f == [e EXCEPT !.at = at]
  <2>1. IsChange(f) /\ f.cfg = e.cfg /\ f.mods = e.mods /\ f.modules = e.modules /\ f.at = at
    BY DEF TidyEdit, IsChange
  <2> HIDE DEF f
  <2>2. TidyEdit(f) /\ f.at = at /\ f.cfg = e.cfg
    BY <2>1, SameHosts
  <2>3. QED
    BY <2>2 DEF f
<1>2. ASSUME NEW best, NEW at
      PROVE  TidyEdit(A!Take(e, d, best, at))
  <2> DEFINE f == [e EXCEPT !.at = at]
  <2>1. TidyEdit(f) /\ f.at = at /\ f.cfg = e.cfg
    BY <1>1
  <2>2. A!Take(e, d, best, at) = A!Raise(e, "error")
        \/ (at \in DOMAIN e.cfg /\ A!Take(e, d, best, at) = A!Alias(A!SslOf(f), d))
    BY DEF A!Take
  <2> HIDE DEF f
  <2>3. at \in DOMAIN e.cfg => TidyEdit(A!SslOf(f))
    BY <2>1, SslCopied
  <2>4. at \in DOMAIN e.cfg => TidyEdit(A!Alias(A!SslOf(f), d))
    BY <2>3, Aliased
  <2>5. TidyEdit(A!Raise(e, "error"))
    BY Raised
  <2>6. QED
    BY <2>2, <2>4, <2>5
<1>3. QED
  BY <1>1, <1>2 DEF A!ChooseVhost, A!BestOr

LEMMA CertDeployed ==
  ASSUME NEW e, TidyEdit(e), NEW linkFails
  PROVE  TidyEdit(A!DeployTo(e, linkFails))
<1> DEFINE h == A!HttpsMods(e)
           g == A!PrepareServerHttps(e)
<1>1. TidyEdit(h)
  <2>1. TidyEdit(A!NeedMod(e, "socache"))
    BY ModNeeded
  <2>2. TidyEdit(A!NeedMod(A!NeedMod(e, "socache"), "ssl"))
    BY <2>1, ModNeeded
  <2>3. QED
    BY <2>2 DEF A!HttpsMods
<1>2. TidyEdit(g)
  BY <1>1, Listened DEF A!PrepareServerHttps
<1> HIDE DEF h, g
<1> DEFINE v == [g.cfg[g.at] EXCEPT !.cert = "le"]
           f == [g EXCEPT !.cfg[g.at].cert = "le"]
           w == [f.cfg[f.at] EXCEPT !.enabled = TRUE]
           k == [f EXCEPT !.cfg[f.at].enabled = TRUE]
<1>3. TidyEdit(f)
  <2>1. ASSUME g.at \in DOMAIN g.cfg
        PROVE  IsHost(v) /\ A!Provided(v, g.mods)
    <3> DEFINE old == g.cfg[g.at]
    <3>1. IsHost(old) /\ A!Provided(old, g.mods)
      BY <1>2, <2>1, HostOf
    <3>2. v = [old EXCEPT !.cert = "le"]
      OBVIOUS
    <3> HIDE DEF old, v
    <3>3. /\ IsHost(v) /\ v.answers = old.answers /\ v.toHttps = old.toHttps
          /\ v.rule = old.rule /\ v.header = old.header /\ v.stapled = old.stapled
      BY <3>1, <3>2 DEF IsHost
    <3>4. QED
      BY <1>2, <3>1, <3>3, StillProvided
  <2>2. IsChange(f) /\ f.cfg = [g.cfg EXCEPT ![g.at] = v] /\ f.mods = g.mods /\ f.modules = g.modules
    BY <1>2 DEF TidyEdit, IsChange
  <2> HIDE DEF f, v
  <2>3. QED
    BY <1>2, <2>1, <2>2, HostTouched
<1> HIDE DEF f
<1>4. TidyEdit(k)
  <2>1. ASSUME f.at \in DOMAIN f.cfg
        PROVE  IsHost(w) /\ A!Provided(w, f.mods)
    <3> DEFINE old == f.cfg[f.at]
    <3>1. IsHost(old) /\ A!Provided(old, f.mods)
      BY <1>3, <2>1, HostOf
    <3>2. w = [old EXCEPT !.enabled = TRUE]
      OBVIOUS
    <3> HIDE DEF old, w
    <3>3. /\ IsHost(w) /\ w.answers = old.answers /\ w.toHttps = old.toHttps
          /\ w.rule = old.rule /\ w.header = old.header /\ w.stapled = old.stapled
      BY <3>1, <3>2 DEF IsHost
    <3>4. QED
      BY <1>3, <3>1, <3>3, StillProvided
  <2>2. IsChange(k) /\ k.cfg = [f.cfg EXCEPT ![f.at] = w] /\ k.mods = f.mods /\ k.modules = f.modules
    BY <1>3 DEF TidyEdit, IsChange
  <2> HIDE DEF k, w
  <2>3. QED
    BY <1>3, <2>1, <2>2, HostTouched
<1>5. TidyEdit(A!Raise(g, "error")) /\ TidyEdit(A!Raise(f, "registered"))
  BY <1>2, <1>3, Raised
<1>6. A!DeployTo(e, linkFails) \in {e, A!Raise(g, "error"), A!Raise(f, "registered"), k}
  BY DEF A!DeployTo, A!GiveCert, A!EnableSite, g, f
<1> HIDE DEF k
<1>7. QED
  BY <1>4, <1>5, <1>6

LEMMA HeaderSet ==
  ASSUME NEW e, TidyEdit(e)
  PROVE  TidyEdit(A!SetHttpHeader(e))
<1> DEFINE f == A!NeedMod(e, "headers")
           v == [f.cfg[f.at] EXCEPT !.header = TRUE]
           g == [f EXCEPT !.cfg[f.at].header = TRUE]
<1>1. TidyEdit(f) /\ (f.why = "ok" => "headers" \in f.mods)
  BY ModNeeded
<1>2. A!SetHttpHeader(e) \in {f, A!Raise(f, "present")} \/ (f.why = "ok" /\ A!SetHttpHeader(e) = g)
  BY DEF A!SetHttpHeader
<1> HIDE DEF f
<1>3. TidyEdit(A!Raise(f, "present"))
  BY <1>1, Raised
<1>4. f.why = "ok" => TidyEdit(g)
  <2> SUFFICES ASSUME f.why = "ok"
               PROVE  TidyEdit(g)
    OBVIOUS
  <2>1. ASSUME f.at \in DOMAIN f.cfg
        PROVE  IsHost(v) /\ A!Provided(v, f.mods)
    <3> DEFINE old == f.cfg[f.at]
    <3>1. IsHost(old) /\ A!Provided(old, f.mods)
      BY <1>1, <2>1, HostOf
    <3>2. v = [old EXCEPT !.header = TRUE]
      OBVIOUS
    <3> HIDE DEF old, v
    <3>3. /\ IsHost(v) /\ v.answers = old.answers /\ v.toHttps = old.toHttps
          /\ v.rule = old.rule /\ v.stapled = old.stapled
      BY <3>1, <3>2 DEF IsHost
    <3>4. QED
      BY <1>1, <3>1, <3>3, StillProvided
  <2>2. IsChange(g) /\ g.cfg = [f.cfg EXCEPT ![f.at] = v] /\ g.mods = f.mods /\ g.modules = f.modules
    BY <1>1 DEF TidyEdit, IsChange
  <2> HIDE DEF g, v
  <2>3. QED
    BY <1>1, <2>1, <2>2, HostTouched
<1> HIDE DEF g
<1>5. QED
  BY <1>1, <1>2, <1>3, <1>4

LEMMA RedirectEnabled ==
  ASSUME NEW e, TidyEdit(e)
  PROVE  TidyEdit(A!EnableRedirect(e))
<1> DEFINE f == A!NeedMod(e, "rewrite")
           at == A!GetHttpVhost(f)
<1>1. TidyEdit(f) /\ (f.why = "ok" => "rewrite" \in f.mods)
  BY ModNeeded
<1>2. \/ A!EnableRedirect(e) \in {f, A!Raise(f, "error")}
      \/ /\ f.why = "ok"
         /\ A!EnableRedirect(e) \in {A!CreateRedirectVhost(f), A!RuleFound(f, at), A!Rule(f, at)}
  BY DEF A!EnableRedirect
<1> HIDE DEF f, at
<1>3. TidyEdit(A!Raise(f, "error"))
  BY <1>1, Raised
<1>4. ASSUME f.why = "ok"
      PROVE  TidyEdit(A!CreateRedirectVhost(f))
  <2> DEFINE v == f.cfg[f.at]
             w == A!Vhost(v.names, 80)
             new == [w EXCEPT !.rule = "certbot", !.enabled = ~ debian, !.wild = v.wild]
             g == A!CreateRedirectVhost(f)
  <2>1. IsHost(w) /\ ~ w.answers /\ ~ w.header /\ ~ w.stapled /\ ~ w.toHttps
    BY DEF IsHost, A!Vhost
  <2>2. g = [f EXCEPT !.cfg = Append(@, new), !.ancestor = Append(@, 0),
                      !.enhanced = @ \cup {Len(f.cfg) + 1}]
    BY DEF A!CreateRedirectVhost
  <2> HIDE DEF w, g
  <2>3. IsHost(new) /\ ~ new.answers /\ ~ new.header /\ ~ new.stapled /\ ~ new.toHttps
    BY <2>1 DEF IsHost
  <2> HIDE DEF new
  <2>4. A!Provided(new, f.mods)
    BY <1>1, <1>4, <2>3 DEF A!Provided
  <2>5. IsChange(g) /\ g.cfg = Append(f.cfg, new) /\ g.mods = f.mods /\ g.modules = f.modules
    BY <1>1, <2>2 DEF TidyEdit, IsChange
  <2>6. TidyEdit(g)
    BY <1>1, <2>3, <2>4, <2>5, HostAdded DEF TidyEdit
  <2>7. QED
    BY <2>6 DEF g
<1>5. ASSUME f.why = "ok", NEW g, IsChange(g), g.mods = f.mods, g.modules = f.modules, NEW conds,
             g.cfg = [f.cfg EXCEPT ![at] = [@ EXCEPT !.rule = "certbot", !.conds = conds]]
      PROVE  TidyEdit(g)
  <2> DEFINE v == [f.cfg[at] EXCEPT !.rule = "certbot", !.conds = conds]
  <2>1. ASSUME at \in DOMAIN f.cfg
        PROVE  IsHost(v) /\ A!Provided(v, f.mods)
    <3> DEFINE old == f.cfg[at]
    <3>1. IsHost(old) /\ A!Provided(old, f.mods)
      BY <1>1, <2>1, HostOf
    <3>2. v = [old EXCEPT !.rule = "certbot", !.conds = conds]
      OBVIOUS
    <3> HIDE DEF old, v
    <3>3. /\ IsHost(v) /\ v.answers = old.answers /\ v.header = old.header
          /\ v.stapled = old.stapled /\ v.toHttps = old.toHttps
      BY <3>1, <3>2 DEF IsHost
    <3>4. QED
      BY <1>1, <1>5, <3>1, <3>3, StillProvided
  <2>2. g.cfg = [f.cfg EXCEPT ![at] = v]
    BY <1>5
  <2> HIDE DEF v
  <2>3. QED
    BY <1>1, <1>5, <2>1, <2>2, HostTouched
<1>6. ASSUME f.why = "ok"
      PROVE  TidyEdit(A!RuleFound(f, at))
  <2> DEFINE v == [f.cfg[at] EXCEPT !.rule = "certbot"]
             g == [f EXCEPT !.cfg[at].rule = "certbot"]
  <2>1. ASSUME at \in DOMAIN f.cfg
        PROVE  IsHost(v) /\ A!Provided(v, f.mods)
    <3> DEFINE old == f.cfg[at]
    <3>1. IsHost(old) /\ A!Provided(old, f.mods)
      BY <1>1, <2>1, HostOf
    <3>2. v = [old EXCEPT !.rule = "certbot"]
      OBVIOUS
    <3> HIDE DEF old, v
    <3>3. /\ IsHost(v) /\ v.answers = old.answers /\ v.toHttps = old.toHttps
          /\ v.header = old.header /\ v.stapled = old.stapled
      BY <3>1, <3>2 DEF IsHost
    <3>4. QED
      BY <1>1, <1>6, <3>1, <3>3, StillProvided
  <2>2. IsChange(g) /\ g.cfg = [f.cfg EXCEPT ![at] = v] /\ g.mods = f.mods /\ g.modules = f.modules
    BY <1>1 DEF TidyEdit, IsChange
  <2>3. A!RuleFound(f, at) = A!Raise(g, "present")
    BY DEF A!RuleFound
  <2> HIDE DEF g, v
  <2>4. TidyEdit(g)
    BY <1>1, <2>1, <2>2, HostTouched
  <2>5. QED
    BY <2>3, <2>4, Raised
<1>7. ASSUME f.why = "ok"
      PROVE  TidyEdit(A!Rule(f, at))
  <2> DEFINE g == A!Rule(f, at)
             names == f.cfg[f.at].names
  <2>1. g = [f EXCEPT !.cfg[at].rule = "certbot", !.cfg[at].conds = names, !.enhanced = @ \cup {at}]
    BY DEF A!Rule
  <2> HIDE DEF g, names
  <2>2. /\ IsChange(g) /\ g.mods = f.mods /\ g.modules = f.modules
        /\ g.cfg = [f.cfg EXCEPT ![at] = [@ EXCEPT !.rule = "certbot", !.conds = names]]
    BY <1>1, <2>1 DEF TidyEdit, IsChange
  <2>3. TidyEdit(g)
    BY <1>5, <1>7, <2>2
  <2>4. QED
    BY <2>3 DEF g
<1>8. QED
  BY <1>1, <1>2, <1>3, <1>4, <1>6, <1>7

LEMMA StaplingEnabled ==
  ASSUME NEW e, TidyEdit(e), NEW version
  PROVE  TidyEdit(A!EnableStapling(e, version))
<1> DEFINE f == A!NeedMod(e, "socache")
           v == [f.cfg[f.at] EXCEPT !.stapled = TRUE]
           g == [f EXCEPT !.cfg[f.at].stapled = TRUE]
<1>1. TidyEdit(f) /\ (f.why = "ok" => "socache" \in f.mods)
  BY ModNeeded
<1>2. \/ A!EnableStapling(e, version) \in {f, A!Raise(e, "error")}
      \/ f.why = "ok" /\ A!EnableStapling(e, version) = g
  BY DEF A!EnableStapling
<1> HIDE DEF f
<1>3. TidyEdit(A!Raise(e, "error"))
  BY Raised
<1>4. f.why = "ok" => TidyEdit(g)
  <2> SUFFICES ASSUME f.why = "ok"
               PROVE  TidyEdit(g)
    OBVIOUS
  <2>1. ASSUME f.at \in DOMAIN f.cfg
        PROVE  IsHost(v) /\ A!Provided(v, f.mods)
    <3> DEFINE old == f.cfg[f.at]
    <3>1. IsHost(old) /\ A!Provided(old, f.mods)
      BY <1>1, <2>1, HostOf
    <3>2. v = [old EXCEPT !.stapled = TRUE]
      OBVIOUS
    <3> HIDE DEF old, v
    <3>3. /\ IsHost(v) /\ v.answers = old.answers /\ v.toHttps = old.toHttps
          /\ v.rule = old.rule /\ v.header = old.header
      BY <3>1, <3>2 DEF IsHost
    <3>4. QED
      BY <1>1, <3>1, <3>3, StillProvided
  <2>2. IsChange(g) /\ g.cfg = [f.cfg EXCEPT ![f.at] = v] /\ g.mods = f.mods /\ g.modules = f.modules
    BY <1>1 DEF TidyEdit, IsChange
  <2> HIDE DEF g, v
  <2>3. QED
    BY <1>1, <2>1, <2>2, HostTouched
<1> HIDE DEF g
<1>5. QED
  BY <1>1, <1>2, <1>3, <1>4

-----------------------------------------------------------------------------
\* From the clean-up of the challenges on, what is on disk is what the plugin
\* has in memory, no host in it waits for a module, and the modules enabled are
\* those the plugin knows.
ApacheTidy ==
  /\ Tidy(orig.cfg, orig.mods)
  /\ ipc \in {"deploy", "deployed", "enhance"} =>
       Tidy(conf.cfg, conf.mods) /\ mem.cfg = conf.cfg /\ modules = conf.mods

LEMMA ApacheBeginsTidy ==
  ASSUME Complete, A!Init
  PROVE  ApacheTidy
<1>1. orig \in Servers /\ ipc = "perform"
  BY DEF A!Init
<1>2. orig \in A!ServerState
  BY <1>1, ServersAssumption
<1>3. orig.cfg \in Seq(A!VirtualHost)
  BY <1>2 DEF A!ServerState
<1>4. IsSeq(orig.cfg)
  BY <1>3, SeqOf
<1>5. ASSUME NEW i \in DOMAIN orig.cfg
      PROVE  IsHost(orig.cfg[i]) /\ A!Provided(orig.cfg[i], orig.mods)
  <2>1. orig.cfg[i] \in A!VirtualHost
    BY <1>3
  <2>2. QED
    BY <1>1, <2>1 DEF IsHost, A!VirtualHost, Complete
<1>6. QED
  BY <1>1, <1>4, <1>5 DEF ApacheTidy, Tidy

LEMMA ApacheEdit ==
  ASSUME ApacheTidy, ipc \in {"deploy", "enhance"}, NEW able
  PROVE  TidyEdit(A!Edit(able)) /\ \A i : TidyEdit([A!Edit(able) EXCEPT !.at = i])
<1> DEFINE e == A!Edit(able)
<1>1. IsChange(e) /\ e.cfg = mem.cfg /\ e.mods = conf.mods /\ e.modules = modules
  BY DEF IsChange, A!Edit
<1> HIDE DEF e
<1>2. TidyEdit(e)
  BY <1>1 DEF TidyEdit, ApacheTidy
<1>3. ASSUME NEW i
      PROVE  TidyEdit([e EXCEPT !.at = i])
  <2> DEFINE f == [e EXCEPT !.at = i]
  <2>1. IsChange(f) /\ f.cfg = e.cfg /\ f.mods = e.mods /\ f.modules = e.modules
    BY <1>1 DEF IsChange
  <2> HIDE DEF f
  <2>2. TidyEdit(f)
    BY <1>2, <2>1, SameHosts
  <2>3. QED
    BY <2>2 DEF f
<1>4. QED
  BY <1>2, <1>3 DEF e

LEMMA ApacheCleansTidy ==
  ASSUME ApacheFound, ApacheTidy, NEW ok \in BOOLEAN, NEW X \in SUBSET A!Domains, A!Cleanup(X, ok)
  PROVE  ApacheTidy'
<1>1. /\ ipc \in {"raised", "challenged"} /\ orig' = orig
      /\ ipc' \in {"deploy", "challenged", "done"}
      /\ ipc' = "deploy" => /\ conf' \in temp /\ mem' = A!Tree(conf') /\ modules' = conf'.mods
  BY DEF A!Cleanup, A!asked, A!Reset, A!ResetModules
<1>2. temp = {orig}
  BY <1>1 DEF ApacheFound
<1>3. A!Tree(conf').cfg = conf'.cfg
  BY DEF A!Tree
<1>4. QED
  BY <1>1, <1>2, <1>3 DEF ApacheTidy

\* An edit is saved.
LEMMA KeptTidy ==
  ASSUME NEW e, TidyEdit(e), A!Keep(e), ApacheTidy, orig' = orig
  PROVE  ApacheTidy'
<1>1. A!Server(e).cfg = e.cfg /\ A!Server(e).mods = e.mods
  BY DEF A!Server
<1>2. conf' = A!Server(e) /\ mem'.cfg = e.cfg /\ modules' = e.modules
  BY DEF A!Keep, A!Tree, A!Server
<1>3. QED
  BY <1>1, <1>2 DEF ApacheTidy, TidyEdit

LEMMA ApacheDeploysTidy ==
  ASSUME ApacheTidy, NEW pick, NEW linkFails, NEW able, A!Deploy(pick, linkFails, able)
  PROVE  ApacheTidy'
<1> DEFINE d == Head(todo)
           e == A!DeployCert(A!Edit(able), d, pick, linkFails)
<1>1. ipc = "deploy" /\ orig' = orig /\ (A!Keep(e) \/ ipc' = "done")
  BY DEF A!Deploy, A!SaveOrRecover, A!asked
<1> HIDE DEF d
<1>2. TidyEdit(A!Edit(able))
  BY <1>1, ApacheEdit
<1>3. TidyEdit(A!ChooseVhost(A!Edit(able), d, pick))
  BY <1>2, VhostChosen
<1>4. TidyEdit(e)
  BY <1>3, CertDeployed DEF A!DeployCert
<1> HIDE DEF e
<1>5. CASE A!Keep(e)
  BY <1>1, <1>4, <1>5, KeptTidy
<1>6. CASE ipc' = "done"
  BY <1>1, <1>6 DEF ApacheTidy
<1>7. QED
  BY <1>1, <1>5, <1>6

LEMMA ApacheEnhancesTidy ==
  ASSUME ApacheTidy, NEW version \in BOOLEAN, NEW able, A!Enhance(version, able)
  PROVE  ApacheTidy'
<1> DEFINE e0 == [A!Edit(able) EXCEPT !.at = assoc[Head(todo)[2]]]
           kind == Head(todo)[1]
           e == A!Supported(e0, kind, version)
<1>1. ipc = "enhance" /\ orig' = orig /\ (A!Keep(e) \/ ipc' = "done")
  BY DEF A!Enhance, A!KeepOrRecover, A!asked
<1>2. TidyEdit(e0)
  BY <1>1, ApacheEdit
<1> HIDE DEF e0, kind
<1>3. TidyEdit(A!SetHttpHeader(e0)) /\ TidyEdit(A!EnableRedirect(e0))
  BY <1>2, HeaderSet, RedirectEnabled
<1>4. TidyEdit(A!EnableStapling(e0, version))
  BY <1>2, StaplingEnabled
<1>5. \/ kind = "hsts" /\ e = A!SetHttpHeader(e0)
      \/ kind = "redirect" /\ e = A!EnableRedirect(e0)
      \/ kind \notin {"hsts", "redirect"} /\ e = A!EnableStapling(e0, version)
  BY DEF A!Supported
<1> HIDE DEF e
<1>6. TidyEdit(e)
  BY <1>3, <1>4, <1>5
<1>7. CASE A!Keep(e)
  BY <1>1, <1>6, <1>7, KeptTidy
<1>8. CASE ipc' = "done"
  BY <1>1, <1>8 DEF ApacheTidy
<1>9. QED
  BY <1>1, <1>7, <1>8

LEMMA ApacheKeptTidy ==
  ASSUME ApacheFound, ApacheTidy, A!Next
  PROVE  ApacheTidy'
<1>1. ASSUME NEW ok \in BOOLEAN, NEW X \in SUBSET A!Domains, A!Cleanup(X, ok)
      PROVE  ApacheTidy'
  BY <1>1, ApacheCleansTidy
<1>2. ASSUME NEW ok \in BOOLEAN, NEW able, A!Perform(ok, able)
      PROVE  ApacheTidy'
  BY <1>2 DEF A!Perform, A!asked, ApacheTidy
<1>3. ASSUME NEW ok \in BOOLEAN, NEW able, A!Enhance(ok, able)
      PROVE  ApacheTidy'
  BY <1>3, ApacheEnhancesTidy
<1>4. ASSUME NEW pick, NEW linkFails, NEW able, A!Deploy(pick, linkFails, able)
      PROVE  ApacheTidy'
  BY <1>4, ApacheDeploysTidy
<1>5. ASSUME NEW ok \in BOOLEAN, NEW again \in BOOLEAN,
             A!RestartDeployed(ok, again) \/ A!RestartEnhanced(ok, again)
      PROVE  ApacheTidy'
  <2>1. /\ ipc \in {"deployed", "enhance"} /\ orig' = orig
        /\ \/ ipc' \in {"done", "enhance"} /\ conf' = conf /\ mem' = mem /\ modules' = modules
           \/ ipc' = "done"
    BY <1>5 DEF A!RestartDeployed, A!RestartEnhanced, A!Rollback, A!asked, A!files, A!know
  <2>2. QED
    BY <2>1 DEF ApacheTidy
<1>6. CASE A!SaveDeployed
  BY <1>6 DEF A!SaveDeployed, A!Finalize, A!know, A!asked, ApacheTidy
<1>7. CASE A!Invalid
  BY <1>7 DEF A!Invalid, A!asked, ApacheTidy
<1>8. CASE A!Over
  BY <1>8 DEF A!Over, A!vars, ApacheTidy
<1>9. QED
  BY <1>1, <1>2, <1>3, <1>4, <1>5, <1>6, <1>7, <1>8 DEF A!Next, A!Client

LoadInv == (Nginx => NginxGood) /\ (Apache => ApacheTidy)

\* The server would load what is on disk, at every step of a run: nginx from any
\* configuration that loads and in which no block speaks plain text at port 443 (the
\* client would add the address once more, with `ssl`), Apache from any in which no
\* host waits for a module, whatever the certificate is for, whichever host the user
\* picks and whatever fails.
THEOREM AlwaysLoads ==
  ASSUME Complete, SslAt443
  PROVE  MCSpec => []ServerLoads
<1>1. MCInit => LoadInv
  BY NginxBeginsGood, ApacheBeginsTidy DEF MCInit, LoadInv, Nginx, Apache
<1>2. InstallersInv /\ InstallersInv' /\ LoadInv /\ [MCNext]_mcVars => LoadInv'
  <2> SUFFICES ASSUME InstallersInv, InstallersInv', LoadInv, [MCNext]_mcVars
               PROVE  LoadInv'
    OBVIOUS
  <2>1. CASE NginxNext
    BY <2>1, NginxKeptGood DEF NginxNext, InstallersInv, LoadInv, Nginx, Apache
  <2>2. CASE ApacheNext
    BY <2>2, ApacheKeptTidy DEF ApacheNext, InstallersInv, LoadInv, Nginx, Apache
  <2>3. CASE AccountsNext
    BY <2>3 DEF AccountsNext, LoadInv, Nginx, Apache
  <2>4. CASE UNCHANGED mcVars
    BY <2>4 DEF mcVars, shared, nginx, apache, LoadInv, Nginx, Apache, NginxGood, ApacheTidy
  <2>5. QED
    BY <2>1, <2>2, <2>3, <2>4 DEF MCNext
<1>3. LoadInv => ServerLoads
  <2>1. ASSUME NginxGood
        PROVE  G!Loadable
    <3>1. Good(conf)
      BY <2>1 DEF NginxGood
    <3>2. IsSeq(conf) /\ \A p \in {80, 443} : \A i, j \in DOMAIN conf :
            Defaults(conf[i], p) # {} /\ Defaults(conf[j], p) # {} => i = j
      BY <3>1 DEF Good
    <3>3. \A i \in DOMAIN conf : Once(conf[i].addrs)
      BY <3>1 DEF Good, Tame
    <3>4. QED
      BY <3>2, <3>3, GoodIsValid DEF G!Loadable
  <2>2. ASSUME ApacheTidy
        PROVE  A!Loadable
    BY <2>2 DEF ApacheTidy, A!Loadable, A!Loads, Tidy
  <2>3. QED
    BY <2>1, <2>2 DEF LoadInv, ServerLoads, Nginx, Apache
<1>4. QED
  BY <1>1, <1>2, <1>3, InstallersInvariant, PTL DEF MCSpec
-----------------------------------------------------------------------------
(***************************************************************************)
(* No redirect leads to itself.  Of Apache: every rule the plugin writes   *)
(* goes into a host at port 80, because the host it goes into is found by  *)
(* its port or is the one that the ssl host was copied from.               *)
(***************************************************************************)

StraightHost(v) ==
  IsHost(v) /\ v.port \in {80, 443} /\ (v.port = 443 => ~ v.toHttps /\ v.rule = "none")
Straight(c) == IsSeq(c) /\ \A i \in DOMAIN c : StraightHost(c[i])

\* Where the hosts made in this run come from, and which host each domain has.
Origins(c, made) ==
  /\ made \in Seq(Nat) /\ Len(made) = Len(c)
  /\ \A i \in DOMAIN c : made[i] # 0 => made[i] \in DOMAIN c /\ c[made[i]].port = 80
Settled(c, chosen) == chosen \in [A!Domains -> {0} \cup DOMAIN c]
StraightEdit(e) ==
  IsChange(e) /\ Straight(e.cfg) /\ Origins(e.cfg, e.ancestor) /\ Settled(e.cfg, e.assoc)

\* What an edit leaves as it is: everything but what needs no host.
Beside(e, f) == f.cfg = e.cfg /\ f.ancestor = e.ancestor /\ f.assoc = e.assoc

LEMMA StraightBeside ==
  ASSUME NEW e, StraightEdit(e), NEW f, IsChange(f), Beside(e, f)
  PROVE  StraightEdit(f)
BY DEF StraightEdit, Beside

LEMMA Replacing ==
  ASSUME NEW c, IsSeq(c), NEW i, NEW v
  PROVE  LET d == [c EXCEPT ![i] = v]
         IN /\ IsSeq(d) /\ DOMAIN d = DOMAIN c /\ Len(d) = Len(c)
            /\ \A j \in DOMAIN c : d[j] = IF j = i THEN v ELSE c[j]
<1> DEFINE d == [c EXCEPT ![i] = v]
           S == Elements(c) \cup {v}
<1>1. c \in Seq(Elements(c))
  BY DEF IsSeq
<1>2. c \in Seq(S) /\ v \in S
  BY <1>1
<1> HIDE DEF S
<1>3. d \in Seq(S) /\ Len(d) = Len(c)
  <2>1. c \in [1..Len(c) -> S] /\ Len(c) \in Nat
    BY <1>2
  <2>2. d \in [1..Len(c) -> S]
    BY <1>2, <2>1
  <2>3. QED
    BY <2>1, <2>2
<1>4. DOMAIN d = DOMAIN c /\ \A j \in DOMAIN c : d[j] = IF j = i THEN v ELSE c[j]
  OBVIOUS
<1>5. IsSeq(d)
  BY <1>3, SeqOf
<1>6. QED
  BY <1>3, <1>4, <1>5

LEMMA Adding ==
  ASSUME NEW c, IsSeq(c), NEW v
  PROVE  LET d == Append(c, v)
         IN /\ IsSeq(d) /\ Len(c) \in Nat /\ DOMAIN c = 1..Len(c)
            /\ DOMAIN d = 1..(Len(c) + 1) /\ Len(d) = Len(c) + 1
            /\ \A j \in DOMAIN c : d[j] = c[j]
            /\ d[Len(c) + 1] = v
<1> DEFINE d == Append(c, v)
           S == Elements(c) \cup {v}
<1>1. c \in Seq(Elements(c))
  BY DEF IsSeq
<1>2. c \in Seq(S) /\ v \in S
  BY <1>1
<1> HIDE DEF S
<1>3. /\ d \in Seq(S) /\ Len(d) = Len(c) + 1 /\ Len(c) \in Nat /\ DOMAIN c = 1..Len(c)
      /\ DOMAIN d = 1..(Len(c) + 1) /\ (\A j \in 1..Len(c) : d[j] = c[j]) /\ d[Len(c) + 1] = v
  BY <1>2
<1>4. IsSeq(d)
  BY <1>3, SeqOf
<1>5. QED
  BY <1>3, <1>4

\* A host changed that keeps its port, and one added.
LEMMA StraightTouched ==
  ASSUME NEW e, StraightEdit(e), NEW i, NEW v,
         i \in DOMAIN e.cfg => StraightHost(v) /\ v.port = e.cfg[i].port,
         NEW f, IsChange(f), f.cfg = [e.cfg EXCEPT ![i] = v], f.ancestor = e.ancestor, f.assoc = e.assoc
  PROVE  StraightEdit(f) /\ DOMAIN f.cfg = DOMAIN e.cfg
<1>0. IsSeq(e.cfg)
  BY DEF StraightEdit, Straight
<1>1. /\ IsSeq(f.cfg) /\ DOMAIN f.cfg = DOMAIN e.cfg /\ Len(f.cfg) = Len(e.cfg)
      /\ \A j \in DOMAIN e.cfg : f.cfg[j] = IF j = i THEN v ELSE e.cfg[j]
  <2> DEFINE c == e.cfg
             d == [c EXCEPT ![i] = v]
  <2>1. f.cfg = d
    OBVIOUS
  <2> HIDE DEF c
  <2>2. IsSeq(c)
    BY <1>0 DEF c
  <2>3. /\ IsSeq(d) /\ DOMAIN d = DOMAIN c /\ Len(d) = Len(c)
        /\ \A j \in DOMAIN c : d[j] = IF j = i THEN v ELSE c[j]
    BY <2>2, Replacing
  <2> HIDE DEF d
  <2>4. QED
    BY <2>1, <2>3 DEF c
<1>2. Straight(f.cfg)
  BY <1>1 DEF StraightEdit, Straight
<1>3. Origins(f.cfg, f.ancestor)
  BY <1>1 DEF StraightEdit, Origins
<1>4. QED
  BY <1>1, <1>2, <1>3 DEF StraightEdit, Settled

LEMMA StraightAdded ==
  ASSUME NEW e, StraightEdit(e), NEW v, StraightHost(v), NEW k \in Nat,
         k # 0 => k \in DOMAIN e.cfg /\ e.cfg[k].port = 80,
         NEW f, IsChange(f), f.cfg = Append(e.cfg, v), f.ancestor = Append(e.ancestor, k),
         f.assoc = e.assoc
  PROVE  StraightEdit(f) /\ DOMAIN e.cfg \cup {Len(e.cfg) + 1} \subseteq DOMAIN f.cfg
<1>1. /\ IsSeq(f.cfg) /\ Len(e.cfg) \in Nat /\ DOMAIN e.cfg = 1..Len(e.cfg)
      /\ DOMAIN f.cfg = 1..(Len(e.cfg) + 1) /\ Len(f.cfg) = Len(e.cfg) + 1
      /\ (\A j \in DOMAIN e.cfg : f.cfg[j] = e.cfg[j]) /\ f.cfg[Len(e.cfg) + 1] = v
  BY Adding DEF StraightEdit, Straight
<1>2. DOMAIN e.cfg \cup {Len(e.cfg) + 1} \subseteq DOMAIN f.cfg
  BY <1>1
<1>3. Straight(f.cfg)
  BY <1>1 DEF StraightEdit, Straight
<1>4. e.ancestor \in Seq(Nat) /\ Len(e.ancestor) = Len(e.cfg)
  BY DEF StraightEdit, Origins
<1>5. /\ f.ancestor \in Seq(Nat) /\ Len(f.ancestor) = Len(e.cfg) + 1
      /\ (\A j \in 1..Len(e.cfg) : f.ancestor[j] = e.ancestor[j])
      /\ f.ancestor[Len(e.cfg) + 1] = k
  BY <1>1, <1>4
<1>6. \A i \in DOMAIN f.cfg : f.ancestor[i] # 0 =>
        f.ancestor[i] \in DOMAIN e.cfg /\ e.cfg[f.ancestor[i]].port = 80
  <2>1. \A i \in 1..Len(e.cfg) : e.ancestor[i] # 0 =>
          e.ancestor[i] \in DOMAIN e.cfg /\ e.cfg[e.ancestor[i]].port = 80
    BY <1>1 DEF StraightEdit, Origins
  <2>2. ASSUME NEW i \in 1..(Len(e.cfg) + 1), f.ancestor[i] # 0
        PROVE  f.ancestor[i] \in DOMAIN e.cfg /\ e.cfg[f.ancestor[i]].port = 80
    <3>1. CASE i \in 1..Len(e.cfg)
      BY <1>5, <2>1, <2>2, <3>1
    <3>2. CASE i \notin 1..Len(e.cfg)
      <4>1. i = Len(e.cfg) + 1
        BY <1>1, <3>2
      <4>2. f.ancestor[i] = k
        BY <1>5, <4>1
      <4>3. QED
        BY <2>2, <4>2
    <3>3. QED
      BY <3>1, <3>2
  <2>3. QED
    BY <1>1, <2>2
<1>7. Origins(f.cfg, f.ancestor)
  BY <1>1, <1>2, <1>5, <1>6, SMTT(30) DEF Origins
<1>8. QED
  BY <1>2, <1>3, <1>7 DEF StraightEdit, Settled

LEMMA StraightRaised ==
  ASSUME NEW e, StraightEdit(e), NEW why
  PROVE  StraightEdit(A!Raise(e, why)) /\ Beside(e, A!Raise(e, why))
         /\ A!Raise(e, why).why = why /\ A!Raise(e, why).at = e.at
<1> DEFINE f == A!Raise(e, why)
<1>1. IsChange(f) /\ Beside(e, f) /\ f.why = why /\ f.at = e.at
  BY DEF StraightEdit, IsChange, A!Raise, Beside
<1> HIDE DEF f
<1>2. StraightEdit(f)
  BY <1>1, StraightBeside
<1>3. QED
  BY <1>1, <1>2 DEF f

LEMMA StraightModNeeded ==
  ASSUME NEW e, StraightEdit(e), NEW m
  PROVE  LET f == A!NeedMod(e, m) IN StraightEdit(f) /\ Beside(e, f) /\ f.at = e.at
<1> DEFINE g == [e EXCEPT !.mods = @ \cup {m}, !.modules = @ \cup {m}]
<1>1. IsChange(g) /\ Beside(e, g) /\ g.at = e.at
  BY DEF StraightEdit, IsChange, Beside
<1>2. Beside(e, e)
  BY DEF Beside
<1>3. A!NeedMod(e, m) = IF e.why # "ok" \/ m \in e.modules THEN e
                        ELSE IF debian /\ m \in e.able THEN g ELSE A!Raise(e, "error")
  BY DEF A!NeedMod
<1> HIDE DEF g
<1>4. StraightEdit(g)
  BY <1>1, StraightBeside
<1>5. StraightEdit(A!Raise(e, "error")) /\ Beside(e, A!Raise(e, "error")) /\ A!Raise(e, "error").at = e.at
  BY StraightRaised
<1>6. QED
  BY <1>1, <1>2, <1>3, <1>4, <1>5

\* The copy for https has no rule, and comes from a host in plain text.
LEMMA StraightCopied ==
  ASSUME NEW e, StraightEdit(e), e.at \in DOMAIN e.cfg
  PROVE  LET f == A!SslOf(e)
         IN StraightEdit(f) /\ f.at \in DOMAIN f.cfg /\ f.assoc = e.assoc /\ f.why = e.why
<1> DEFINE old == e.cfg[e.at]
           w == [old EXCEPT !.port = 443, !.enabled = ~ debian]
           v == A!SiftRewriteRules(w)
           g == A!Made(e, v)
           f == A!NewVhost(e, v)
<1>1. StraightHost(old)
  BY DEF StraightEdit, Straight
<1>2. IsHost(w) /\ w.port = 443
  BY <1>1 DEF StraightHost, IsHost
<1> HIDE DEF w
<1>3. IsHost(v) /\ v.port = 443 /\ v.toHttps = FALSE /\ v.rule = "none"
  BY <1>2 DEF IsHost, A!SiftRewriteRules
<1> HIDE DEF v, old
<1>4. StraightHost(v)
  BY <1>3 DEF StraightHost
<1>5. /\ IsChange(g) /\ g.cfg = Append(e.cfg, v) /\ g.at = Len(e.cfg) + 1 /\ g.assoc = e.assoc
      /\ g.ancestor = e.ancestor /\ g.why = e.why
  BY DEF StraightEdit, IsChange, A!Made
<1>6. f = [g EXCEPT !.ancestor = Append(@, e.at)]
  BY DEF A!NewVhost
<1> HIDE DEF g, f
<1>7. /\ IsChange(f) /\ f.cfg = Append(e.cfg, v) /\ f.at = Len(e.cfg) + 1 /\ f.assoc = e.assoc
      /\ f.ancestor = Append(e.ancestor, e.at) /\ f.why = e.why
  BY <1>5, <1>6 DEF IsChange
<1>8. e.at \in Nat
  BY DEF StraightEdit, Straight, IsSeq
<1>9. old.port # 443 => old.port = 80
  BY <1>1 DEF StraightHost
<1>10. old.port # 443 =>
         StraightEdit(f) /\ f.at \in DOMAIN f.cfg /\ f.assoc = e.assoc /\ f.why = e.why
  <2> SUFFICES ASSUME old.port # 443
               PROVE  StraightEdit(f) /\ f.at \in DOMAIN f.cfg
    BY <1>7
  <2>1. e.cfg[e.at].port = 80
    BY <1>9 DEF old
  <2>2. StraightEdit(f) /\ DOMAIN e.cfg \cup {Len(e.cfg) + 1} \subseteq DOMAIN f.cfg
    BY <1>4, <1>7, <1>8, <2>1, StraightAdded
  <2>3. QED
    BY <1>7, <2>2
<1>11. A!SslOf(e) = IF old.port = 443 THEN e ELSE f
  BY DEF A!SslOf, A!MakeVhostSsl, f, v, w, old
<1>12. QED
  BY <1>10, <1>11

LEMMA StraightAliased ==
  ASSUME NEW e, StraightEdit(e), e.at \in DOMAIN e.cfg, NEW d \in A!Domains
  PROVE  LET f == A!Alias(e, d)
         IN /\ StraightEdit(f) /\ f.assoc = [e.assoc EXCEPT ![d] = e.at] /\ e.at # 0
            /\ f.why = e.why
<1> DEFINE old == e.cfg[e.at]
           v == A!Named(old, d)
           g == [e EXCEPT !.cfg[e.at] = v]
           f == A!Alias(e, d)
<1>1. StraightHost(old)
  BY DEF StraightEdit, Straight
<1>2. v = [old EXCEPT !.names = @ \cup (IF old.wild THEN {} ELSE {d})]
  BY DEF A!Named
<1> HIDE DEF v, old
<1>3. IsHost(v) /\ v.port = old.port /\ v.toHttps = old.toHttps /\ v.rule = old.rule
  BY <1>1, <1>2 DEF StraightHost, IsHost
<1>4. StraightHost(v)
  BY <1>1, <1>3 DEF StraightHost
<1>5. /\ IsChange(g) /\ g.cfg = [e.cfg EXCEPT ![e.at] = v] /\ g.ancestor = e.ancestor
      /\ g.assoc = e.assoc
  BY DEF StraightEdit, IsChange
<1>6. /\ IsChange(f) /\ f.cfg = [e.cfg EXCEPT ![e.at] = v] /\ f.ancestor = e.ancestor
      /\ f.assoc = [e.assoc EXCEPT ![d] = e.at] /\ f.why = e.why
  BY DEF StraightEdit, IsChange, A!Alias, v, old
<1> HIDE DEF f, g
<1>7. v.port = e.cfg[e.at].port
  BY <1>3 DEF old
<1>8. StraightEdit(g) /\ DOMAIN g.cfg = DOMAIN e.cfg
  BY <1>4, <1>5, <1>7, StraightTouched
<1>9. f.cfg = g.cfg /\ f.ancestor = g.ancestor
  BY <1>5, <1>6
<1>10. Settled(f.cfg, f.assoc)
  BY <1>6, <1>8, <1>9 DEF StraightEdit, Settled
<1>11. StraightEdit(f)
  BY <1>6, <1>8, <1>9, <1>10 DEF StraightEdit
<1>12. e.at # 0
  BY DEF StraightEdit, Straight, IsSeq
<1>13. QED
  BY <1>6, <1>11, <1>12 DEF f

\* A domain that has a host keeps one, and the domain it was chosen for gets one.
WellTaken(e, f, d) ==
  /\ StraightEdit(f)
  /\ \A x \in A!Domains : e.assoc[x] # 0 => f.assoc[x] # 0
  /\ f.why = "ok" => f.assoc[d] # 0

LEMMA StraightChosen ==
  ASSUME NEW e, StraightEdit(e), NEW d \in A!Domains, NEW pick
  PROVE  WellTaken(e, A!ChooseVhost(e, d, pick), d)
<1>1. ASSUME NEW at
      PROVE  LET f == [e EXCEPT !.at = at] IN StraightEdit(f) /\ f.at = at /\ Beside(e, f)
  <2> DEFINE f == [e EXCEPT !.at = at]
  <2>1. IsChange(f) /\ Beside(e, f) /\ f.at = at
    BY DEF StraightEdit, IsChange, Beside
  <2> HIDE DEF f
  <2>2. StraightEdit(f) /\ f.at = at /\ Beside(e, f)
    BY <2>1, StraightBeside
  <2>3. QED
    BY <2>2 DEF f
<1>2. ASSUME NEW best, NEW at
      PROVE  WellTaken(e, A!Take(e, d, best, at), d)
  <2> DEFINE f == [e EXCEPT !.at = at]
             g == A!SslOf(f)
             h == A!Alias(g, d)
  <2>1. StraightEdit(f) /\ f.at = at /\ Beside(e, f)
    BY <1>1
  <2>2. A!Take(e, d, best, at) = A!Raise(e, "error")
        \/ (at \in DOMAIN e.cfg /\ A!Take(e, d, best, at) = h)
    BY DEF A!Take
  <2> HIDE DEF f
  <2>3. at \in DOMAIN e.cfg => StraightEdit(g) /\ g.at \in DOMAIN g.cfg /\ g.assoc = e.assoc
    BY <2>1, StraightCopied DEF Beside
  <2> HIDE DEF g
  <2>4. at \in DOMAIN e.cfg => StraightEdit(h) /\ h.assoc = [e.assoc EXCEPT ![d] = g.at] /\ g.at # 0
    BY <2>3, StraightAliased
  <2> HIDE DEF h
  <2>5. at \in DOMAIN e.cfg => WellTaken(e, h, d)
    <3>1. e.assoc \in [A!Domains -> {0} \cup DOMAIN e.cfg]
      BY DEF StraightEdit, Settled
    <3>2. QED
      BY <2>4, <3>1 DEF WellTaken
  <2>6. WellTaken(e, A!Raise(e, "error"), d)
    BY StraightRaised DEF WellTaken, Beside
  <2>7. QED
    BY <2>2, <2>5, <2>6
<1>3. e.assoc[d] # 0 => WellTaken(e, [e EXCEPT !.at = e.assoc[d]], d)
  BY <1>1 DEF WellTaken, Beside
<1>4. QED
  BY <1>2, <1>3 DEF A!ChooseVhost, A!BestOr

\* What follows the choice: it keeps the hosts straight and the choices made.
Kept(e, f) == StraightEdit(f) /\ f.assoc = e.assoc

LEMMA StraightListened ==
  ASSUME NEW e, StraightEdit(e), NEW p
  PROVE  StraightEdit(A!Listening(e, p)) /\ Beside(e, A!Listening(e, p))
<1> DEFINE f == A!Listening(e, p)
<1>1. IsChange(f) /\ Beside(e, f)
  BY DEF StraightEdit, IsChange, A!Listening, Beside
<1> HIDE DEF f
<1>2. StraightEdit(f) /\ Beside(e, f)
  BY <1>1, StraightBeside
<1>3. QED
  BY <1>2 DEF f

\* A host changed in what is neither its port nor a rule.
LEMMA StraightSame ==
  ASSUME NEW v, StraightHost(v), NEW w, IsHost(w), w.port = v.port, w.toHttps = v.toHttps, w.rule = v.rule
  PROVE  StraightHost(w)
BY DEF StraightHost

LEMMA StraightDeployed ==
  ASSUME NEW e, StraightEdit(e), NEW linkFails
  PROVE  Kept(e, A!DeployTo(e, linkFails))
<1> DEFINE h == A!HttpsMods(e)
           g == A!PrepareServerHttps(e)
<1>1. StraightEdit(h) /\ h.assoc = e.assoc
  <2>1. StraightEdit(A!NeedMod(e, "socache")) /\ Beside(e, A!NeedMod(e, "socache"))
    BY StraightModNeeded
  <2> DEFINE k == A!NeedMod(e, "socache")
  <2> HIDE DEF k
  <2>2. StraightEdit(k) /\ k.assoc = e.assoc
    BY <2>1 DEF k, Beside
  <2>3. StraightEdit(A!NeedMod(k, "ssl")) /\ A!NeedMod(k, "ssl").assoc = e.assoc
    BY <2>2, StraightModNeeded DEF Beside
  <2>4. QED
    BY <2>3 DEF A!HttpsMods, k
<1>2. StraightEdit(g) /\ g.assoc = e.assoc
  BY <1>1, StraightListened DEF A!PrepareServerHttps, Beside
<1> HIDE DEF h, g
<1> DEFINE v == [g.cfg[g.at] EXCEPT !.cert = "le"]
           f == [g EXCEPT !.cfg[g.at].cert = "le"]
           w == [f.cfg[f.at] EXCEPT !.enabled = TRUE]
           k == [f EXCEPT !.cfg[f.at].enabled = TRUE]
<1>3. StraightEdit(f) /\ f.assoc = e.assoc
  <2>1. ASSUME g.at \in DOMAIN g.cfg
        PROVE  StraightHost(v) /\ v.port = g.cfg[g.at].port
    <3> DEFINE old == g.cfg[g.at]
    <3>1. StraightHost(old)
      BY <1>2, <2>1 DEF StraightEdit, Straight
    <3>2. v = [old EXCEPT !.cert = "le"]
      OBVIOUS
    <3> HIDE DEF old, v
    <3>3. IsHost(v) /\ v.port = old.port /\ v.toHttps = old.toHttps /\ v.rule = old.rule
      BY <3>1, <3>2 DEF StraightHost, IsHost
    <3>4. QED
      BY <3>1, <3>3, StraightSame DEF old
  <2>2. /\ IsChange(f) /\ f.cfg = [g.cfg EXCEPT ![g.at] = v] /\ f.ancestor = g.ancestor
        /\ f.assoc = g.assoc
    BY <1>2 DEF StraightEdit, IsChange
  <2> HIDE DEF f, v
  <2>3. QED
    BY <1>2, <2>1, <2>2, StraightTouched
<1> HIDE DEF f
<1>4. StraightEdit(k) /\ k.assoc = e.assoc
  <2>1. ASSUME f.at \in DOMAIN f.cfg
        PROVE  StraightHost(w) /\ w.port = f.cfg[f.at].port
    <3> DEFINE old == f.cfg[f.at]
    <3>1. StraightHost(old)
      BY <1>3, <2>1 DEF StraightEdit, Straight
    <3>2. w = [old EXCEPT !.enabled = TRUE]
      OBVIOUS
    <3> HIDE DEF old, w
    <3>3. IsHost(w) /\ w.port = old.port /\ w.toHttps = old.toHttps /\ w.rule = old.rule
      BY <3>1, <3>2 DEF StraightHost, IsHost
    <3>4. QED
      BY <3>1, <3>3, StraightSame DEF old
  <2>2. /\ IsChange(k) /\ k.cfg = [f.cfg EXCEPT ![f.at] = w] /\ k.ancestor = f.ancestor
        /\ k.assoc = f.assoc
    BY <1>3 DEF StraightEdit, IsChange
  <2> HIDE DEF k, w
  <2>3. QED
    BY <1>3, <2>1, <2>2, StraightTouched
<1>5. \A x \in {g, f}, why \in {"error", "registered"} :
        StraightEdit(A!Raise(x, why)) /\ A!Raise(x, why).assoc = e.assoc
  BY <1>2, <1>3, StraightRaised DEF Beside
<1>6. A!DeployTo(e, linkFails) \in {e, A!Raise(g, "error"), A!Raise(f, "registered"), k}
  BY DEF A!DeployTo, A!GiveCert, A!EnableSite, g, f
<1> HIDE DEF k
<1>7. QED
  BY <1>4, <1>5, <1>6 DEF Kept

\* An enhancement that sets a flag of the host chosen.
LEMMA StraightHeader ==
  ASSUME NEW e, StraightEdit(e)
  PROVE  Kept(e, A!SetHttpHeader(e))
<1> DEFINE f == A!NeedMod(e, "headers")
           v == [f.cfg[f.at] EXCEPT !.header = TRUE]
           g == [f EXCEPT !.cfg[f.at].header = TRUE]
<1>1. StraightEdit(f) /\ f.assoc = e.assoc
  BY StraightModNeeded DEF Beside
<1>2. A!SetHttpHeader(e) \in {f, A!Raise(f, "present"), g}
  BY DEF A!SetHttpHeader
<1> HIDE DEF f
<1>3. StraightEdit(A!Raise(f, "present")) /\ A!Raise(f, "present").assoc = e.assoc
  BY <1>1, StraightRaised DEF Beside
<1>4. StraightEdit(g) /\ g.assoc = e.assoc
  <2>1. ASSUME f.at \in DOMAIN f.cfg
        PROVE  StraightHost(v) /\ v.port = f.cfg[f.at].port
    <3> DEFINE old == f.cfg[f.at]
    <3>1. StraightHost(old)
      BY <1>1, <2>1 DEF StraightEdit, Straight
    <3>2. v = [old EXCEPT !.header = TRUE]
      OBVIOUS
    <3> HIDE DEF old, v
    <3>3. IsHost(v) /\ v.port = old.port /\ v.toHttps = old.toHttps /\ v.rule = old.rule
      BY <3>1, <3>2 DEF StraightHost, IsHost
    <3>4. QED
      BY <3>1, <3>3, StraightSame DEF old
  <2>2. /\ IsChange(g) /\ g.cfg = [f.cfg EXCEPT ![f.at] = v] /\ g.ancestor = f.ancestor
        /\ g.assoc = f.assoc
    BY <1>1 DEF StraightEdit, IsChange
  <2> HIDE DEF g, v
  <2>3. QED
    BY <1>1, <2>1, <2>2, StraightTouched
<1> HIDE DEF g
<1>5. QED
  BY <1>1, <1>2, <1>3, <1>4 DEF Kept

LEMMA StraightStapling ==
  ASSUME NEW e, StraightEdit(e), NEW version
  PROVE  Kept(e, A!EnableStapling(e, version))
<1> DEFINE f == A!NeedMod(e, "socache")
           v == [f.cfg[f.at] EXCEPT !.stapled = TRUE]
           g == [f EXCEPT !.cfg[f.at].stapled = TRUE]
<1>1. StraightEdit(f) /\ f.assoc = e.assoc
  BY StraightModNeeded DEF Beside
<1>2. A!EnableStapling(e, version) \in {f, A!Raise(e, "error"), g}
  BY DEF A!EnableStapling
<1> HIDE DEF f
<1>3. StraightEdit(A!Raise(e, "error")) /\ A!Raise(e, "error").assoc = e.assoc
  BY StraightRaised DEF Beside
<1>4. StraightEdit(g) /\ g.assoc = e.assoc
  <2>1. ASSUME f.at \in DOMAIN f.cfg
        PROVE  StraightHost(v) /\ v.port = f.cfg[f.at].port
    <3> DEFINE old == f.cfg[f.at]
    <3>1. StraightHost(old)
      BY <1>1, <2>1 DEF StraightEdit, Straight
    <3>2. v = [old EXCEPT !.stapled = TRUE]
      OBVIOUS
    <3> HIDE DEF old, v
    <3>3. IsHost(v) /\ v.port = old.port /\ v.toHttps = old.toHttps /\ v.rule = old.rule
      BY <3>1, <3>2 DEF StraightHost, IsHost
    <3>4. QED
      BY <3>1, <3>3, StraightSame DEF old
  <2>2. /\ IsChange(g) /\ g.cfg = [f.cfg EXCEPT ![f.at] = v] /\ g.ancestor = f.ancestor
        /\ g.assoc = f.assoc
    BY <1>1 DEF StraightEdit, IsChange
  <2> HIDE DEF g, v
  <2>3. QED
    BY <1>1, <2>1, <2>2, StraightTouched
<1> HIDE DEF g
<1>5. QED
  BY <1>1, <1>2, <1>3, <1>4 DEF Kept

LEMMA ApacheLeast ==
  ASSUME NEW S \in SUBSET Nat, S # {}
  PROVE  A!Min(S) \in S
BY LeastIn DEF A!Min, G!Min

\* The host the rule goes into is in plain text.
LEMMA PlainHost ==
  ASSUME NEW e, StraightEdit(e), e.at \in DOMAIN e.cfg, A!GetHttpVhost(e) # 0
  PROVE  A!GetHttpVhost(e) \in DOMAIN e.cfg /\ e.cfg[A!GetHttpVhost(e)].port = 80
<1> DEFINE plain == {i \in DOMAIN e.cfg : e.cfg[i].port = 80}
           same == {i \in plain : A!SameServer(e.cfg[i], e.cfg[e.at])}
           generic == {i \in plain : A!Generic(e.cfg[i])}
<1>1. DOMAIN e.cfg \in SUBSET Nat
  BY DEF StraightEdit, Straight, IsSeq
<1>2. same # {} => A!Min(same) \in plain
  <2>1. same \in SUBSET Nat
    BY <1>1
  <2> HIDE DEF same
  <2>2. same # {} => A!Min(same) \in same
    BY <2>1, ApacheLeast
  <2>3. QED
    BY <2>2 DEF same
<1>3. generic # {} => A!Min(generic) \in plain
  <2>1. generic \in SUBSET Nat
    BY <1>1
  <2> HIDE DEF generic
  <2>2. generic # {} => A!Min(generic) \in generic
    BY <2>1, ApacheLeast
  <2>3. QED
    BY <2>2 DEF generic
<1>4. e.ancestor[e.at] # 0 => e.ancestor[e.at] \in plain
  BY DEF StraightEdit, Origins
<1>5. A!GetHttpVhost(e) = IF e.ancestor[e.at] # 0 THEN e.ancestor[e.at]
        ELSE IF same # {} THEN A!Min(same) ELSE IF generic # {} THEN A!Min(generic) ELSE 0
  BY DEF A!GetHttpVhost
<1> HIDE DEF same, generic
<1>6. A!GetHttpVhost(e) \in plain
  BY <1>2, <1>3, <1>4, <1>5
<1>7. QED
  BY <1>6

LEMMA StraightRedirect ==
  ASSUME NEW e, StraightEdit(e), e.at \in DOMAIN e.cfg
  PROVE  Kept(e, A!EnableRedirect(e))
<1> DEFINE f == A!NeedMod(e, "rewrite")
           at == A!GetHttpVhost(f)
<1>1. StraightEdit(f) /\ f.assoc = e.assoc /\ f.at \in DOMAIN f.cfg
  BY StraightModNeeded DEF Beside
<1>2. \/ A!EnableRedirect(e) \in {f, A!Raise(f, "error"), A!CreateRedirectVhost(f)}
      \/ at # 0 /\ A!EnableRedirect(e) \in {A!RuleFound(f, at), A!Rule(f, at)}
  BY DEF A!EnableRedirect
<1> HIDE DEF f
<1>3. at # 0 => at \in DOMAIN f.cfg /\ f.cfg[at].port = 80
  BY <1>1, PlainHost
<1> HIDE DEF at
<1>4. StraightEdit(A!Raise(f, "error")) /\ A!Raise(f, "error").assoc = e.assoc
  BY <1>1, StraightRaised DEF Beside
<1>5. Kept(e, A!CreateRedirectVhost(f))
  <2> DEFINE v == f.cfg[f.at]
             w == A!Vhost(v.names, 80)
             new == [w EXCEPT !.rule = "certbot", !.enabled = ~ debian, !.wild = v.wild]
             g == A!CreateRedirectVhost(f)
  <2>1. IsHost(w) /\ w.port = 80
    BY DEF IsHost, A!Vhost
  <2>2. g = [f EXCEPT !.cfg = Append(@, new), !.ancestor = Append(@, 0),
                      !.enhanced = @ \cup {Len(f.cfg) + 1}]
    BY DEF A!CreateRedirectVhost
  <2> HIDE DEF w, g
  <2>3. IsHost(new) /\ new.port = 80
    BY <2>1 DEF IsHost
  <2> HIDE DEF new
  <2>4. StraightHost(new)
    BY <2>3 DEF StraightHost
  <2>5. /\ IsChange(g) /\ g.cfg = Append(f.cfg, new) /\ g.ancestor = Append(f.ancestor, 0)
        /\ g.assoc = f.assoc
    BY <1>1, <2>2 DEF StraightEdit, IsChange
  <2>6. StraightEdit(g)
    BY <1>1, <2>4, <2>5, StraightAdded
  <2>7. QED
    BY <1>1, <2>5, <2>6 DEF Kept, g
<1>6. ASSUME at # 0, NEW v, IsHost(v), v.port = 80, NEW g, IsChange(g),
             g.cfg = [f.cfg EXCEPT ![at] = v], g.ancestor = f.ancestor, g.assoc = f.assoc
      PROVE  Kept(e, g)
  <2>1. StraightHost(v)
    BY <1>6 DEF StraightHost
  <2>2. StraightEdit(g)
    BY <1>1, <1>3, <1>6, <2>1, StraightTouched
  <2>3. QED
    BY <1>1, <1>6, <2>2 DEF Kept
<1>7. ASSUME at # 0
      PROVE  IsHost(f.cfg[at]) /\ f.cfg[at].port = 80
  BY <1>1, <1>3, <1>7 DEF StraightEdit, Straight, StraightHost
<1>8. ASSUME at # 0
      PROVE  Kept(e, A!RuleFound(f, at))
  <2> DEFINE old == f.cfg[at]
             v == [old EXCEPT !.rule = "certbot"]
             g == [f EXCEPT !.cfg[at].rule = "certbot"]
  <2>1. IsHost(old) /\ old.port = 80
    BY <1>7, <1>8
  <2>2. /\ IsChange(g) /\ g.cfg = [f.cfg EXCEPT ![at] = v] /\ g.ancestor = f.ancestor
        /\ g.assoc = f.assoc
    BY <1>1 DEF StraightEdit, IsChange
  <2>3. A!RuleFound(f, at) = A!Raise(g, "present")
    BY DEF A!RuleFound
  <2> HIDE DEF g, old
  <2>4. IsHost(v) /\ v.port = 80
    BY <2>1 DEF IsHost
  <2> HIDE DEF v
  <2>5. Kept(e, g)
    BY <1>6, <1>8, <2>2, <2>4
  <2>6. QED
    BY <2>3, <2>5, StraightRaised DEF Kept, Beside
<1>9. ASSUME at # 0
      PROVE  Kept(e, A!Rule(f, at))
  <2> DEFINE g == A!Rule(f, at)
             names == f.cfg[f.at].names
             old == f.cfg[at]
             v == [old EXCEPT !.rule = "certbot", !.conds = names]
  <2>1. g = [f EXCEPT !.cfg[at].rule = "certbot", !.cfg[at].conds = names, !.enhanced = @ \cup {at}]
    BY DEF A!Rule
  <2> HIDE DEF g, names
  <2>2. /\ IsChange(g) /\ g.cfg = [f.cfg EXCEPT ![at] = v] /\ g.ancestor = f.ancestor
        /\ g.assoc = f.assoc
    BY <1>1, <2>1 DEF StraightEdit, IsChange
  <2>3. IsHost(old) /\ old.port = 80
    BY <1>7, <1>9
  <2> HIDE DEF old
  <2>4. IsHost(v) /\ v.port = 80
    BY <2>3 DEF IsHost
  <2> HIDE DEF v
  <2>5. Kept(e, g)
    BY <1>6, <1>9, <2>2, <2>4
  <2>6. QED
    BY <2>5 DEF g
<1>10. Kept(e, f) /\ Kept(e, A!Raise(f, "error"))
  BY <1>1, <1>4 DEF Kept
<1>11. QED
  BY <1>2, <1>5, <1>8, <1>9, <1>10
-----------------------------------------------------------------------------
\* The hosts of a challenge answer, and change nothing else.
LEMMA ChallengedStraight ==
  ASSUME NEW e, IsChange(e), Straight(e.cfg), NEW d
  PROVE  LET f == A!Vhosts(e, d)
         IN /\ IsChange(f) /\ Straight(f.cfg)
            /\ chal = "http" => DOMAIN f.cfg = DOMAIN e.cfg /\ Len(f.cfg) = Len(e.cfg)
<1> DEFINE OK(f) == /\ IsChange(f) /\ Straight(f.cfg)
                    /\ chal = "http" => DOMAIN f.cfg = DOMAIN e.cfg /\ Len(f.cfg) = Len(e.cfg)
<1>1. OK(e)
  OBVIOUS
<1>2. OK(A!Raise(e, "error"))
  <2> DEFINE f == A!Raise(e, "error")
  <2>1. IsChange(f) /\ f.cfg = e.cfg
    BY DEF IsChange, A!Raise
  <2> HIDE DEF f
  <2>2. OK(f)
    BY <2>1
  <2>3. QED
    BY <2>2 DEF f
<1>3. ASSUME NEW answering
      PROVE  LET c == [i \in DOMAIN e.cfg |-> [e.cfg[i] EXCEPT !.answers = answering[i]]]
             IN OK([e EXCEPT !.cfg = c])
  <2> DEFINE c == [i \in DOMAIN e.cfg |-> [e.cfg[i] EXCEPT !.answers = answering[i]]]
             f == [e EXCEPT !.cfg = c]
  <2>1. DOMAIN e.cfg = 1..Len(e.cfg) /\ Len(e.cfg) \in Nat
    BY DEF Straight, IsSeq
  <2>2. ASSUME NEW i \in DOMAIN e.cfg
        PROVE  StraightHost(c[i])
    <3> DEFINE old == e.cfg[i]
               new == [old EXCEPT !.answers = answering[i]]
    <3>1. StraightHost(old)
      BY DEF Straight
    <3> HIDE DEF old
    <3>2. IsHost(new) /\ new.port = old.port /\ new.toHttps = old.toHttps /\ new.rule = old.rule
      BY <3>1 DEF StraightHost, IsHost
    <3> HIDE DEF new
    <3>3. StraightHost(new)
      BY <3>1, <3>2, StraightSame
    <3>4. c[i] = new
      BY DEF new, old
    <3>5. QED
      BY <3>3, <3>4
  <2>3. IsSeq(c) /\ DOMAIN c = DOMAIN e.cfg /\ Len(c) = Len(e.cfg)
    <3> DEFINE S == {c[i] : i \in DOMAIN c}
    <3>1. DOMAIN c = DOMAIN e.cfg
      OBVIOUS
    <3>2. c \in [1..Len(e.cfg) -> S]
      BY <2>1
    <3> HIDE DEF S, c
    <3>3. c \in Seq(S) /\ Len(c) = Len(e.cfg)
      BY <2>1, <3>2
    <3>4. QED
      BY <3>1, <3>3, SeqOf
  <2>4. IsChange(f) /\ f.cfg = c
    BY DEF IsChange
  <2> HIDE DEF f, c
  <2>5. OK(f)
    BY <2>2, <2>3, <2>4 DEF Straight
  <2>6. QED
    BY <2>5 DEF f, c
<1>4. chal = "http" => OK(A!Vhosts(e, d))
  <2> DEFINE plain == {i \in DOMAIN e.cfg : e.cfg[i].port = 80}
             best == A!FindBestVhost(e.cfg, plain, d)
             answering == [i \in DOMAIN e.cfg |-> e.cfg[i].answers \/ (i = best \/ (best = 0 /\ i \in plain))]
             c == [i \in DOMAIN e.cfg |-> [e.cfg[i] EXCEPT !.answers = answering[i]]]
             h == [i \in DOMAIN e.cfg |->
                    [e.cfg[i] EXCEPT !.answers = @ \/ (i = best \/ (best = 0 /\ i \in plain))]]
  <2>1. A!HttpVhost(e, d) \in {A!Raise(e, "error"), [e EXCEPT !.cfg = h]}
    BY DEF A!HttpVhost
  <2>2. h = c
    OBVIOUS
  <2> HIDE DEF answering
  <2>3. OK([e EXCEPT !.cfg = c])
    BY <1>3
  <2> HIDE DEF h, c
  <2>4. OK(A!HttpVhost(e, d))
    BY <1>2, <2>1, <2>2, <2>3
  <2>5. QED
    BY <2>4 DEF A!Vhosts
<1>5. chal # "http" => OK(A!Vhosts(e, d))
  <2> DEFINE w == A!Vhost({A!Zdomain[d]}, 443)
             v == [w EXCEPT !.cert = "challenge"]
             f == [e EXCEPT !.cfg = Append(@, v)]
  <2>1. IsHost(w) /\ w.port = 443 /\ w.toHttps = FALSE /\ w.rule = "none"
    BY DEF IsHost, A!Vhost
  <2> HIDE DEF w
  <2>2. IsHost(v) /\ v.port = w.port /\ v.toHttps = w.toHttps /\ v.rule = w.rule
    BY <2>1 DEF IsHost
  <2>3. A!SniVhost(e, d) \in {e, f}
    BY DEF A!SniVhost, w
  <2> HIDE DEF v
  <2>4. StraightHost(v)
    BY <2>1, <2>2 DEF StraightHost
  <2>5. IsChange(f) /\ f.cfg = Append(e.cfg, v)
    BY DEF IsChange
  <2>6. /\ IsSeq(Append(e.cfg, v)) /\ Len(e.cfg) \in Nat /\ DOMAIN e.cfg = 1..Len(e.cfg)
        /\ DOMAIN Append(e.cfg, v) = 1..(Len(e.cfg) + 1)
        /\ \A j \in DOMAIN e.cfg : Append(e.cfg, v)[j] = e.cfg[j]
        /\ Append(e.cfg, v)[Len(e.cfg) + 1] = v
    BY Adding DEF Straight
  <2>7. Straight(Append(e.cfg, v))
    BY <2>4, <2>6 DEF Straight
  <2> HIDE DEF f
  <2>8. QED
    BY <1>1, <2>3, <2>5, <2>7 DEF A!Vhosts
<1>6. QED
  BY <1>4, <1>5

\* Checkpoints.
StraightStack(s) == IsSeq(s) /\ \A i \in DOMAIN s : Straight(s[i].cfg)

LEMMA StraightFinalized ==
  ASSUME NEW s, StraightStack(s), NEW B, \A x, y \in B : x = y, \A x \in B : Straight(x.cfg)
  PROVE  StraightStack(s \o A!SetToSeq(B))
<1> DEFINE t == s \o A!SetToSeq(B)
<1>1. CASE B = {}
  <2>1. A!SetToSeq(B) = <<>>
    BY <1>1, Sequenced
  <2>2. s \o <<>> = s
    BY DEF StraightStack, IsSeq
  <2>3. t = s
    BY <2>1, <2>2
  <2> HIDE DEF t
  <2>4. StraightStack(t)
    BY <2>3
  <2>5. QED
    BY <2>4 DEF t
<1>2. CASE B # {}
  <2>1. PICK x : B = {x}
    BY <1>2
  <2>2. IsSeq(s)
    BY DEF StraightStack
  <2>3. t = Append(s, x)
    <3>1. t = s \o <<x>>
      BY <2>1, Sequenced
    <3>2. QED
      BY <2>2, <3>1, Appended
  <2>4. /\ IsSeq(Append(s, x)) /\ Len(s) \in Nat /\ DOMAIN s = 1..Len(s)
        /\ DOMAIN Append(s, x) = 1..(Len(s) + 1) /\ (\A j \in DOMAIN s : Append(s, x)[j] = s[j])
        /\ Append(s, x)[Len(s) + 1] = x
    BY <2>2, Adding
  <2>5. StraightStack(Append(s, x))
    BY <2>1, <2>4 DEF StraightStack
  <2> HIDE DEF t
  <2>6. StraightStack(t)
    BY <2>3, <2>5
  <2>7. QED
    BY <2>6 DEF t
<1>3. QED
  BY <1>1, <1>2

LEMMA StraightUnstacked ==
  ASSUME NEW s, StraightStack(s), s # <<>>
  PROVE  Straight(s[Len(s)].cfg) /\ StraightStack(SubSeq(s, 1, Len(s) - 1))
<1> DEFINE S == Elements(s)
           f == SubSeq(s, 1, Len(s) - 1)
<1>1. s \in Seq(S)
  BY DEF StraightStack, IsSeq
<1>2. \A x \in S : Straight(x.cfg)
  BY DEF Elements, StraightStack
<1> HIDE DEF S
<1>3. f \in Seq(S) /\ Len(s) \in Nat \ {0}
  BY <1>1, Shorter
<1>4. s[Len(s)] \in S
  BY <1>1, <1>3
<1> HIDE DEF f
<1>5. \A i \in DOMAIN f : f[i] \in S
  BY <1>3
<1>6. StraightStack(f)
  BY <1>2, <1>3, <1>5, SeqOf DEF StraightStack
<1>7. QED
  BY <1>2, <1>4, <1>6 DEF f

\* Every server there is, in service, on disk or in a checkpoint, is straight; in
\* memory the plugin knows where each ssl host it made came from, and each domain
\* it deployed to has a host.
Known(c, made, chosen) == Straight(c) /\ Origins(c, made) /\ Settled(c, chosen)
AllChosen == \A d \in Elements(doms) : assoc[d] # 0
ApacheStraight ==
  /\ orig \in A!ServerState /\ Straight(orig.cfg)
  /\ Straight(conf.cfg) /\ Straight(running.cfg) /\ (\A s \in temp \cup prog : Straight(s.cfg))
  /\ StraightStack(stack)
  /\ ipc # "done" => Known(mem.cfg, ancestor, assoc)
  /\ ipc \in {"perform", "raised", "challenged"} =>
       /\ Len(ancestor) = Len(orig.cfg) /\ (\A i \in DOMAIN ancestor : ancestor[i] = 0)
       /\ \A d \in A!Domains : assoc[d] = 0
  /\ ipc = "deploy" => /\ Elements(todo) \subseteq Elements(doms)
                       /\ \A d \in Elements(doms) : d \in Elements(todo) \/ assoc[d] # 0
  /\ ipc \in {"deployed", "enhance"} => AllChosen
  /\ ipc = "enhance" => \A i \in DOMAIN todo : todo[i][2] \in Elements(doms)

LEMMA ApacheBeginsStraight ==
  ASSUME NoLoopYet, A!Init
  PROVE  ApacheStraight
<1>1. /\ orig \in Servers /\ mem = A!Tree(orig) /\ conf = orig /\ running = orig
      /\ assoc = [d \in A!Domains |-> 0] /\ ancestor = [i \in DOMAIN orig.cfg |-> 0]
      /\ temp = {} /\ prog = {} /\ stack = <<>> /\ ipc = "perform"
  BY DEF A!Init
<1>2. orig \in A!ServerState
  BY <1>1, ServersAssumption
<1>3. orig.cfg \in Seq(A!VirtualHost)
  BY <1>2 DEF A!ServerState
<1>4. IsSeq(orig.cfg) /\ DOMAIN orig.cfg = 1..Len(orig.cfg) /\ Len(orig.cfg) \in Nat
  BY <1>3, SeqOf
<1>5. ASSUME NEW i \in DOMAIN orig.cfg
      PROVE  StraightHost(orig.cfg[i])
  <2>1. orig.cfg[i] \in A!VirtualHost
    BY <1>3
  <2>2. QED
    BY <1>1, <2>1 DEF StraightHost, IsHost, A!VirtualHost, NoLoopYet
<1>6. Straight(orig.cfg)
  BY <1>4, <1>5 DEF Straight
<1>7. /\ ancestor \in Seq(Nat) /\ Len(ancestor) = Len(orig.cfg) /\ DOMAIN ancestor = DOMAIN orig.cfg
      /\ \A i \in DOMAIN ancestor : ancestor[i] = 0
  BY <1>1, <1>4
<1>8. Origins(orig.cfg, ancestor) /\ Settled(orig.cfg, assoc)
  BY <1>1, <1>7 DEF Origins, Settled
<1>9. mem.cfg = orig.cfg
  BY <1>1 DEF A!Tree
<1>10. StraightStack(<<>>)
  <2>1. <<>> \in Seq({}) /\ DOMAIN <<>> = {}
    OBVIOUS
  <2>2. QED
    BY <2>1, SeqOf DEF StraightStack
<1>11. QED
  BY <1>1, <1>2, <1>6, <1>7, <1>8, <1>9, <1>10 DEF ApacheStraight, Known

LEMMA ApachePerformsStraight ==
  ASSUME ApacheFound, ApacheStraight, NEW ok \in BOOLEAN, NEW able, A!Perform(ok, able)
  PROVE  ApacheStraight'
<1> DEFINE p == A!Prepared(able)
           x == A!InTurn(p)
<1>1. ipc = "perform" /\ conf = orig /\ prog = {} /\ stack = <<>>
  BY DEF A!Perform, ApacheFound
<1>2. IsChange(p) /\ Straight(p.cfg) /\ p.cfg = mem.cfg
  <2> DEFINE e == A!Edit(able)
  <2>1. IsChange(e) /\ e.cfg = mem.cfg /\ e.ancestor = ancestor /\ e.assoc = assoc
    BY DEF IsChange, A!Edit
  <2> HIDE DEF e
  <2>2. StraightEdit(e)
    BY <1>1, <2>1 DEF ApacheStraight, Known, StraightEdit
  <2> DEFINE k1 == A!NeedMod(e, "rewrite")
             k2 == A!NeedMod(e, "socache")
             k3 == A!NeedMod(k2, "ssl")
  <2>3. StraightEdit(k1) /\ k1.cfg = mem.cfg /\ StraightEdit(k2) /\ k2.cfg = mem.cfg
    BY <2>1, <2>2, StraightModNeeded DEF Beside
  <2> HIDE DEF k1, k2
  <2>4. StraightEdit(k3) /\ k3.cfg = mem.cfg
    BY <2>3, StraightModNeeded DEF Beside
  <2>5. A!Edit(able) = e
    BY DEF e
  <2>6. p = A!Listening(e, 80) \/ p = A!Listening(k1, 80) \/ p = A!Listening(e, 443) \/ p = A!Listening(k3, 443)
    BY <2>5 DEF A!Prepared, A!PrepareHttp, A!PrepareServerHttps, A!HttpsMods, k1, k2
  <2> HIDE DEF k3, p
  <2>7. \A y \in {e, k1, k3} : StraightEdit(y) /\ y.cfg = mem.cfg
    BY <2>1, <2>2, <2>3, <2>4
  <2>8. ASSUME NEW y \in {e, k1, k3}, NEW n
        PROVE  StraightEdit(A!Listening(y, n)) /\ A!Listening(y, n).cfg = mem.cfg
    BY <2>7, StraightListened DEF Beside
  <2>9. StraightEdit(p) /\ p.cfg = mem.cfg
    BY <2>6, <2>8
  <2>10. QED
    BY <2>9 DEF StraightEdit
<1> DEFINE y == A!Vhosts(p, doms[1])
           z == A!Vhosts(y, doms[2])
<1>3. /\ IsChange(y) /\ Straight(y.cfg)
      /\ chal = "http" => DOMAIN y.cfg = DOMAIN mem.cfg /\ Len(y.cfg) = Len(mem.cfg)
  <2> HIDE DEF p
  <2>1. QED
    BY <1>2, ChallengedStraight
<1> HIDE DEF y
<1>4. /\ IsChange(z) /\ Straight(z.cfg)
      /\ chal = "http" => DOMAIN z.cfg = DOMAIN mem.cfg /\ Len(z.cfg) = Len(mem.cfg)
  BY <1>3, ChallengedStraight
<1>5. x \in {y, z}
  BY DEF A!InTurn, y
<1> HIDE DEF z, x, p
<1>6. /\ IsChange(x) /\ Straight(x.cfg)
      /\ chal = "http" => DOMAIN x.cfg = DOMAIN mem.cfg /\ Len(x.cfg) = Len(mem.cfg)
  BY <1>3, <1>4, <1>5
<1>7. /\ \/ /\ conf' = A!Server(x)
            /\ mem' = IF chal = "http" THEN A!Tree(x) ELSE [mem EXCEPT !.listen = x.listen]
            /\ running' \in {conf', running}
         \/ conf' = [conf EXCEPT !.mods = x.mods] /\ mem' = mem /\ running' = running
      /\ temp' = {conf} /\ prog' = prog /\ stack' = stack /\ todo' = todo /\ ancestor' = ancestor
      /\ assoc' = assoc /\ ipc' \in {"challenged", "raised"} /\ orig' = orig /\ doms' = doms
  BY DEF A!Perform, A!PutInPlace, A!Restart, A!asked, x, p
<1>8. A!Server(x).cfg = x.cfg /\ A!Tree(x).cfg = x.cfg
  BY DEF A!Server, A!Tree
<1>9. [conf EXCEPT !.mods = x.mods].cfg = conf.cfg
  BY <1>1 DEF ApacheStraight, A!ServerState
<1>10. Straight(conf'.cfg) /\ Straight(running'.cfg)
  BY <1>6, <1>7, <1>8, <1>9 DEF ApacheStraight
<1>11. /\ Straight(mem.cfg) /\ Origins(mem.cfg, ancestor) /\ Settled(mem.cfg, assoc)
       /\ Len(ancestor) = Len(orig.cfg) /\ (\A i \in DOMAIN ancestor : ancestor[i] = 0)
       /\ \A d \in A!Domains : assoc[d] = 0
  BY <1>1 DEF ApacheStraight, Known
<1>12. mem'.cfg = mem.cfg \/ (chal = "http" /\ mem'.cfg = x.cfg)
  <2>1. [mem EXCEPT !.listen = x.listen].cfg = mem.cfg
    BY <1>1 DEF ApacheFound
  <2>2. QED
    BY <1>7, <1>8, <2>1
<1>13. Origins(x.cfg, ancestor) \/ chal # "http"
  BY <1>6, <1>11 DEF Origins
<1>14. Known(mem'.cfg, ancestor, assoc)
  BY <1>6, <1>11, <1>12, <1>13 DEF Known, Settled
<1>15. QED
  BY <1>1, <1>7, <1>10, <1>11, <1>14 DEF ApacheStraight

LEMMA ApacheCleansStraight ==
  ASSUME ApacheFound, ApacheStraight, NEW ok \in BOOLEAN, NEW X \in SUBSET A!Domains, A!Cleanup(X, ok)
  PROVE  ApacheStraight'
<1>1. /\ ipc \in {"raised", "challenged"} /\ orig' = orig /\ doms' = doms /\ todo' = todo
      /\ prog' = prog /\ stack' = stack /\ assoc' = assoc /\ ancestor' = ancestor
      /\ ipc' \in {"deploy", "challenged", "done"}
      /\ \/ /\ conf' \in temp /\ temp' = {} /\ mem' = A!Tree(conf')
            /\ running' \in {conf', running}
         \/ conf' = conf /\ temp' = temp /\ mem' = mem /\ running' = running
  BY DEF A!Cleanup, A!asked, A!Restart
<1>2. temp = {orig} /\ todo = doms
  BY <1>1 DEF ApacheFound
<1>3. A!Tree(conf').cfg = conf'.cfg
  BY DEF A!Tree
<1>4. /\ Known(mem.cfg, ancestor, assoc) /\ Straight(orig.cfg) /\ Len(ancestor) = Len(orig.cfg)
      /\ (\A i \in DOMAIN ancestor : ancestor[i] = 0) /\ \A d \in A!Domains : assoc[d] = 0
  BY <1>1 DEF ApacheStraight
<1>5. Known(orig.cfg, ancestor, assoc)
  <2>1. DOMAIN ancestor = DOMAIN orig.cfg
    BY <1>4 DEF Known, Origins, Straight, IsSeq
  <2>2. Origins(orig.cfg, ancestor)
    BY <1>4, <2>1 DEF Known, Origins
  <2>3. Settled(orig.cfg, assoc)
    BY <1>4 DEF Known, Settled
  <2>4. QED
    BY <1>4, <2>2, <2>3 DEF Known
<1>6. Known(mem'.cfg, ancestor, assoc)
  BY <1>1, <1>2, <1>3, <1>4, <1>5
<1>7. Straight(conf'.cfg) /\ Straight(running'.cfg) /\ (\A s \in temp' \cup prog' : Straight(s.cfg))
  BY <1>1, <1>2, <1>4 DEF ApacheStraight
<1>8. QED
  BY <1>1, <1>2, <1>4, <1>6, <1>7 DEF ApacheStraight

\* An edit is saved.
LEMMA KeptStraight ==
  ASSUME NEW e, StraightEdit(e), A!Keep(e)
  PROVE  /\ Straight(conf'.cfg) /\ Known(mem'.cfg, ancestor', assoc')
         /\ assoc' = e.assoc
<1>1. A!Server(e).cfg = e.cfg
  BY DEF A!Server
<1>2. conf' = A!Server(e) /\ mem'.cfg = e.cfg /\ assoc' = e.assoc /\ ancestor' = e.ancestor
  BY DEF A!Keep, A!Tree, A!Server
<1>3. QED
  BY <1>1, <1>2 DEF StraightEdit, Known

\* The edit that an action starts with.
LEMMA StraightBegun ==
  ASSUME Known(mem.cfg, ancestor, assoc), NEW able
  PROVE  /\ StraightEdit(A!Edit(able)) /\ A!Edit(able).assoc = assoc
         /\ \A i : LET f == [A!Edit(able) EXCEPT !.at = i]
                   IN StraightEdit(f) /\ f.at = i /\ f.assoc = assoc /\ f.cfg = mem.cfg
<1> DEFINE e == A!Edit(able)
<1>1. IsChange(e) /\ e.cfg = mem.cfg /\ e.ancestor = ancestor /\ e.assoc = assoc
  BY DEF IsChange, A!Edit
<1> HIDE DEF e
<1>2. StraightEdit(e)
  BY <1>1 DEF StraightEdit, Known
<1>3. ASSUME NEW i
      PROVE  LET f == [e EXCEPT !.at = i]
             IN StraightEdit(f) /\ f.at = i /\ f.assoc = assoc /\ f.cfg = mem.cfg
  <2> DEFINE f == [e EXCEPT !.at = i]
  <2>1. IsChange(f) /\ Beside(e, f) /\ f.at = i
    BY <1>1 DEF IsChange, Beside
  <2> HIDE DEF f
  <2>2. StraightEdit(f) /\ f.at = i /\ f.assoc = assoc /\ f.cfg = mem.cfg
    BY <1>1, <1>2, <2>1, StraightBeside DEF Beside
  <2>3. QED
    BY <2>2 DEF f
<1>4. QED
  BY <1>1, <1>2, <1>3 DEF e

LEMMA HeadAndTail ==
  ASSUME NEW s, IsSeq(s), s # <<>>
  PROVE  /\ Head(s) \in Elements(s) /\ Elements(s) = {Head(s)} \cup Elements(Tail(s))
         /\ \A i \in DOMAIN Tail(s) : i + 1 \in DOMAIN s /\ Tail(s)[i] = s[i + 1]
         /\ 1 \in DOMAIN s /\ Head(s) = s[1]
<1> DEFINE S == Elements(s)
           t == Tail(s)
<1>1. s \in Seq(S)
  BY DEF IsSeq
<1> HIDE DEF S
<1>2. Len(s) \in Nat \ {0} /\ DOMAIN s = 1..Len(s) /\ Head(s) = s[1] /\ t \in Seq(S) /\ Len(t) = Len(s) - 1
  BY <1>1, Shorter
<1>3. DOMAIN t = 1..(Len(s) - 1) /\ \A i \in 1..(Len(s) - 1) : t[i] = s[i + 1]
  BY <1>1, <1>2
<1> HIDE DEF t
<1>4. \A i \in DOMAIN t : i + 1 \in DOMAIN s /\ t[i] = s[i + 1]
  BY <1>2, <1>3
<1>5. 1 \in DOMAIN s /\ Head(s) = s[1]
  BY <1>2
<1>6. Elements(t) \subseteq Elements(s)
  BY <1>4 DEF Elements
<1>7. ASSUME NEW i \in DOMAIN s, i # 1
      PROVE  s[i] \in Elements(t)
  <2>1. i - 1 \in DOMAIN t /\ s[i] = t[i - 1]
    BY <1>2, <1>3, <1>7
  <2>2. QED
    BY <2>1 DEF Elements
<1>8. Elements(s) = {Head(s)} \cup Elements(t)
  BY <1>5, <1>6, <1>7 DEF Elements
<1>9. QED
  BY <1>4, <1>5, <1>8 DEF t, Elements

LEMMA ApacheDeploysStraight ==
  ASSUME ApacheFound, ApacheStraight, NEW pick, NEW linkFails, NEW able, A!Deploy(pick, linkFails, able)
  PROVE  ApacheStraight'
<1> DEFINE d == Head(todo)
           f == A!ChooseVhost(A!Edit(able), d, pick)
           e == A!DeployCert(A!Edit(able), d, pick, linkFails)
<1>1. /\ ipc = "deploy" /\ todo # <<>> /\ orig' = orig /\ doms' = doms /\ running' = running
      /\ temp' = temp /\ stack' = stack
      /\ \/ /\ e.why = "ok" /\ A!Keep(e) /\ A!Checkpoint(e) /\ todo' = Tail(todo) /\ ipc' = ipc
         \/ /\ ipc' = "done" /\ prog' = {}
            /\ conf' = A!Removed(IF prog = {} THEN conf ELSE CHOOSE s \in prog : TRUE, e.why)
  BY DEF A!Deploy, A!SaveOrRecover, A!asked, A!Recover, A!RecoverDisk
<1>2. /\ IsSeq(todo) /\ doms \in {<<"a">>, <<"a", "b">>} /\ Elements(todo) \subseteq Elements(doms)
      /\ \A x \in Elements(doms) : x \in Elements(todo) \/ assoc[x] # 0
      /\ Known(mem.cfg, ancestor, assoc)
  BY <1>1 DEF ApacheFound, ApacheStraight
<1>3. Elements(todo) = {d} \cup Elements(Tail(todo))
  BY <1>1, <1>2, HeadAndTail
<1>4. Elements(doms) \subseteq A!Domains /\ d \in A!Domains
  <2>1. Elements(doms) \subseteq A!Domains
    BY <1>2, Asked DEF A!Domains
  <2>2. QED
    BY <1>2, <1>3, <2>1
<1>5. StraightEdit(A!Edit(able)) /\ A!Edit(able).assoc = assoc
  BY <1>2, StraightBegun
<1> HIDE DEF d
<1>6. WellTaken(A!Edit(able), f, d)
  BY <1>4, <1>5, StraightChosen
<1> HIDE DEF f
<1>7. e = A!DeployTo(f, linkFails)
  BY DEF A!DeployCert, f
<1>8. StraightEdit(e) /\ e.assoc = f.assoc
  BY <1>6, <1>7, StraightDeployed DEF WellTaken, Kept
<1>9. e.why = "ok" => f.why = "ok"
  BY <1>7 DEF A!DeployTo
<1> HIDE DEF e
<1>10. CASE e.why = "ok" /\ A!Keep(e) /\ A!Checkpoint(e) /\ todo' = Tail(todo) /\ ipc' = ipc
  <2>1. Straight(conf'.cfg) /\ Known(mem'.cfg, ancestor', assoc') /\ assoc' = e.assoc
    BY <1>8, <1>10, KeptStraight
  <2>2. \A x \in Elements(doms) : x \in Elements(todo') \/ assoc'[x] # 0
    BY <1>2, <1>3, <1>4, <1>5, <1>6, <1>8, <1>9, <1>10, <2>1 DEF WellTaken
  <2>3. prog' \subseteq prog \cup {conf}
    BY <1>10 DEF A!Checkpoint, A!Begun
  <2>4. Elements(todo') \subseteq Elements(doms)
    BY <1>2, <1>3, <1>10
  <2>5. QED
    BY <1>1, <1>10, <2>1, <2>2, <2>3, <2>4 DEF ApacheStraight
<1>11. CASE /\ ipc' = "done" /\ prog' = {}
            /\ conf' = A!Removed(IF prog = {} THEN conf ELSE CHOOSE s \in prog : TRUE, e.why)
  <2>1. Straight(conf'.cfg)
    <3>1. prog # {} => (CHOOSE s \in prog : TRUE) \in prog
      OBVIOUS
    <3>2. QED
      BY <1>11, <3>1 DEF ApacheStraight, A!Removed
  <2>2. QED
    BY <1>1, <1>11, <2>1 DEF ApacheStraight
<1>12. QED
  BY <1>1, <1>10, <1>11

LEMMA ApacheEnhancesStraight ==
  ASSUME ApacheFound, ApacheStraight, NEW version \in BOOLEAN, NEW able, A!Enhance(version, able)
  PROVE  ApacheStraight'
<1> DEFINE d == Head(todo)[2]
           e0 == [A!Edit(able) EXCEPT !.at = assoc[d]]
           kind == Head(todo)[1]
           e == A!Supported(e0, kind, version)
<1>1. /\ ipc = "enhance" /\ todo # <<>> /\ orig' = orig /\ doms' = doms /\ running' = running
      /\ temp' = temp
      /\ \/ /\ A!Keep(e) /\ todo' = Tail(todo) /\ ipc' = ipc
            /\ \/ prog' = {} /\ stack' = stack \o A!SetToSeq(A!Begun(e))
               \/ prog' = A!Begun(e) /\ stack' = stack
         \/ /\ ipc' = "done" /\ prog' = {} /\ stack' = stack
            /\ conf' = A!Removed(IF prog = {} THEN conf ELSE CHOOSE s \in prog : TRUE, e.why)
  BY DEF A!Enhance, A!KeepOrRecover, A!asked, A!Recover, A!RecoverDisk
<1>2. /\ IsSeq(todo) /\ doms \in {<<"a">>, <<"a", "b">>} /\ AllChosen
      /\ (\A i \in DOMAIN todo : todo[i][2] \in Elements(doms))
      /\ Known(mem.cfg, ancestor, assoc) /\ (\A x, y \in prog : x = y)
  BY <1>1 DEF ApacheFound, ApacheStraight
<1>3. d \in Elements(doms) /\ \A i \in DOMAIN Tail(todo) : Tail(todo)[i][2] \in Elements(doms)
  BY <1>1, <1>2, HeadAndTail
<1>4. d \in A!Domains
  BY <1>2, <1>3, Asked DEF A!Domains
<1>5. assoc[d] \in DOMAIN mem.cfg
  BY <1>2, <1>3, <1>4 DEF AllChosen, Known, Settled
<1> HIDE DEF d
<1>6. StraightEdit(e0) /\ e0.at \in DOMAIN e0.cfg /\ e0.assoc = assoc
  BY <1>2, <1>5, StraightBegun
<1> HIDE DEF e0, kind
<1>7. /\ Kept(e0, A!SetHttpHeader(e0)) /\ Kept(e0, A!EnableRedirect(e0))
      /\ Kept(e0, A!EnableStapling(e0, version))
  BY <1>6, StraightHeader, StraightRedirect, StraightStapling
<1>8. e \in {A!SetHttpHeader(e0), A!EnableRedirect(e0), A!EnableStapling(e0, version)}
  BY DEF A!Supported
<1> HIDE DEF e
<1>9. StraightEdit(e) /\ e.assoc = assoc
  BY <1>6, <1>7, <1>8 DEF Kept
<1> DEFINE B == A!Begun(e)
<1>10. (\A x, y \in B : x = y) /\ \A s \in B : Straight(s.cfg)
  BY <1>2 DEF A!Begun, ApacheStraight
<1>11. B = A!Begun(e)
  OBVIOUS
<1> HIDE DEF B
<1>12. CASE /\ A!Keep(e) /\ todo' = Tail(todo) /\ ipc' = ipc
            /\ \/ prog' = {} /\ stack' = stack \o A!SetToSeq(B)
               \/ prog' = B /\ stack' = stack
  <2>1. Straight(conf'.cfg) /\ Known(mem'.cfg, ancestor', assoc') /\ assoc' = assoc
    BY <1>9, <1>12, KeptStraight
  <2>2. StraightStack(stack')
    BY <1>10, <1>12, StraightFinalized DEF ApacheStraight
  <2>3. \A s \in prog' : Straight(s.cfg)
    BY <1>10, <1>12
  <2>4. AllChosen'
    BY <1>1, <1>2, <2>1 DEF AllChosen
  <2>5. QED
    BY <1>1, <1>3, <1>12, <2>1, <2>2, <2>3, <2>4 DEF ApacheStraight
<1>13. CASE /\ ipc' = "done" /\ prog' = {} /\ stack' = stack
            /\ conf' = A!Removed(IF prog = {} THEN conf ELSE CHOOSE s \in prog : TRUE, e.why)
  <2>1. Straight(conf'.cfg)
    <3>1. prog # {} => (CHOOSE s \in prog : TRUE) \in prog
      OBVIOUS
    <3>2. QED
      BY <1>13, <3>1 DEF ApacheStraight, A!Removed
  <2>2. QED
    BY <1>1, <1>13, <2>1 DEF ApacheStraight
<1>14. QED
  BY <1>1, <1>11, <1>12, <1>13

LEMMA ApacheSavesStraight ==
  ASSUME ApacheFound, ApacheStraight, A!SaveDeployed
  PROVE  ApacheStraight'
<1>1. /\ ipc = "deploy" /\ todo = <<>> /\ ipc' = "deployed" /\ prog' = {}
      /\ stack' = stack \o A!SetToSeq(prog) /\ orig' = orig /\ doms' = doms /\ running' = running
      /\ temp' = temp /\ conf' = conf /\ mem' = mem /\ ancestor' = ancestor /\ assoc' = assoc
  BY DEF A!SaveDeployed, A!Finalize, A!know, A!asked
<1>2. prog \in {{}, {orig}}
  BY <1>1 DEF ApacheFound
<1>3. StraightStack(stack')
  BY <1>1, <1>2, StraightFinalized DEF ApacheStraight
<1>4. Elements(todo) = {}
  BY <1>1 DEF Elements
<1>5. AllChosen'
  BY <1>1, <1>4 DEF ApacheStraight, AllChosen
<1>6. QED
  BY <1>1, <1>3, <1>5 DEF ApacheStraight

LEMMA ApacheRollsBackStraight ==
  ASSUME ApacheStraight, NEW ok \in BOOLEAN, A!Rollback(ok), temp' = temp, orig' = orig
  PROVE  ApacheStraight'
<1>1. /\ IF stack = <<>> THEN conf' = conf /\ stack' = stack
         ELSE conf' = stack[Len(stack)] /\ stack' = SubSeq(stack, 1, Len(stack) - 1)
      /\ running' \in {conf', running} /\ prog' = {} /\ ipc' = "done"
  BY DEF A!Rollback, A!Last, A!Front, A!Restart
<1>2. Straight(conf'.cfg) /\ StraightStack(stack')
  BY <1>1, StraightUnstacked DEF ApacheStraight
<1>3. QED
  BY <1>1, <1>2 DEF ApacheStraight

LEMMA ApacheRestartsStraight ==
  ASSUME ApacheFound, ApacheStraight, NEW ok \in BOOLEAN, NEW again \in BOOLEAN,
         A!RestartDeployed(ok, again) \/ A!RestartEnhanced(ok, again)
  PROVE  ApacheStraight'
<1> DEFINE steps == [i \in 1..(Len(enh) * Len(doms)) |->
                       <<enh[((i - 1) \div Len(doms)) + 1], doms[((i - 1) % Len(doms)) + 1]>>]
<1>1. /\ ipc \in {"deployed", "enhance"} /\ orig' = orig /\ doms' = doms /\ temp' = temp
      /\ \/ /\ running' = conf /\ conf' = conf /\ prog' = prog /\ stack' = stack /\ mem' = mem
            /\ ancestor' = ancestor /\ assoc' = assoc
            /\ ipc' = "done" \/ (ipc' = "enhance" /\ ipc = "deployed" /\ todo' = steps)
         \/ A!Rollback(again)
  BY DEF A!RestartDeployed, A!RestartEnhanced, A!asked, A!files, A!know, A!Restart
<1>2. CASE A!Rollback(again)
  BY <1>1, <1>2, ApacheRollsBackStraight
<1>3. CASE /\ running' = conf /\ conf' = conf /\ prog' = prog /\ stack' = stack /\ mem' = mem
           /\ ancestor' = ancestor /\ assoc' = assoc
           /\ ipc' = "done" \/ (ipc' = "enhance" /\ ipc = "deployed" /\ todo' = steps)
  <2>1. \A i \in DOMAIN steps : steps[i][2] \in Elements(doms)
    <3>1. IsSeq(enh) /\ doms \in {<<"a">>, <<"a", "b">>}
      BY DEF ApacheFound
    <3>2. Len(doms) \in {1, 2} /\ DOMAIN doms = 1..Len(doms)
      BY <3>1, Asked
    <3>3. Len(enh) \in Nat
      BY <3>1 DEF IsSeq
    <3>4. Len(enh) * Len(doms) \in Nat
      <4>1. CASE Len(doms) = 1
        BY <3>3, <4>1
      <4>2. CASE Len(doms) = 2
        BY <3>3, <4>2
      <4>3. QED
        BY <3>2, <4>1, <4>2
    <3>5. ASSUME NEW i \in 1..(Len(enh) * Len(doms))
          PROVE  doms[((i - 1) % Len(doms)) + 1] \in Elements(doms)
      <4>1. ((i - 1) % Len(doms)) + 1 \in 1..Len(doms)
        <5>1. i - 1 \in Nat
          BY <3>4
        <5>2. CASE Len(doms) = 1
          BY <5>1, <5>2
        <5>3. CASE Len(doms) = 2
          BY <5>1, <5>3
        <5>4. QED
          BY <3>2, <5>2, <5>3
      <4>2. QED
        BY <3>2, <4>1 DEF Elements
    <3>6. QED
      BY <3>5
  <2> HIDE DEF steps
  <2>2. ipc' = "enhance" => AllChosen'
    BY <1>1, <1>3 DEF ApacheStraight, AllChosen
  <2>3. ipc' # "done" => Known(mem'.cfg, ancestor', assoc')
    BY <1>1, <1>3 DEF ApacheStraight
  <2>4. QED
    BY <1>1, <1>3, <2>1, <2>2, <2>3 DEF ApacheStraight
<1>4. QED
  BY <1>1, <1>2, <1>3

LEMMA ApacheKeptStraight ==
  ASSUME ApacheFound, ApacheStraight, A!Next
  PROVE  ApacheStraight'
<1>1. ASSUME NEW ok \in BOOLEAN, NEW X \in SUBSET A!Domains, A!Cleanup(X, ok)
      PROVE  ApacheStraight'
  BY <1>1, ApacheCleansStraight
<1>2. ASSUME NEW ok \in BOOLEAN, NEW able, A!Perform(ok, able) \/ A!Enhance(ok, able)
      PROVE  ApacheStraight'
  BY <1>2, ApachePerformsStraight, ApacheEnhancesStraight
<1>3. ASSUME NEW pick, NEW linkFails, NEW able, A!Deploy(pick, linkFails, able)
      PROVE  ApacheStraight'
  BY <1>3, ApacheDeploysStraight
<1>4. ASSUME NEW ok \in BOOLEAN, NEW again \in BOOLEAN,
             A!RestartDeployed(ok, again) \/ A!RestartEnhanced(ok, again)
      PROVE  ApacheStraight'
  BY <1>4, ApacheRestartsStraight
<1>5. CASE A!Invalid
  BY <1>5 DEF A!Invalid, A!asked, A!files, ApacheStraight
<1>6. CASE A!Over
  BY <1>6 DEF A!Over, A!vars, ApacheStraight, AllChosen
<1>7. QED
  BY <1>1, <1>2, <1>3, <1>4, <1>5, <1>6, ApacheSavesStraight DEF A!Next, A!Client

LEMMA ApacheNoLoop ==
  ASSUME ApacheStraight
  PROVE  A!LoopFree
<1>1. ASSUME NEW s, Straight(s.cfg), NEW d
      PROVE  LET i == A!Serve(s, 443, d) IN i # 0 => ~ A!Redirects(s.cfg[i], d)
  <2> DEFINE at == {i \in DOMAIN s.cfg : /\ s.cfg[i].enabled /\ s.cfg[i].port = 443 /\ 443 \in s.listen
                                         /\ 443 = 443 => "ssl" \in s.mods}
             named == {i \in at : A!Matches(s.cfg[i], d)}
             i == A!Serve(s, 443, d)
  <2>1. at \in SUBSET Nat /\ named \in SUBSET Nat
    BY <1>1 DEF Straight, IsSeq
  <2>2. i = IF named # {} THEN A!Min(named) ELSE IF at # {} THEN A!Min(at) ELSE 0
    BY DEF A!Serve
  <2>3. \A j \in at : s.cfg[j].port = 443 /\ j \in DOMAIN s.cfg
    OBVIOUS
  <2>4. named \subseteq at
    OBVIOUS
  <2> HIDE DEF at, named, i
  <2>5. i # 0 => i \in at
    BY <2>1, <2>2, <2>4, ApacheLeast
  <2>6. i # 0 => ~ A!Redirects(s.cfg[i], d)
    BY <1>1, <2>3, <2>5 DEF Straight, StraightHost, A!Redirects
  <2>7. QED
    BY <2>6 DEF i
<1>2. QED
  BY <1>1 DEF A!LoopFree, ApacheStraight
-----------------------------------------------------------------------------
(***************************************************************************)
(* And of nginx: no redirect leads to itself, and no page is lost.  Only   *)
(* the kind of name counts by which a block is found for a domain, in the  *)
(* choice of a block by the plugin as in the answer to a request.          *)
(***************************************************************************)

\* What a name may match, the strongest first.
Matches == {<<0, 1>>, <<1, 2>>, <<1, 1>>, <<2, 1>>, <<3, 1>>, <<4, 0>>}

LEMMA MatchOf ==
  ASSUME NEW h, NEW n
  PROVE  /\ G!Match(h, n) \in Matches
         /\ G!Match(h, n)[1] < 4 <=> n = h \/ n \in DOMAIN G!Wild
         /\ n = h => G!Match(h, n) = <<0, 1>>
         /\ n # h /\ n \notin DOMAIN G!Wild => G!Match(h, n) = <<4, 0>>
<1>1. DOMAIN G!Wild = {"*.long", "*.short", "end.*", "~regex"}
  BY DEF G!Wild
<1>2. n \in DOMAIN G!Wild => G!Wild[n] \in {<<1, 2>>, <<1, 1>>, <<2, 1>>, <<3, 1>>}
  BY DEF G!Wild
<1>3. /\ <<0, 1>>[1] = 0 /\ <<1, 2>>[1] = 1 /\ <<1, 1>>[1] = 1 /\ <<2, 1>>[1] = 2
      /\ <<3, 1>>[1] = 3 /\ <<4, 0>>[1] = 4
  OBVIOUS
<1>4. G!Match(h, n) = IF n = h THEN <<0, 1>> ELSE IF n \in DOMAIN G!Wild THEN G!Wild[n] ELSE <<4, 0>>
  BY DEF G!Match
<1>5. CASE n = h
  BY <1>3, <1>4, <1>5 DEF Matches
<1>6. CASE n # h /\ n \in DOMAIN G!Wild
  <2>1. G!Match(h, n) \in {<<1, 2>>, <<1, 1>>, <<2, 1>>, <<3, 1>>}
    BY <1>2, <1>4, <1>6
  <2>2. G!Match(h, n)[1] < 4
    BY <1>3, <2>1
  <2>3. QED
    BY <1>6, <2>1, <2>2 DEF Matches
<1>7. CASE n # h /\ n \notin DOMAIN G!Wild
  BY <1>3, <1>4, <1>7 DEF Matches
<1>8. QED
  BY <1>5, <1>6, <1>7

\* Of some matches one is beaten by no other.
LEMMA Unbeaten ==
  ASSUME NEW S \in SUBSET Matches, S # {}
  PROVE  \E x \in S : \A y \in S : ~ G!Beats(y, x)
<1>1. /\ \A x \in Matches : ~ G!Beats(x, <<0, 1>>)
      /\ \A x \in Matches \ {<<0, 1>>} : ~ G!Beats(x, <<1, 2>>)
      /\ \A x \in Matches \ {<<0, 1>>, <<1, 2>>} : ~ G!Beats(x, <<1, 1>>)
      /\ \A x \in Matches \ {<<0, 1>>, <<1, 2>>, <<1, 1>>} : ~ G!Beats(x, <<2, 1>>)
      /\ \A x \in {<<3, 1>>, <<4, 0>>} : ~ G!Beats(x, <<3, 1>>)
      /\ ~ G!Beats(<<4, 0>>, <<4, 0>>)
  BY DEF G!Beats, Matches
<1>2. CASE <<0, 1>> \in S
  BY <1>1, <1>2
<1>3. CASE <<0, 1>> \notin S /\ <<1, 2>> \in S
  BY <1>1, <1>3
<1>4. CASE <<0, 1>> \notin S /\ <<1, 2>> \notin S /\ <<1, 1>> \in S
  BY <1>1, <1>4
<1>5. CASE <<0, 1>> \notin S /\ <<1, 2>> \notin S /\ <<1, 1>> \notin S /\ <<2, 1>> \in S
  BY <1>1, <1>5
<1>6. CASE S \subseteq {<<3, 1>>, <<4, 0>>} /\ <<3, 1>> \in S
  BY <1>1, <1>6
<1>7. CASE S = {<<4, 0>>}
  BY <1>1, <1>7
<1>8. QED
  BY <1>2, <1>3, <1>4, <1>5, <1>6, <1>7 DEF Matches

\* The kind of the best match, and its length.
LEMMA Best ==
  ASSUME NEW h, NEW names
  PROVE  LET S == {<<4, 0>>} \cup {G!Match(h, n) : n \in names}
             x == G!BestMatch(h, names)
         IN x \in S /\ S \subseteq Matches /\ \A y \in S : ~ G!Beats(y, x)
<1> DEFINE S == {<<4, 0>>} \cup {G!Match(h, n) : n \in names}
<1>1. S \in SUBSET Matches /\ S # {}
  BY MatchOf DEF Matches
<1>2. G!BestMatch(h, names) = G!Strongest(S)
  BY DEF G!BestMatch
<1> HIDE DEF S
<1>3. \E x \in S : \A y \in S : ~ G!Beats(y, x)
  BY <1>1, Unbeaten
<1>4. G!Strongest(S) \in S /\ \A y \in S : ~ G!Beats(y, G!Strongest(S))
  BY <1>3 DEF G!Strongest
<1>5. QED
  BY <1>1, <1>2, <1>4 DEF S

LEMMA Fields ==
  ASSUME NEW x \in Matches
  PROVE  x[1] \in 0..4 /\ x[2] \in 0..2 /\ x = <<x[1], x[2]>>
BY DEF Matches

LEMMA KindOf ==
  ASSUME NEW h, NEW names
  PROVE  /\ G!BestMatch(h, names) \in Matches /\ G!BestMatch(h, names)[1] \in 0..4
         /\ G!BestMatch(h, names)[1] < 4 <=> \E n \in names : n = h \/ n \in DOMAIN G!Wild
         /\ h \in names => G!BestMatch(h, names)[1] = 0
         /\ \A d : d # h /\ d \notin DOMAIN G!Wild =>
              G!BestMatch(h, names \cup {d}) = G!BestMatch(h, names)
<1> DEFINE S == {<<4, 0>>} \cup {G!Match(h, n) : n \in names}
           x == G!BestMatch(h, names)
<1>1. x \in S /\ S \subseteq Matches /\ \A y \in S : ~ G!Beats(y, x)
  BY Best
<1> HIDE DEF x
<1>2. x[1] \in 0..4 /\ \A y \in S : y[1] \in 0..4 /\ ~ (y[1] < x[1])
  BY <1>1, Fields DEF G!Beats
<1>3. ASSUME x[1] < 4
      PROVE  \E n \in names : n = h \/ n \in DOMAIN G!Wild
  <2>1. <<4, 0>>[1] = 4
    OBVIOUS
  <2>2. PICK n \in names : x = G!Match(h, n)
    BY <1>1, <1>3, <2>1
  <2>3. QED
    BY <1>3, <2>2, MatchOf
<1>4. ASSUME NEW n \in names, n = h \/ n \in DOMAIN G!Wild
      PROVE  x[1] < 4
  <2>1. G!Match(h, n) \in S /\ G!Match(h, n)[1] < 4
    BY <1>4, MatchOf
  <2>2. QED
    BY <1>2, <2>1
<1>5. ASSUME h \in names
      PROVE  x[1] = 0
  <2>1. G!Match(h, h) \in S /\ G!Match(h, h) = <<0, 1>>
    BY <1>5, MatchOf
  <2>2. <<0, 1>> \in S /\ <<0, 1>>[1] = 0
    BY <2>1
  <2>3. QED
    BY <1>2, <2>2
<1>6. ASSUME NEW d, d # h, d \notin DOMAIN G!Wild
      PROVE  G!BestMatch(h, names \cup {d}) = x
  <2>1. G!Match(h, d) = <<4, 0>>
    BY <1>6, MatchOf
  <2>2. {<<4, 0>>} \cup {G!Match(h, n) : n \in names \cup {d}} = S
    BY <2>1
  <2>3. QED
    BY <2>2 DEF G!BestMatch, x
<1>7. QED
  BY <1>1, <1>2, <1>3, <1>4, <1>5, <1>6 DEF x

\* The block that answers listens, and is one of those found by the best kind of
\* name if any is found by its name.
LEMMA Answers ==
  ASSUME NEW c, IsSeq(c), NEW p, NEW h
  PROVE  LET at == {k \in DOMAIN c : G!Listens(c[k], p)}
             i == G!Serve(c, p, h)
         IN /\ i \in {0} \cup at
            /\ \A k \in at : Kind(c[k], h) < 4 =>
                 i \in at /\ Kind(c[i], h) < 4 /\ Kind(c[i], h) <= Kind(c[k], h)
<1> DEFINE at == {k \in DOMAIN c : G!Listens(c[k], p)}
           match == [k \in at |-> G!BestMatch(h, c[k].names)]
           i == G!Serve(c, p, h)
           named == {k \in DOMAIN match : match[k][1] < 4}
           default == {k \in DOMAIN match : \E a \in c[k].addrs : a.port = p /\ a.def}
           best == {k \in named : \A j \in named : ~ G!Beats(match[j], match[k])}
<1>1. i = IF DOMAIN match = {} THEN 0 ELSE IF named # {} THEN G!Min(best)
          ELSE IF default # {} THEN G!Min(default) ELSE G!Min(DOMAIN match)
  BY DEF G!Serve, G!Answering
<1>2. at \in SUBSET Nat
  BY DEF IsSeq
<1>3. DOMAIN match = at /\ \A k \in at : match[k] \in Matches /\ match[k][1] = Kind(c[k], h)
  BY KindOf DEF Kind
<1> HIDE DEF match, at, i
<1>4. ASSUME named # {}
      PROVE  best # {}
  <2> DEFINE S == {match[k] : k \in named}
  <2>1. S \in SUBSET Matches /\ S # {}
    BY <1>3, <1>4
  <2> HIDE DEF S
  <2>2. PICK x \in S : \A y \in S : ~ G!Beats(y, x)
    BY <2>1, Unbeaten
  <2> USE DEF S
  <2>3. PICK k \in named : x = match[k]
    OBVIOUS
  <2>4. \A j \in named : match[j] \in S
    OBVIOUS
  <2>5. k \in best
    BY <2>2, <2>3, <2>4
  <2>6. QED
    BY <2>5
<1>5. named \subseteq at /\ default \subseteq at /\ best \subseteq named
  BY <1>3
<1>6. \A k \in best : \A j \in named : match[k][1] <= match[j][1] /\ match[k][1] < 4
  BY <1>3, <1>5, Fields DEF G!Beats
<1>7. \A k \in at : k \in named <=> Kind(c[k], h) < 4
  BY <1>3
<1> HIDE DEF named, default, best
<1>8. i \in {0} \cup at
  BY <1>1, <1>2, <1>3, <1>4, <1>5, LeastIn
<1>9. ASSUME NEW k \in at, Kind(c[k], h) < 4
      PROVE  i \in at /\ Kind(c[i], h) < 4 /\ Kind(c[i], h) <= Kind(c[k], h)
  <2>1. k \in named
    BY <1>7, <1>9
  <2>2. i = G!Min(best) /\ best # {}
    BY <1>1, <1>3, <1>4, <1>9, <2>1
  <2>3. best \in SUBSET Nat
    BY <1>2, <1>5
  <2>4. i \in best
    BY <2>2, <2>3, LeastIn
  <2>5. match[i][1] <= match[k][1] /\ match[i][1] < 4
    BY <1>6, <2>1, <2>4
  <2>6. i \in at
    BY <1>5, <2>4
  <2>7. QED
    BY <1>3, <1>9, <2>5, <2>6
<1>10. QED
  BY <1>8, <1>9 DEF i, at

\* The block chosen among some: of those found by the best kind of name, an
\* ssl block if there is one.
Rank(c, i, h) == 2 * Kind(c[i], h) + (IF G!IsSsl(c, i) THEN 0 ELSE 1)

LEMMA Selected ==
  ASSUME NEW c, NEW cand \in SUBSET (Nat \ {0}), NEW h
  PROVE  LET i == G!SelectBest(c, cand, h)
         IN /\ i # 0 => /\ i \in cand /\ Kind(c[i], h) < 4
                        /\ \A j \in cand : Rank(c, i, h) <= Rank(c, j, h)
            /\ i = 0 => \A j \in cand : Kind(c[j], h) = 4
<1> DEFINE rank == [k \in cand |-> G!Ranked(G!BestMatch(h, c[k].names), G!IsSsl(c, k))]
           best == G!Foremost(rank)
           found == G!Longest(best, rank)
           i == G!SelectBest(c, cand, h)
<1>1. i = IF found = {} THEN 0 ELSE G!Min(found)
  BY DEF G!SelectBest, G!SelectByRank, G!FirstOf
<1>2. DOMAIN rank = cand
  OBVIOUS
<1>3. ASSUME NEW k \in cand
      PROVE  /\ rank[k][1] = Rank(c, k, h) /\ rank[k][2] \in 0..2
             /\ Rank(c, k, h) \in Nat /\ Kind(c[k], h) \in 0..4
             /\ Rank(c, k, h) < 8 <=> Kind(c[k], h) < 4
  <2> DEFINE m == G!BestMatch(h, c[k].names)
  <2>1. m \in Matches /\ Kind(c[k], h) = m[1]
    BY KindOf DEF Kind
  <2> HIDE DEF m
  <2>2. m[1] \in 0..4 /\ m[2] \in 0..2
    BY <2>1, Fields
  <2>3. rank[k] = <<2 * m[1] + (IF G!IsSsl(c, k) THEN 0 ELSE 1), m[2]>>
    BY DEF G!Ranked, m
  <2> HIDE DEF rank
  <2>4. rank[k][1] = 2 * m[1] + (IF G!IsSsl(c, k) THEN 0 ELSE 1) /\ rank[k][2] = m[2]
    BY <2>3
  <2>5. QED
    BY <2>1, <2>2, <2>4 DEF Rank
<1> HIDE DEF rank, i
<1>4. best = {k \in cand : Rank(c, k, h) < 8 /\ \A j \in cand : Rank(c, k, h) <= Rank(c, j, h)}
  BY <1>2, <1>3 DEF G!Foremost
<1>5. found \subseteq best
  BY DEF G!Longest
<1>6. ASSUME NEW k \in cand, Kind(c[k], h) < 4
      PROVE  best # {}
  <2> DEFINE S == {Rank(c, j, h) : j \in cand}
  <2>1. S \in SUBSET Nat /\ Rank(c, k, h) \in S
    BY <1>3
  <2>2. \E x \in S : \A y \in S : ~ (<<y, x>> \in OpToRel(<, Nat))
    BY <2>1, NatLessThanWellFounded, WFMin
  <2>3. PICK x \in S : \A y \in S : ~ (y < x)
    BY <2>1, <2>2 DEF OpToRel
  <2>4. PICK j \in cand : x = Rank(c, j, h)
    OBVIOUS
  <2>5. \A l \in cand : Rank(c, l, h) \in S
    OBVIOUS
  <2> HIDE DEF S
  <2>6. \A l \in cand : Rank(c, j, h) <= Rank(c, l, h)
    BY <1>3, <2>3, <2>4, <2>5
  <2>7. Rank(c, j, h) < 8
    BY <1>3, <1>6, <2>6
  <2>8. QED
    BY <1>4, <2>6, <2>7
<1>7. ASSUME best # {}
      PROVE  found # {}
  <2> DEFINE Short(j) == 2 - rank[j][2]
             S == {Short(j) : j \in best}
  <2>1. best \subseteq cand
    BY <1>4
  <2>2. \A j \in best : rank[j][2] \in 0..2
    BY <1>3, <2>1
  <2>3. \A n \in 0..2 : 2 - n \in Nat
    OBVIOUS
  <2>4. \A j \in best : Short(j) \in Nat
    BY <2>2, <2>3
  <2>5. \A j, l \in best : ~ (Short(l) < Short(j)) => rank[l][2] <= rank[j][2]
    <3>1. \A m, n \in 0..2 : ~ (2 - n < 2 - m) => n <= m
      OBVIOUS
    <3>2. QED
      BY <2>2, <3>1
  <2> HIDE DEF Short
  <2>6. S \in SUBSET Nat /\ S # {}
    BY <1>7, <2>4
  <2>7. \E x \in S : \A y \in S : ~ (<<y, x>> \in OpToRel(<, Nat))
    BY <2>6, NatLessThanWellFounded, WFMin
  <2>8. PICK x \in S : \A y \in S : ~ (y < x)
    BY <2>6, <2>7 DEF OpToRel
  <2>9. PICK j \in best : x = Short(j)
    OBVIOUS
  <2>10. \A l \in best : ~ (Short(l) < Short(j))
    BY <2>8, <2>9
  <2>11. \A l \in best : rank[l][2] <= rank[j][2]
    BY <2>5, <2>10
  <2>12. j \in found
    BY <2>11 DEF G!Longest
  <2>13. QED
    BY <2>12
<1> HIDE DEF best, found
<1>8. best \subseteq cand
  BY <1>4
<1>9. found # {} => G!Min(found) \in found
  BY <1>5, <1>8, LeastIn
<1>10. ASSUME i # 0
       PROVE  i \in cand /\ Kind(c[i], h) < 4 /\ \A j \in cand : Rank(c, i, h) <= Rank(c, j, h)
  <2>1. i \in best
    BY <1>1, <1>5, <1>9, <1>10
  <2>2. QED
    BY <1>3, <1>4, <2>1
<1>11. ASSUME i = 0, NEW j \in cand
       PROVE  Kind(c[j], h) = 4
  <2>1. found = {}
    BY <1>1, <1>5, <1>8, <1>9, <1>11
  <2>2. ~ (Kind(c[j], h) < 4)
    BY <1>6, <1>7, <2>1
  <2>3. QED
    BY <1>3, <2>2
<1>12. QED
  BY <1>10, <1>11 DEF i

\* A domain served by name in plain text; one whose best block is an ssl block.
Named(c, d) == \E i \in DOMAIN c : Fits(c[i], d)
Covered(c, d) ==
  \E i \in DOMAIN c : /\ G!IsSsl(c, i) /\ Kind(c[i], d) < 4
                      /\ \A j \in DOMAIN c : Kind(c[i], d) <= Kind(c[j], d)

\* The edits made to deploy a certificate: names and addresses are only added.
Grown(c, e) ==
  /\ DOMAIN c \subseteq DOMAIN e
  /\ \A j \in DOMAIN c : /\ c[j].names \subseteq e[j].names /\ c[j].addrs \subseteq e[j].addrs
                         /\ e[j].sslOn = c[j].sslOn
                         /\ G!Listens(c[j], 80) => G!Listens(e[j], 80)

LEMMA KindIs ==
  ASSUME NEW b, NEW d
  PROVE  /\ Kind(b, d) \in 0..4
         /\ Kind(b, d) < 4 <=> \E n \in b.names : n = d \/ n \in DOMAIN G!Wild
         /\ d \in b.names => Kind(b, d) = 0
BY KindOf DEF Kind

\* A domain is found by no other name than its own, or a wildcard.
LEMMA OtherDomain ==
  ASSUME NEW b, NEW q, NEW d \in G!Domains, NEW h \in G!Domains, h # d
  PROVE  /\ q.names = b.names \cup {d} => Kind(q, h) = Kind(b, h)
         /\ q.names = {d} => Kind(q, h) = 4
<1>1. d \notin DOMAIN G!Wild
  BY DEF G!Wild, G!Domains
<1>2. ASSUME q.names = b.names \cup {d}
      PROVE  Kind(q, h) = Kind(b, h)
  <2> DEFINE S == b.names
  <2>1. q.names = S \cup {d}
    BY <1>2
  <2> HIDE DEF S
  <2>2. G!BestMatch(h, S \cup {d}) = G!BestMatch(h, S)
    BY <1>1, KindOf
  <2>3. QED
    BY <2>1, <2>2 DEF Kind, S
<1>3. ASSUME q.names = {d}
      PROVE  Kind(q, h) = 4
  <2>1. Kind(q, h) \in 0..4 /\ ~ (Kind(q, h) < 4)
    BY <1>1, <1>3, KindIs
  <2>2. QED
    BY <2>1
<1>4. QED
  BY <1>2, <1>3

LEMMA GrownNamed ==
  ASSUME NEW c, NEW e, Grown(c, e), NEW d, Named(c, d)
  PROVE  Named(e, d)
<1>1. PICK i \in DOMAIN c : G!Listens(c[i], 80) /\ Kind(c[i], d) < 4
  BY DEF Named, Fits
<1>2. i \in DOMAIN e /\ G!Listens(e[i], 80) /\ c[i].names \subseteq e[i].names
  BY <1>1 DEF Grown
<1>3. Kind(e[i], d) < 4
  BY <1>1, <1>2, KindIs
<1>4. QED
  BY <1>2, <1>3 DEF Named, Fits

LEMMA GrownSsl ==
  ASSUME NEW c, NEW e, Grown(c, e)
  PROVE  /\ G!SslPorts(c) \subseteq G!SslPorts(e)
         /\ \A j \in DOMAIN c : G!IsSsl(c, j) => G!IsSsl(e, j)
<1>1. ASSUME NEW p \in G!SslPorts(c)
      PROVE  p \in G!SslPorts(e)
  <2>1. PICK i \in DOMAIN c : \E a \in c[i].addrs : (a.ssl \/ c[i].sslOn) /\ p = a.port
    BY DEF G!SslPorts
  <2>2. i \in DOMAIN e /\ \E a \in e[i].addrs : (a.ssl \/ e[i].sslOn) /\ p = a.port
    BY <2>1 DEF Grown
  <2>3. QED
    BY <2>2 DEF G!SslPorts
<1>2. QED
  BY <1>1 DEF G!IsSsl, Grown

LEMMA GrownCovered ==
  ASSUME NEW c, NEW e, Grown(c, e), NEW h, Covered(c, h),
         \A j \in DOMAIN e : IF j \in DOMAIN c THEN Kind(e[j], h) = Kind(c[j], h) ELSE Kind(e[j], h) = 4
  PROVE  Covered(e, h)
<1>1. PICK i \in DOMAIN c : /\ G!IsSsl(c, i) /\ Kind(c[i], h) < 4
                            /\ \A j \in DOMAIN c : Kind(c[i], h) <= Kind(c[j], h)
  BY DEF Covered
<1>2. i \in DOMAIN e /\ G!IsSsl(e, i) /\ Kind(e[i], h) < 4
  BY <1>1, GrownSsl DEF Grown
<1>3. Kind(c[i], h) \in 0..4
  BY KindIs
<1>4. \A j \in DOMAIN e : Kind(e[i], h) <= Kind(e[j], h)
  BY <1>1, <1>2, <1>3
<1>5. QED
  BY <1>2, <1>4 DEF Covered

\* A block that is the same as another but for its names.
Same(b, a) == b.addrs = a.addrs /\ b.sslOn = a.sslOn /\ b.gone = a.gone /\ b.redirects = a.redirects

\* What _vhost_from_duplicated_default does: nothing, a name more for the block
\* made before, or a copy of the default block.
LEMMA DefaultFound ==
  ASSUME NEW e, GoodEdit(e), NEW d, NEW port
  PROVE  LET f == G!FromDefault(e, d, port)
         IN \/ f.cfg = e.cfg /\ ~ f.ok
            \/ /\ f.ok /\ f.at \in DOMAIN e.cfg /\ DOMAIN f.cfg = DOMAIN e.cfg
               /\ \A j \in DOMAIN e.cfg \ {f.at} : f.cfg[j] = e.cfg[j]
               /\ Same(f.cfg[f.at], e.cfg[f.at]) /\ f.cfg[f.at].names = e.cfg[f.at].names \cup {d}
            \/ /\ f.ok /\ f.at \notin DOMAIN e.cfg /\ DOMAIN f.cfg = DOMAIN e.cfg \cup {f.at}
               /\ \A j \in DOMAIN e.cfg : f.cfg[j] = e.cfg[j]
               /\ f.cfg[f.at].names = {d}
               /\ \E m \in DOMAIN e.cfg : /\ f.cfg[f.at].addrs = G!Undefault(e.cfg[m].addrs)
                                          /\ f.cfg[f.at].sslOn = e.cfg[m].sslOn
                                          /\ f.cfg[f.at].gone = e.cfg[m].gone
                                          /\ f.cfg[f.at].redirects = e.cfg[m].redirects
<1> DEFINE defaults == {i \in DOMAIN e.cfg : \E a \in e.cfg[i].addrs : a.def /\ port \in {0, a.port}}
           copy == [e.cfg[G!Min(defaults)] EXCEPT !.names = {d}, !.addrs = G!Undefault(@)]
           f == G!FromDefault(e, d, port)
<1>0. f = IF e.nv # 0 THEN G!Edit([e.cfg EXCEPT ![e.nv].names = @ \cup {d}], e.nv, e.nv, TRUE)
          ELSE IF G!Cardinality(defaults) # 1 THEN [e EXCEPT !.ok = FALSE]
          ELSE G!Edit(Append(e.cfg, copy), Len(e.cfg) + 1, Len(e.cfg) + 1, TRUE)
  BY DEF G!FromDefault
<1> HIDE DEF f
<1>1. CASE e.nv # 0
  <2> DEFINE b == [e.cfg[e.nv] EXCEPT !.names = @ \cup {d}]
             c == [e.cfg EXCEPT ![e.nv] = b]
  <2>1. f = G!Edit(c, e.nv, e.nv, TRUE)
    BY <1>0, <1>1
  <2>2. e.nv \in DOMAIN e.cfg /\ IsSeq(e.cfg)
    BY <1>1 DEF GoodEdit, Fine, Good
  <2>3. Same(b, e.cfg[e.nv]) /\ b.names = e.cfg[e.nv].names \cup {d}
    BY <2>2, BlockOf DEF Same, IsBlock
  <2> HIDE DEF b
  <2>4. DOMAIN c = DOMAIN e.cfg /\ \A j \in DOMAIN e.cfg : c[j] = IF j = e.nv THEN b ELSE e.cfg[j]
    OBVIOUS
  <2> HIDE DEF c
  <2>5. f.cfg = c /\ f.at = e.nv /\ f.ok
    BY <2>1 DEF G!Edit
  <2>6. /\ f.ok /\ f.at \in DOMAIN e.cfg /\ DOMAIN f.cfg = DOMAIN e.cfg
        /\ \A j \in DOMAIN e.cfg \ {f.at} : f.cfg[j] = e.cfg[j]
        /\ f.cfg[f.at] = b
    BY <2>2, <2>4, <2>5
  <2>7. QED
    BY <2>3, <2>5, <2>6 DEF f
<1>2. CASE e.nv = 0 /\ G!Cardinality(defaults) # 1
  <2>1. f = [e EXCEPT !.ok = FALSE]
    BY <1>0, <1>2
  <2>2. f.cfg = e.cfg /\ ~ f.ok
    BY <2>1 DEF GoodEdit, IsEdit
  <2>3. QED
    BY <2>2 DEF f
<1>3. CASE e.nv = 0 /\ G!Cardinality(defaults) = 1
  <2>1. f = G!Edit(Append(e.cfg, copy), Len(e.cfg) + 1, Len(e.cfg) + 1, TRUE)
    BY <1>0, <1>3
  <2>2. DOMAIN e.cfg \in SUBSET Nat
    BY DEF GoodEdit, Fine, Good, IsSeq
  <2>3. defaults # {} /\ defaults \in SUBSET Nat
    BY <1>3, <2>2, FS_EmptySet, NginxCardinality
  <2> DEFINE m == G!Min(defaults)
  <2>4. m \in DOMAIN e.cfg
    BY <2>3, LeastIn
  <2> HIDE DEF m
  <2>5. IsBlock(e.cfg[m])
    BY <2>4, BlockOf
  <2>6. copy = [e.cfg[m] EXCEPT !.names = {d}, !.addrs = G!Undefault(@)]
    BY DEF m
  <2> HIDE DEF copy
  <2>7. /\ copy.names = {d} /\ copy.addrs = G!Undefault(e.cfg[m].addrs)
        /\ copy.sslOn = e.cfg[m].sslOn /\ copy.gone = e.cfg[m].gone
        /\ copy.redirects = e.cfg[m].redirects
    BY <2>5, <2>6 DEF IsBlock
  <2> DEFINE c == Append(e.cfg, copy)
             n == Len(e.cfg) + 1
  <2>8. IsSeq(e.cfg)
    BY DEF GoodEdit, Fine, Good
  <2>9. /\ n \notin DOMAIN e.cfg /\ DOMAIN c = DOMAIN e.cfg \cup {n}
        /\ (\A j \in DOMAIN e.cfg : c[j] = e.cfg[j]) /\ c[n] = copy
    <3>1. /\ Len(e.cfg) \in Nat /\ DOMAIN e.cfg = 1..Len(e.cfg) /\ DOMAIN c = 1..(Len(e.cfg) + 1)
          /\ (\A j \in DOMAIN e.cfg : c[j] = e.cfg[j]) /\ c[Len(e.cfg) + 1] = copy
      BY <2>8, Adding
    <3> HIDE DEF c
    <3>2. QED
      BY <3>1
  <2>10. f.cfg = c /\ f.at = n /\ f.ok
    BY <2>1 DEF G!Edit
  <2> HIDE DEF c, n
  <2>11. /\ f.ok /\ f.at \notin DOMAIN e.cfg /\ DOMAIN f.cfg = DOMAIN e.cfg \cup {f.at}
         /\ (\A j \in DOMAIN e.cfg : f.cfg[j] = e.cfg[j]) /\ f.cfg[f.at] = copy
    BY <2>9, <2>10
  <2>12. QED
    BY <2>4, <2>7, <2>11 DEF f
<1>4. QED
  BY <1>1, <1>2, <1>3

\* A configuration nothing is split off in yet, and that serves some domains by name.
Held(c, P) == Untouched(c) /\ \A d \in P : Named(c, d)

\* Configurations that differ in certificates, answers and stapling only.
Alike(c, e) ==
  DOMAIN e = DOMAIN c /\ \A j \in DOMAIN c : Same(e[j], c[j]) /\ e[j].names = c[j].names

\* ... or in what they redirect, besides: blocks are found as they were.
Routed(c, e) ==
  /\ DOMAIN e = DOMAIN c
  /\ \A j \in DOMAIN c : /\ e[j].names = c[j].names /\ e[j].addrs = c[j].addrs
                         /\ e[j].sslOn = c[j].sslOn

LEMMA RoutedBlocks ==
  ASSUME NEW c, NEW e, Routed(c, e)
  PROVE  /\ Grown(c, e) /\ G!SslPorts(e) = G!SslPorts(c)
         /\ \A j \in DOMAIN c : /\ G!IsSsl(e, j) <=> G!IsSsl(c, j)
                                /\ G!PlainPort80(e, j) <=> G!PlainPort80(c, j)
                                /\ \A h : Kind(e[j], h) = Kind(c[j], h) /\ (Fits(e[j], h) <=> Fits(c[j], h))
                                /\ \A p : G!Listens(e[j], p) <=> G!Listens(c[j], p)
<1>1. \A j \in DOMAIN c : /\ e[j].names = c[j].names /\ e[j].addrs = c[j].addrs
                          /\ e[j].sslOn = c[j].sslOn
  BY DEF Routed
<1>2. DOMAIN e = DOMAIN c
  BY DEF Routed
<1>3. \A j \in DOMAIN c : \A p : G!Listens(e[j], p) <=> G!Listens(c[j], p)
  BY <1>1 DEF G!Listens
<1>4. Grown(c, e) /\ Grown(e, c)
  BY <1>1, <1>2, <1>3 DEF Grown
<1>5. G!SslPorts(e) = G!SslPorts(c)
  BY <1>4, GrownSsl
<1>6. \A j \in DOMAIN c : /\ G!IsSsl(e, j) <=> G!IsSsl(c, j)
                          /\ G!PlainPort80(e, j) <=> G!PlainPort80(c, j)
  BY <1>1, <1>5 DEF G!IsSsl, G!PlainPort80
<1>7. \A j \in DOMAIN c : \A h : Kind(e[j], h) = Kind(c[j], h) /\ (Fits(e[j], h) <=> Fits(c[j], h))
  BY <1>1, <1>3 DEF Kind, Fits
<1>8. QED
  BY <1>3, <1>4, <1>5, <1>6, <1>7

LEMMA RoutedKept ==
  ASSUME NEW c, NEW e, Routed(c, e)
  PROVE  /\ OneOfAKind(c) => OneOfAKind(e)
         /\ SaysSsl(c) => SaysSsl(e)
         /\ \A h : Covered(c, h) => Covered(e, h)
         /\ \A h : Named(c, h) => Named(e, h)
<1>1. DOMAIN e = DOMAIN c
  BY DEF Routed
<1>2. \A h : Named(c, h) => Named(e, h)
  BY RoutedBlocks, GrownNamed
<1>3. OneOfAKind(c) => OneOfAKind(e)
  BY <1>1, RoutedBlocks DEF OneOfAKind
<1>4. SaysSsl(c) => SaysSsl(e)
  BY <1>1 DEF SaysSsl, Routed
<1>5. ASSUME NEW h, Covered(c, h)
      PROVE  Covered(e, h)
  BY <1>1, <1>5, RoutedBlocks DEF Covered
<1>6. QED
  BY <1>2, <1>3, <1>4, <1>5

LEMMA AlikeKept ==
  ASSUME NEW c, NEW e, Alike(c, e)
  PROVE  /\ Routed(c, e)
         /\ Untouched(c) => Untouched(e)
         /\ \A P : Held(c, P) => Held(e, P)
<1>1. Routed(c, e)
  BY DEF Alike, Routed, Same
<1>2. Untouched(c) => Untouched(e)
  BY DEF Untouched, Alike, Same
<1>3. \A P : Held(c, P) => Held(e, P)
  BY <1>1, <1>2, RoutedKept DEF Held
<1>4. QED
  BY <1>1, <1>2, <1>3

\* A block of its own for a domain that no block serves by name.
LEMMA DefaultGrown ==
  ASSUME NEW e, GoodEdit(e), NEW d, NEW port
  PROVE  /\ Grown(e.cfg, G!FromDefault(e, d, port).cfg)
         /\ Untouched(e.cfg) => Untouched(G!FromDefault(e, d, port).cfg)
<1> DEFINE f == G!FromDefault(e, d, port)
<1>1. CASE f.cfg = e.cfg
  BY <1>1 DEF Grown
<1>2. CASE /\ f.at \in DOMAIN e.cfg /\ DOMAIN f.cfg = DOMAIN e.cfg
           /\ \A j \in DOMAIN e.cfg \ {f.at} : f.cfg[j] = e.cfg[j]
           /\ Same(f.cfg[f.at], e.cfg[f.at]) /\ f.cfg[f.at].names = e.cfg[f.at].names \cup {d}
  <2> HIDE DEF f
  <2>1. \A j \in DOMAIN e.cfg : /\ e.cfg[j].names \subseteq f.cfg[j].names
                                /\ f.cfg[j].addrs = e.cfg[j].addrs /\ f.cfg[j].sslOn = e.cfg[j].sslOn
                                /\ f.cfg[j].gone = e.cfg[j].gone
                                /\ f.cfg[j].redirects = e.cfg[j].redirects
    BY <1>2 DEF Same
  <2>2. QED
    BY <1>2, <2>1 DEF Grown, Untouched, G!Listens, f
<1>3. CASE /\ f.at \notin DOMAIN e.cfg /\ DOMAIN f.cfg = DOMAIN e.cfg \cup {f.at}
           /\ \A j \in DOMAIN e.cfg : f.cfg[j] = e.cfg[j]
           /\ \E m \in DOMAIN e.cfg : /\ f.cfg[f.at].gone = e.cfg[m].gone
                                      /\ f.cfg[f.at].redirects = e.cfg[m].redirects
  <2> HIDE DEF f
  <2>1. Grown(e.cfg, f.cfg)
    BY <1>3 DEF Grown
  <2>2. Untouched(e.cfg) => Untouched(f.cfg)
    BY <1>3 DEF Untouched
  <2>3. QED
    BY <2>1, <2>2 DEF f
<1>4. QED
  BY <1>1, <1>2, <1>3, DefaultFound

LEMMA DefaultReady ==
  ASSUME NEW e, GoodEdit(e), NEW d \in G!Domains, NEW port,
         \A j \in DOMAIN e.cfg : Kind(e.cfg[j], d) = 4, OneOfAKind(e.cfg), SaysSsl(e.cfg)
  PROVE  LET f == G!FromDefault(e, d, port)
         IN /\ OneOfAKind(f.cfg) /\ SaysSsl(f.cfg)
            /\ \A h \in G!Domains \ {d} : Covered(e.cfg, h) => Covered(f.cfg, h)
            /\ f.ok => /\ Kind(f.cfg[f.at], d) < 4
                       /\ \A j \in DOMAIN f.cfg : Kind(f.cfg[f.at], d) <= Kind(f.cfg[j], d)
<1> DEFINE f == G!FromDefault(e, d, port)
<1>0. Grown(e.cfg, f.cfg)
  BY DefaultGrown
<1>1. CASE f.cfg = e.cfg /\ ~ f.ok
  BY <1>1
<1>2. CASE /\ f.at \in DOMAIN e.cfg /\ DOMAIN f.cfg = DOMAIN e.cfg
           /\ \A j \in DOMAIN e.cfg \ {f.at} : f.cfg[j] = e.cfg[j]
           /\ Same(f.cfg[f.at], e.cfg[f.at]) /\ f.cfg[f.at].names = e.cfg[f.at].names \cup {d}
  <2> HIDE DEF f
  <2>1. \A h \in G!Domains \ {d} : \A j \in DOMAIN e.cfg : Kind(f.cfg[j], h) = Kind(e.cfg[j], h)
    BY <1>2, OtherDomain
  <2>2. Kind(f.cfg[f.at], d) = 0
    BY <1>2, KindIs
  <2>3. \A j \in DOMAIN e.cfg \ {f.at} : Kind(f.cfg[j], d) = 4
    BY <1>2
  <2>4. \A j \in DOMAIN f.cfg : Kind(f.cfg[f.at], d) <= Kind(f.cfg[j], d)
    BY <2>2, KindIs
  <2>5. \A h : \A j \in DOMAIN e.cfg : Fits(f.cfg[j], h) => G!Listens(e.cfg[j], 80)
    BY <1>2 DEF Fits, G!Listens, Same
  <2>6. OneOfAKind(f.cfg)
    <3>1. ASSUME NEW h \in G!Domains, NEW i \in DOMAIN f.cfg, NEW j \in DOMAIN f.cfg,
                 Fits(f.cfg[i], h), Fits(f.cfg[j], h), Kind(f.cfg[i], h) = Kind(f.cfg[j], h)
          PROVE  i = j
      <4>1. CASE h = d
        <5>1. Kind(f.cfg[i], d) < 4 /\ Kind(f.cfg[j], d) < 4
          BY <3>1, <4>1 DEF Fits
        <5>2. i = f.at /\ j = f.at
          BY <1>2, <2>3, <5>1
        <5>3. QED
          BY <5>2
      <4>2. CASE h # d
        <5>1. Fits(e.cfg[i], h) /\ Fits(e.cfg[j], h) /\ Kind(e.cfg[i], h) = Kind(e.cfg[j], h)
          BY <1>2, <2>1, <2>5, <3>1, <4>2 DEF Fits
        <5>2. QED
          BY <1>2, <3>1, <5>1 DEF OneOfAKind
      <4>3. QED
        BY <4>1, <4>2
    <3>2. QED
      BY <3>1 DEF OneOfAKind
  <2>7. SaysSsl(f.cfg)
    BY <1>2 DEF SaysSsl, Same
  <2>8. \A h \in G!Domains \ {d} : Covered(e.cfg, h) => Covered(f.cfg, h)
    BY <1>0, <1>2, <2>1, GrownCovered
  <2>9. QED
    BY <2>2, <2>4, <2>6, <2>7, <2>8 DEF f
<1>3. CASE /\ f.at \notin DOMAIN e.cfg /\ DOMAIN f.cfg = DOMAIN e.cfg \cup {f.at}
           /\ \A j \in DOMAIN e.cfg : f.cfg[j] = e.cfg[j]
           /\ f.cfg[f.at].names = {d}
           /\ \E m \in DOMAIN e.cfg : /\ f.cfg[f.at].addrs = G!Undefault(e.cfg[m].addrs)
                                      /\ f.cfg[f.at].sslOn = e.cfg[m].sslOn
  <2> HIDE DEF f
  <2>1. \A h \in G!Domains \ {d} : Kind(f.cfg[f.at], h) = 4
    BY <1>3, OtherDomain
  <2>2. Kind(f.cfg[f.at], d) = 0
    BY <1>3, KindIs
  <2>3. \A j \in DOMAIN e.cfg : Kind(f.cfg[j], d) = 4
    BY <1>3
  <2>4. \A j \in DOMAIN f.cfg : Kind(f.cfg[f.at], d) <= Kind(f.cfg[j], d)
    BY <2>2, KindIs
  <2>5. OneOfAKind(f.cfg)
    <3>1. ASSUME NEW h \in G!Domains, NEW i \in DOMAIN f.cfg, NEW j \in DOMAIN f.cfg,
                 Fits(f.cfg[i], h), Fits(f.cfg[j], h), Kind(f.cfg[i], h) = Kind(f.cfg[j], h)
          PROVE  i = j
      <4>1. Kind(f.cfg[i], h) < 4 /\ Kind(f.cfg[j], h) < 4
        BY <3>1 DEF Fits
      <4>2. CASE h = d
        <5>1. i = f.at /\ j = f.at
          BY <1>3, <2>3, <4>1, <4>2
        <5>2. QED
          BY <5>1
      <4>3. CASE h # d
        <5>1. i # f.at /\ j # f.at
          BY <2>1, <4>1, <4>3
        <5>2. i \in DOMAIN e.cfg /\ j \in DOMAIN e.cfg /\ f.cfg[i] = e.cfg[i] /\ f.cfg[j] = e.cfg[j]
          BY <1>3, <5>1
        <5>3. QED
          BY <3>1, <5>2 DEF OneOfAKind
      <4>4. QED
        BY <4>2, <4>3
    <3>2. QED
      BY <3>1 DEF OneOfAKind
  <2>6. SaysSsl(f.cfg)
    <3>1. PICK m \in DOMAIN e.cfg : /\ f.cfg[f.at].addrs = G!Undefault(e.cfg[m].addrs)
                                    /\ f.cfg[f.at].sslOn = e.cfg[m].sslOn
      BY <1>3
    <3>2. e.cfg[m].addrs \subseteq G!Addr
      BY BlockOf DEF IsBlock
    <3>3. ASSUME NEW a \in G!Undefault(e.cfg[m].addrs)
          PROVE  \E x \in e.cfg[m].addrs : a.port = x.port /\ a.ssl = x.ssl
      <4>1. PICK x \in e.cfg[m].addrs : a = [x EXCEPT !.def = FALSE]
        BY DEF G!Undefault
      <4>2. x \in [port : {80, 443}, ssl : BOOLEAN, def : BOOLEAN]
        BY <3>2 DEF G!Addr
      <4>3. QED
        BY <4>1, <4>2
    <3>4. \A a \in f.cfg[f.at].addrs : a.port = 443 /\ ~ f.cfg[f.at].sslOn => a.ssl
      BY <3>1, <3>3 DEF SaysSsl
    <3>5. QED
      BY <1>3, <3>4 DEF SaysSsl
  <2>7. \A h \in G!Domains \ {d} : Covered(e.cfg, h) => Covered(f.cfg, h)
    BY <1>0, <1>3, <2>1, GrownCovered, SMTT(30)
  <2>8. QED
    BY <2>2, <2>4, <2>5, <2>6, <2>7 DEF f
<1>4. QED
  BY <1>1, <1>2, <1>3, DefaultFound

\* _make_server_ssl: the block chosen listens at 443, and at 80 as it did.
LEMMA SslBlock ==
  ASSUME NEW e, GoodEdit(e), e.at \in DOMAIN e.cfg
  PROVE  LET g == G!MakeServerSsl(e)
         IN /\ g.at = e.at /\ DOMAIN g.cfg = DOMAIN e.cfg
            /\ \A j \in DOMAIN e.cfg \ {e.at} : g.cfg[j] = e.cfg[j]
            /\ g.cfg[e.at].names = e.cfg[e.at].names /\ g.cfg[e.at].sslOn = e.cfg[e.at].sslOn
            /\ g.cfg[e.at].gone = e.cfg[e.at].gone /\ g.cfg[e.at].redirects = e.cfg[e.at].redirects
            /\ g.cfg[e.at].addrs = (IF e.cfg[e.at].addrs = {} THEN {G!At(80)} ELSE e.cfg[e.at].addrs)
                                     \cup {[G!At(443) EXCEPT !.ssl = TRUE]}
<1> DEFINE old == e.cfg[e.at]
           new == (IF old.addrs = {} THEN {G!At(80)} ELSE old.addrs) \cup {[G!At(443) EXCEPT !.ssl = TRUE]}
           b == [old EXCEPT !.addrs = new, !.cert = "snakeoil"]
           g == G!MakeServerSsl(e)
<1>1. e \in [cfg : {e.cfg}, nv : {e.nv}, at : {e.at}, ok : {e.ok}]
  BY DEF GoodEdit, IsEdit
<1>2. g = [e EXCEPT !.ok = ~ G!Conflict(old), !.cfg[e.at].addrs = new, !.cfg[e.at].cert = "snakeoil"]
  BY DEF G!MakeServerSsl
<1>3. IsBlock(old)
  BY BlockOf
<1> HIDE DEF g, new
<1>4. g.at = e.at /\ g.cfg = [e.cfg EXCEPT ![e.at].addrs = new, ![e.at].cert = "snakeoil"]
  BY <1>1, <1>2
<1>5. g.cfg = [e.cfg EXCEPT ![e.at] = b]
  BY <1>4
<1> HIDE DEF old
<1>6. /\ b.names = old.names /\ b.sslOn = old.sslOn /\ b.gone = old.gone
      /\ b.redirects = old.redirects /\ b.addrs = new
  BY <1>3 DEF IsBlock
<1> HIDE DEF b
<1>7. /\ DOMAIN g.cfg = DOMAIN e.cfg /\ g.cfg[e.at] = b
      /\ \A j \in DOMAIN e.cfg \ {e.at} : g.cfg[j] = e.cfg[j]
  BY <1>5
<1>8. QED
  BY <1>4, <1>6, <1>7, Zenon DEF g, new, old

LEMMA AddressesMade ==
  /\ G!At(80).port = 80 /\ ~ G!At(80).ssl /\ ~ G!At(80).def
  /\ [G!At(443) EXCEPT !.ssl = TRUE].port = 443 /\ [G!At(443) EXCEPT !.ssl = TRUE].ssl
BY DEF G!At

LEMMA SslMade ==
  ASSUME NEW e, GoodEdit(e), e.at \in DOMAIN e.cfg
  PROVE  LET g == G!MakeServerSsl(e)
         IN /\ Grown(e.cfg, g.cfg) /\ DOMAIN g.cfg = DOMAIN e.cfg
            /\ \A j \in DOMAIN e.cfg : \A h : /\ Kind(g.cfg[j], h) = Kind(e.cfg[j], h)
                                              /\ Fits(g.cfg[j], h) => Fits(e.cfg[j], h)
            /\ Untouched(e.cfg) => Untouched(g.cfg)
            /\ SaysSsl(e.cfg) => SaysSsl(g.cfg)
            /\ g.at = e.at /\ G!IsSsl(g.cfg, g.at)
<1> DEFINE g == G!MakeServerSsl(e)
           a443 == [G!At(443) EXCEPT !.ssl = TRUE]
<1>1. /\ g.at = e.at /\ DOMAIN g.cfg = DOMAIN e.cfg
      /\ \A j \in DOMAIN e.cfg \ {e.at} : g.cfg[j] = e.cfg[j]
      /\ g.cfg[e.at].names = e.cfg[e.at].names /\ g.cfg[e.at].sslOn = e.cfg[e.at].sslOn
      /\ g.cfg[e.at].gone = e.cfg[e.at].gone /\ g.cfg[e.at].redirects = e.cfg[e.at].redirects
      /\ g.cfg[e.at].addrs = (IF e.cfg[e.at].addrs = {} THEN {G!At(80)} ELSE e.cfg[e.at].addrs) \cup {a443}
  BY SslBlock
<1>2. a443.port = 443 /\ a443.ssl /\ G!At(80).port = 80
  BY AddressesMade
<1> HIDE DEF g, a443
<1>3. G!Listens(g.cfg[e.at], 80) <=> G!Listens(e.cfg[e.at], 80)
  BY <1>1, <1>2 DEF G!Listens
<1>4. \A j \in DOMAIN e.cfg : G!Listens(g.cfg[j], 80) <=> G!Listens(e.cfg[j], 80)
  BY <1>1, <1>3
<1>5. \A j \in DOMAIN e.cfg : /\ g.cfg[j].names = e.cfg[j].names /\ g.cfg[j].sslOn = e.cfg[j].sslOn
                              /\ e.cfg[j].addrs \subseteq g.cfg[j].addrs
  BY <1>1
<1>6. Grown(e.cfg, g.cfg)
  BY <1>1, <1>4, <1>5 DEF Grown
<1>7. \A j \in DOMAIN e.cfg : \A h : /\ Kind(g.cfg[j], h) = Kind(e.cfg[j], h)
                                     /\ Fits(g.cfg[j], h) => Fits(e.cfg[j], h)
  BY <1>4, <1>5 DEF Kind, Fits
<1>8. Untouched(e.cfg) => Untouched(g.cfg)
  BY <1>1 DEF Untouched
<1>9. SaysSsl(e.cfg) => SaysSsl(g.cfg)
  BY <1>1, <1>2 DEF SaysSsl
<1>10. G!IsSsl(g.cfg, g.at)
  <2>1. a443 \in g.cfg[e.at].addrs
    BY <1>1
  <2>2. 443 \in G!SslPorts(g.cfg)
    BY <1>1, <1>2, <2>1 DEF G!SslPorts
  <2>3. QED
    BY <1>1, <1>2, <2>1, <2>2 DEF G!IsSsl
<1>11. QED
  BY <1>1, <1>6, <1>7, <1>8, <1>9, <1>10 DEF g

LEMMA SecuredHeld ==
  ASSUME NEW e, GoodEdit(e), Aimed(e)
  PROVE  LET g == G!Secured(e)
         IN /\ Grown(e.cfg, g.cfg) /\ DOMAIN g.cfg = DOMAIN e.cfg
            /\ \A j \in DOMAIN e.cfg : \A h : /\ Kind(g.cfg[j], h) = Kind(e.cfg[j], h)
                                              /\ Fits(g.cfg[j], h) => Fits(e.cfg[j], h)
            /\ Untouched(e.cfg) => Untouched(g.cfg)
            /\ SaysSsl(e.cfg) => SaysSsl(g.cfg)
            /\ OneOfAKind(e.cfg) => OneOfAKind(g.cfg)
            /\ g.ok => e.ok /\ g.at = e.at /\ G!IsSsl(g.cfg, g.at)
<1>0. ASSUME NEW g, DOMAIN g.cfg = DOMAIN e.cfg, OneOfAKind(e.cfg),
             \A j \in DOMAIN e.cfg : \A h : /\ Kind(g.cfg[j], h) = Kind(e.cfg[j], h)
                                            /\ Fits(g.cfg[j], h) => Fits(e.cfg[j], h)
      PROVE  OneOfAKind(g.cfg)
  BY <1>0 DEF OneOfAKind
<1>1. CASE e.ok /\ ~ G!IsSsl(e.cfg, e.at)
  <2> DEFINE g == G!MakeServerSsl(e)
  <2>1. e.at \in DOMAIN e.cfg
    BY <1>1 DEF Aimed
  <2>2. /\ Grown(e.cfg, g.cfg) /\ DOMAIN g.cfg = DOMAIN e.cfg
        /\ \A j \in DOMAIN e.cfg : \A h : /\ Kind(g.cfg[j], h) = Kind(e.cfg[j], h)
                                          /\ Fits(g.cfg[j], h) => Fits(e.cfg[j], h)
        /\ Untouched(e.cfg) => Untouched(g.cfg)
        /\ SaysSsl(e.cfg) => SaysSsl(g.cfg)
        /\ g.at = e.at /\ G!IsSsl(g.cfg, g.at)
    BY <2>1, SslMade
  <2>3. G!Secured(e) = g
    BY <1>1 DEF G!Secured
  <2> HIDE DEF g
  <2>4. OneOfAKind(e.cfg) => OneOfAKind(g.cfg)
    BY <1>0, <2>2
  <2>5. QED
    BY <1>1, <2>2, <2>3, <2>4
<1>2. CASE ~ (e.ok /\ ~ G!IsSsl(e.cfg, e.at))
  <2>1. G!Secured(e) = e
    BY <1>2 DEF G!Secured
  <2>2. Grown(e.cfg, e.cfg)
    BY DEF Grown
  <2>3. QED
    BY <1>2, <2>1, <2>2
<1>3. QED
  BY <1>1, <1>2

LEMMA GrownHeld ==
  ASSUME NEW c, NEW e, Grown(c, e), NEW P, Held(c, P), Untouched(e)
  PROVE  Held(e, P)
BY GrownNamed DEF Held

\* _choose_vhost: the block chosen for a domain is an ssl block then, and no block
\* is found for the domain by a better kind of name.
Ready(c, P) == Held(c, P) /\ OneOfAKind(c) /\ SaysSsl(c)

LEMMA FoundReady ==
  ASSUME NEW e, GoodEdit(e), NEW d \in G!Domains, NEW P, Ready(e.cfg, P)
  PROVE  LET f == G!Found(e, d, G!SelectBest(e.cfg, DOMAIN e.cfg, d), TRUE)
         IN /\ Ready(f.cfg, P)
            /\ \A h \in G!Domains \ {d} : Covered(e.cfg, h) => Covered(f.cfg, h)
            /\ f.ok => /\ Kind(f.cfg[f.at], d) < 4
                       /\ \A j \in DOMAIN f.cfg : Kind(f.cfg[f.at], d) <= Kind(f.cfg[j], d)
<1> DEFINE c == e.cfg
           at == G!SelectBest(c, DOMAIN c, d)
<1>1. DOMAIN c \in SUBSET (Nat \ {0})
  BY DEF GoodEdit, Fine, Good, IsSeq
<1>2. /\ at # 0 => /\ at \in DOMAIN c /\ Kind(c[at], d) < 4
                   /\ \A j \in DOMAIN c : Rank(c, at, d) <= Rank(c, j, d)
      /\ at = 0 => \A j \in DOMAIN c : Kind(c[j], d) = 4
  <2> HIDE DEF c
  <2>1. QED
    BY <1>1, Selected
<1>3. CASE at # 0
  <2> DEFINE f == [e EXCEPT !.at = at]
  <2>1. f.cfg = e.cfg /\ f.at = at
    BY DEF GoodEdit, IsEdit
  <2>2. G!Found(e, d, at, TRUE) = f
    BY <1>3 DEF G!Found
  <2>3. ASSUME NEW j \in DOMAIN c
        PROVE  Kind(c[at], d) <= Kind(c[j], d)
    <3>1. Rank(c, at, d) <= Rank(c, j, d) /\ Kind(c[at], d) \in 0..4 /\ Kind(c[j], d) \in 0..4
      BY <1>2, <1>3, KindIs
    <3>2. QED
      BY <3>1 DEF Rank
  <2> HIDE DEF f, at
  <2>4. QED
    BY <1>2, <1>3, <2>1, <2>2, <2>3 DEF at
<1>4. CASE at = 0
  <2> DEFINE f == G!FromDefault(e, d, 0)
  <2>1. \A j \in DOMAIN e.cfg : Kind(e.cfg[j], d) = 4
    BY <1>2, <1>4
  <2>2. /\ OneOfAKind(f.cfg) /\ SaysSsl(f.cfg)
        /\ \A h \in G!Domains \ {d} : Covered(e.cfg, h) => Covered(f.cfg, h)
        /\ f.ok => /\ Kind(f.cfg[f.at], d) < 4
                   /\ \A j \in DOMAIN f.cfg : Kind(f.cfg[f.at], d) <= Kind(f.cfg[j], d)
    BY <2>1, DefaultReady DEF Ready
  <2>3. Held(f.cfg, P)
    BY DefaultGrown, GrownHeld DEF Ready, Held
  <2>4. G!Found(e, d, at, TRUE) = f
    BY <1>4 DEF G!Found
  <2> HIDE DEF f, at
  <2>5. QED
    BY <2>2, <2>3, <2>4 DEF Ready, at
<1>5. QED
  BY <1>3, <1>4

LEMMA ChosenReady ==
  ASSUME NEW e, GoodEdit(e), NEW d \in G!Domains, NEW P, Ready(e.cfg, P)
  PROVE  LET g == G!ChooseVhost(e, d, TRUE)
         IN /\ Ready(g.cfg, P)
            /\ \A h \in G!Domains \ {d} : Covered(e.cfg, h) => Covered(g.cfg, h)
            /\ g.ok => Covered(g.cfg, d)
<1> DEFINE at == G!SelectBest(e.cfg, DOMAIN e.cfg, d)
           f == G!Found(e, d, at, TRUE)
           g == G!Secured(f)
<1>1. DOMAIN e.cfg \in SUBSET Nat
  BY DEF GoodEdit, Fine, Good, IsSeq
<1>2. at \in {0} \cup DOMAIN e.cfg
  BY <1>1, SelectIn
<1>3. /\ Ready(f.cfg, P)
      /\ \A h \in G!Domains \ {d} : Covered(e.cfg, h) => Covered(f.cfg, h)
      /\ f.ok => /\ Kind(f.cfg[f.at], d) < 4
                 /\ \A j \in DOMAIN f.cfg : Kind(f.cfg[f.at], d) <= Kind(f.cfg[j], d)
  BY FoundReady
<1> HIDE DEF at
<1>4. GoodEdit(f) /\ Aimed(f)
  BY <1>2, FoundGood
<1>5. G!ChooseVhost(e, d, TRUE) = g
  BY DEF G!ChooseVhost, at
<1> HIDE DEF f
<1>6. /\ Grown(f.cfg, g.cfg) /\ DOMAIN g.cfg = DOMAIN f.cfg
      /\ \A j \in DOMAIN f.cfg : \A h : /\ Kind(g.cfg[j], h) = Kind(f.cfg[j], h)
                                        /\ Fits(g.cfg[j], h) => Fits(f.cfg[j], h)
      /\ Untouched(f.cfg) => Untouched(g.cfg)
      /\ SaysSsl(f.cfg) => SaysSsl(g.cfg)
      /\ OneOfAKind(f.cfg) => OneOfAKind(g.cfg)
      /\ g.ok => f.ok /\ g.at = f.at /\ G!IsSsl(g.cfg, g.at)
  BY <1>4, SecuredHeld
<1> HIDE DEF g
<1>7. Ready(g.cfg, P)
  BY <1>3, <1>6, GrownHeld DEF Ready, Held
<1>8. \A h : Covered(f.cfg, h) => Covered(g.cfg, h)
  BY <1>6, GrownCovered
<1>9. ASSUME g.ok
      PROVE  Covered(g.cfg, d)
  <2>1. f.ok /\ g.at = f.at /\ G!IsSsl(g.cfg, g.at) /\ f.at \in DOMAIN f.cfg
    BY <1>4, <1>6, <1>9 DEF Aimed
  <2>2. Kind(g.cfg[g.at], d) < 4 /\ \A j \in DOMAIN g.cfg : Kind(g.cfg[g.at], d) <= Kind(g.cfg[j], d)
    BY <1>3, <1>6, <2>1
  <2>3. QED
    BY <1>6, <2>1, <2>2 DEF Covered
<1>10. QED
  BY <1>3, <1>5, <1>7, <1>8, <1>9

\* A change of the block chosen that leaves its names, addresses and redirects alone.
LEMMA Marked ==
  ASSUME NEW e, GoodEdit(e), e.at \in DOMAIN e.cfg, NEW b,
         Same(b, e.cfg[e.at]), b.names = e.cfg[e.at].names
  PROVE  LET f == [e EXCEPT !.cfg[e.at] = b]
         IN Alike(e.cfg, f.cfg) /\ f.at = e.at /\ f.ok = e.ok
<1> DEFINE f == [e EXCEPT !.cfg[e.at] = b]
<1>1. f.cfg = [e.cfg EXCEPT ![e.at] = b] /\ f.at = e.at /\ f.ok = e.ok
  BY DEF GoodEdit, IsEdit
<1> HIDE DEF f
<1>2. DOMAIN f.cfg = DOMAIN e.cfg /\ \A j \in DOMAIN e.cfg : f.cfg[j] = IF j = e.at THEN b ELSE e.cfg[j]
  BY <1>1
<1>3. Alike(e.cfg, f.cfg)
  BY <1>2 DEF Alike, Same
<1>4. QED
  BY <1>1, <1>3 DEF f

\* deploy_cert: the domain is served by an ssl block now, as those before it are.
LEMMA DeployedReady ==
  ASSUME NEW e, GoodEdit(e), NEW d \in G!Domains, NEW P, Ready(e.cfg, P)
  PROVE  LET g == G!DeployCert(e, d)
         IN /\ Ready(g.cfg, P)
            /\ \A h \in G!Domains \ {d} : Covered(e.cfg, h) => Covered(g.cfg, h)
            /\ g.ok => Covered(g.cfg, d)
<1> DEFINE f == G!ChooseVhost(e, d, TRUE)
           b == [f.cfg[f.at] EXCEPT !.cert = "le"]
           g == [f EXCEPT !.cfg[f.at] = b]
<1>1. /\ Ready(f.cfg, P)
      /\ \A h \in G!Domains \ {d} : Covered(e.cfg, h) => Covered(f.cfg, h)
      /\ f.ok => Covered(f.cfg, d)
  BY ChosenReady
<1>2. GoodEdit(f) /\ Aimed(f)
  BY ChosenGood
<1>3. G!DeployCert(e, d) = IF f.ok THEN g ELSE f
  BY DEF G!DeployCert, G!GiveCert
<1> HIDE DEF f
<1>4. CASE f.ok
  <2>1. f.at \in DOMAIN f.cfg
    BY <1>2, <1>4 DEF Aimed
  <2>2. Same(b, f.cfg[f.at]) /\ b.names = f.cfg[f.at].names
    BY <1>2, <2>1, BlockOf DEF Same, IsBlock
  <2> HIDE DEF b
  <2>3. Alike(f.cfg, g.cfg)
    BY <1>2, <2>1, <2>2, Marked
  <2> HIDE DEF g
  <2>4. Ready(g.cfg, P) /\ \A h : Covered(f.cfg, h) => Covered(g.cfg, h)
    BY <1>1, <2>3, AlikeKept, RoutedKept DEF Ready
  <2>5. QED
    BY <1>1, <1>3, <1>4, <2>4
<1>5. CASE ~ f.ok
  BY <1>1, <1>3, <1>5
<1>6. QED
  BY <1>4, <1>5

\* perform: nothing is split off, and what is served by name goes on being so.
LEMMA FoundHeld ==
  ASSUME NEW e, GoodEdit(e), NEW d, NEW P, Held(e.cfg, P)
  PROVE  /\ \A at : Held(G!Found(e, d, at, TRUE).cfg, P)
         /\ \A at : Held(G!FoundPlain(e, d, at, TRUE).cfg, P)
<1>1. ASSUME NEW at
      PROVE  [e EXCEPT !.at = at].cfg = e.cfg
  BY DEF GoodEdit, IsEdit
<1>2. ASSUME NEW port
      PROVE  Held(G!FromDefault(e, d, port).cfg, P)
  <2> DEFINE f == G!FromDefault(e, d, port)
  <2>1. Grown(e.cfg, f.cfg) /\ Untouched(f.cfg)
    BY DefaultGrown DEF Held
  <2> HIDE DEF f
  <2>2. Held(f.cfg, P)
    BY <2>1, GrownHeld
  <2>3. QED
    BY <2>2 DEF f
<1>3. ASSUME NEW at
      PROVE  Held(G!Found(e, d, at, TRUE).cfg, P)
  BY <1>1, <1>2 DEF G!Found
<1>4. ASSUME NEW at
      PROVE  Held(G!FoundPlain(e, d, at, TRUE).cfg, P)
  BY <1>1, <1>2 DEF G!FoundPlain
<1>5. QED
  BY <1>3, <1>4

LEMMA ChosenHeld ==
  ASSUME NEW e, GoodEdit(e), NEW d, NEW P, Held(e.cfg, P)
  PROVE  Held(G!ChooseVhost(e, d, TRUE).cfg, P) /\ Held(G!ChooseRedirectVhost(e, d, TRUE).cfg, P)
<1> DEFINE at == G!SelectBest(e.cfg, DOMAIN e.cfg, d)
           f == G!Found(e, d, at, TRUE)
           g == G!Secured(f)
<1>1. DOMAIN e.cfg \in SUBSET Nat
  BY DEF GoodEdit, Fine, Good, IsSeq
<1>2. at \in {0} \cup DOMAIN e.cfg
  BY <1>1, SelectIn
<1> HIDE DEF at
<1>3. GoodEdit(f) /\ Aimed(f) /\ Held(f.cfg, P)
  BY <1>2, FoundGood, FoundHeld
<1> HIDE DEF f
<1>4. Grown(f.cfg, g.cfg) /\ (Untouched(f.cfg) => Untouched(g.cfg))
  BY <1>3, SecuredHeld
<1> HIDE DEF g
<1>5. Held(g.cfg, P)
  BY <1>3, <1>4, GrownHeld DEF Held
<1>6. G!ChooseVhost(e, d, TRUE) = g
  BY DEF G!ChooseVhost, f, g, at
<1>7. Held(G!ChooseRedirectVhost(e, d, TRUE).cfg, P)
  BY FoundHeld DEF G!ChooseRedirectVhost
<1>8. QED
  BY <1>5, <1>6, <1>7

\* A block of the challenges' own file: it serves nothing but the challenge of
\* the one domain it is named for, or is no plain page's block.
Answerer(b) ==
  b.redirects = {} /\ (b.gone => \E d \in G!Domains : b.names = {d} /\ b.answers = {d})
HeldWork(x, P) ==
  GoodWork(x) /\ Held(x.e.cfg, P) /\ \A i \in DOMAIN x.new : Answerer(x.new[i])

LEMMA AnswererAdded ==
  ASSUME NEW n, IsSeq(n), \A i \in DOMAIN n : Answerer(n[i]), NEW b, Answerer(b)
  PROVE  \A i \in DOMAIN Append(n, b) : Answerer(Append(n, b)[i])
<1> DEFINE m == Append(n, b)
<1>1. /\ Len(n) \in Nat /\ DOMAIN n = 1..Len(n) /\ DOMAIN m = 1..(Len(n) + 1)
      /\ (\A j \in DOMAIN n : m[j] = n[j]) /\ m[Len(n) + 1] = b
  BY Adding
<1> HIDE DEF m
<1>2. ASSUME NEW i \in DOMAIN m
      PROVE  Answerer(m[i])
  <2>1. i \in DOMAIN n \/ i = Len(n) + 1
    BY <1>1
  <2>2. QED
    BY <1>1, <2>1
<1>3. QED
  BY <1>2 DEF m

LEMMA HttpHeld ==
  ASSUME NEW x, NEW P, HeldWork(x, P), NEW d \in G!Domains
  PROVE  HeldWork(G!HttpBlock(x, d), P)
<1> DEFINE f == G!ChooseRedirectVhost(x.e, d, TRUE)
           y == G!HttpBlock(x, d)
           c == G!ChallengeServer(d)
<1>1. GoodEdit(f) /\ Aimed(f)
  BY PlainChosen DEF HeldWork, GoodWork
<1>2. Held(f.cfg, P)
  BY ChosenHeld DEF HeldWork, GoodWork
<1>3. y = G!Answer(x, f, d)
  BY DEF G!HttpBlock
<1>4. GoodWork(y)
  BY HttpBlockGood DEF HeldWork
<1> HIDE DEF f, y
<1>5. CASE ~ f.ok
  <2>1. y = [x EXCEPT !.new = Append(@, c)]
    BY <1>3, <1>5 DEF G!Answer
  <2>2. c.redirects = {} /\ c.names = {d} /\ c.answers = {d}
    <3> DEFINE p == G!Plain({d}, {G!At(80)})
    <3>1. /\ p \in [names : {p.names}, addrs : {p.addrs}, sslOn : {p.sslOn}, cert : {p.cert},
                    clash : {p.clash}, gone : {p.gone}, redirects : {p.redirects},
                    answers : {p.answers}, stapled : {p.stapled}]
          /\ p.redirects = {} /\ p.names = {d}
      BY DEF G!Plain
    <3>2. c = [p EXCEPT !.answers = {d}, !.gone = TRUE]
      BY DEF G!ChallengeServer
    <3> HIDE DEF p, c
    <3>3. QED
      BY <3>1, <3>2
  <2>3. Answerer(c)
    BY <2>2 DEF Answerer
  <2> HIDE DEF c
  <2>4. y.e = x.e /\ y.new = Append(x.new, c)
    BY <2>1 DEF HeldWork, GoodWork, IsWork
  <2>5. \A i \in DOMAIN y.new : Answerer(y.new[i])
    BY <2>3, <2>4, AnswererAdded DEF HeldWork, GoodWork
  <2>6. QED
    BY <1>4, <2>4, <2>5 DEF HeldWork, y
<1>6. CASE f.ok
  <2> DEFINE b == [f.cfg[f.at] EXCEPT !.answers = @ \cup {d}]
             g == [f EXCEPT !.cfg[f.at] = b]
  <2>1. f.at \in DOMAIN f.cfg
    BY <1>1, <1>6 DEF Aimed
  <2>2. Same(b, f.cfg[f.at]) /\ b.names = f.cfg[f.at].names
    BY <1>1, <2>1, BlockOf DEF Same, IsBlock
  <2>3. y = [x EXCEPT !.e = g]
    BY <1>3, <1>6 DEF G!Answer
  <2> HIDE DEF b
  <2>4. Alike(f.cfg, g.cfg)
    BY <1>1, <2>1, <2>2, Marked
  <2> HIDE DEF g
  <2>5. y.e = g /\ y.new = x.new
    BY <2>3 DEF HeldWork, GoodWork, IsWork
  <2>6. Held(g.cfg, P)
    BY <1>2, <2>4, AlikeKept
  <2>7. QED
    BY <1>4, <2>5, <2>6 DEF HeldWork, y
<1>7. QED
  BY <1>5, <1>6

LEMMA SniHeld ==
  ASSUME NEW x, NEW P, HeldWork(x, P), NEW d
  PROVE  HeldWork(G!SniBlock(x, d), P)
<1> DEFINE f == G!ChooseVhost(x.e, d, TRUE)
           y == G!SniBlock(x, d)
<1>1. Held(f.cfg, P)
  BY ChosenHeld DEF HeldWork, GoodWork
<1>2. y = G!AnswerSni(x, f, d)
  BY DEF G!SniBlock
<1>3. GoodWork(y)
  BY SniBlockGood DEF HeldWork
<1> HIDE DEF f, y
<1>4. CASE ~ x.e.ok \/ ~ f.ok
  <2>1. y = [x EXCEPT !.e = [x.e EXCEPT !.ok = FALSE]]
    BY <1>2, <1>4 DEF G!AnswerSni
  <2> DEFINE g == [x.e EXCEPT !.ok = FALSE]
  <2>2. g.cfg = x.e.cfg
    BY DEF HeldWork, GoodWork, GoodEdit, IsEdit
  <2> HIDE DEF g
  <2>3. y.e = g /\ y.new = x.new
    BY <2>1 DEF HeldWork, GoodWork, IsWork, g
  <2>4. QED
    BY <1>3, <2>2, <2>3 DEF HeldWork, y
<1>5. CASE x.e.ok /\ f.ok
  <2> DEFINE z == G!Zdomain[d]
             S == f.cfg[f.at].addrs
             c == G!SniServer(z, S)
  <2>1. y = [e |-> f, new |-> Append(x.new, c)]
    BY <1>2, <1>5 DEF G!AnswerSni
  <2> HIDE DEF z, S
  <2>2. c.redirects = {} /\ c.gone = FALSE
    <3> DEFINE p == G!Plain({z}, G!Undefault(S))
    <3>1. /\ p \in [names : {p.names}, addrs : {p.addrs}, sslOn : {p.sslOn}, cert : {p.cert},
                    clash : {p.clash}, gone : {p.gone}, redirects : {p.redirects},
                    answers : {p.answers}, stapled : {p.stapled}]
          /\ p.redirects = {} /\ p.gone = FALSE
      BY DEF G!Plain
    <3>2. c = [p EXCEPT !.answers = {z}, !.cert = "challenge"]
      BY DEF G!SniServer
    <3> HIDE DEF p, c
    <3>3. QED
      BY <3>1, <3>2
  <2>3. Answerer(c)
    BY <2>2 DEF Answerer
  <2> HIDE DEF c
  <2>4. y.e = f /\ y.new = Append(x.new, c)
    BY <2>1
  <2>5. \A i \in DOMAIN y.new : Answerer(y.new[i])
    BY <2>3, <2>4, AnswererAdded DEF HeldWork, GoodWork
  <2>6. QED
    BY <1>1, <1>3, <2>4, <2>5 DEF HeldWork, y
<1>6. QED
  BY <1>4, <1>5

\* What must hold of a configuration on disk, and of one that is served.
NoLoop(c) == IsSeq(c) /\ \A i \in DOMAIN c : c[i].redirects # {} => ~ G!Listens(c[i], 443)
Pages(c, P) ==
  \A d \in P : LET i == G!Serve(c, 80, d)
               IN i # 0 /\ (c[i].gone => d \in c[i].redirects \cup c[i].answers)

\* The block that serves a domain in plain text, if that is sure; all that do
\* redirect it.
First(c, d, i) ==
  Fits(c[i], d) /\ \A j \in DOMAIN c \ {i} : G!Listens(c[j], 80) => Kind(c[i], d) < Kind(c[j], d)
Handled(c, d) == \A i \in DOMAIN c : First(c, d, i) /\ G!PlainPort80(c, i) => d \in c[i].redirects

\* A block split off redirects, and serves plain text only.
Emptied(c) == \A i \in DOMAIN c : c[i].gone => c[i].redirects # {} /\ G!PlainPort80(c, i)

LEMMA PageOf ==
  ASSUME NEW c, IsSeq(c), NEW d, Named(c, d)
  PROVE  LET i == G!Serve(c, 80, d)
         IN /\ i # 0 /\ i \in DOMAIN c /\ Fits(c[i], d)
            /\ \A k \in DOMAIN c : Fits(c[k], d) => Kind(c[i], d) <= Kind(c[k], d)
<1> DEFINE at == {k \in DOMAIN c : G!Listens(c[k], 80)}
           i == G!Serve(c, 80, d)
<1>1. /\ i \in {0} \cup at
      /\ \A k \in at : Kind(c[k], d) < 4 => i \in at /\ Kind(c[i], d) < 4 /\ Kind(c[i], d) <= Kind(c[k], d)
  BY Answers
<1>2. PICK k \in DOMAIN c : Fits(c[k], d)
  BY DEF Named
<1>3. i \in at /\ Kind(c[i], d) < 4
  BY <1>1, <1>2 DEF Fits
<1>4. at \subseteq Nat \ {0}
  BY DEF IsSeq
<1> HIDE DEF i
<1>5. i # 0 /\ i \in DOMAIN c /\ Fits(c[i], d)
  BY <1>3, <1>4 DEF Fits
<1>6. \A j \in DOMAIN c : Fits(c[j], d) => Kind(c[i], d) <= Kind(c[j], d)
  BY <1>1 DEF Fits
<1>7. QED
  BY <1>5, <1>6 DEF i

LEMMA HeldPages ==
  ASSUME NEW c, IsSeq(c), NEW P, Held(c, P)
  PROVE  NoLoop(c) /\ Pages(c, P)
<1>1. NoLoop(c)
  BY DEF NoLoop, Held, Untouched
<1>2. ASSUME NEW d \in P
      PROVE  G!Serve(c, 80, d) # 0 /\ ~ c[G!Serve(c, 80, d)].gone
  <2>1. G!Serve(c, 80, d) # 0 /\ G!Serve(c, 80, d) \in DOMAIN c
    BY PageOf DEF Held
  <2>2. QED
    BY <2>1 DEF Held, Untouched
<1>3. QED
  BY <1>1, <1>2 DEF Pages

LEMMA WorkPages ==
  ASSUME NEW P \in SUBSET G!Domains, NEW x, HeldWork(x, P)
  PROVE  NoLoop(x.new \o x.e.cfg) /\ Pages(x.new \o x.e.cfg, P)
<1> DEFINE n == x.new
           c == x.e.cfg
           m == n \o c
<1>1. IsSeq(n) /\ IsSeq(c) /\ Held(c, P) /\ \A i \in DOMAIN n : Answerer(n[i])
  BY DEF HeldWork, GoodWork, GoodEdit, Fine, Good
<1> HIDE DEF n, c
<1>2. /\ IsSeq(m)
      /\ \A i \in DOMAIN m : (\E j \in DOMAIN n : m[i] = n[j]) \/ (\E j \in DOMAIN c : m[i] = c[j])
      /\ \A j \in DOMAIN c : \E i \in DOMAIN m : m[i] = c[j]
  <2> DEFINE S == Elements(c) \cup Elements(n)
  <2>1. c \in Seq(Elements(c)) /\ n \in Seq(Elements(n))
    BY <1>1 DEF IsSeq
  <2>2. c \in Seq(S) /\ n \in Seq(S)
    BY <2>1
  <2> HIDE DEF S
  <2>3. /\ m \in Seq(S) /\ Len(c) \in Nat /\ Len(n) \in Nat /\ DOMAIN m = 1..(Len(n) + Len(c))
        /\ DOMAIN n = 1..Len(n) /\ DOMAIN c = 1..Len(c)
        /\ \A j \in 1..(Len(n) + Len(c)) : m[j] = IF j <= Len(n) THEN n[j] ELSE c[j - Len(n)]
    BY <2>2
  <2> HIDE DEF m
  <2>4. ASSUME NEW i \in DOMAIN m
        PROVE  (\E j \in DOMAIN n : m[i] = n[j]) \/ (\E j \in DOMAIN c : m[i] = c[j])
    <3>1. CASE i <= Len(n)
      BY <2>3, <3>1
    <3>2. CASE ~ (i <= Len(n))
      <4>1. (i - Len(n)) \in DOMAIN c /\ m[i] = c[i - Len(n)]
        BY <2>3, <3>2
      <4>2. QED
        BY <4>1
    <3>3. QED
      BY <3>1, <3>2
  <2>5. ASSUME NEW j \in DOMAIN c
        PROVE  \E i \in DOMAIN m : m[i] = c[j]
    <3> DEFINE i == Len(n) + j
    <3>1. i \in 1..(Len(n) + Len(c)) /\ ~ (i <= Len(n)) /\ i - Len(n) = j
      BY <2>3
    <3>2. i \in DOMAIN m /\ m[i] = c[j]
      BY <2>3, <3>1
    <3>3. QED
      BY <3>2
  <2>6. QED
    BY <2>3, <2>4, <2>5, SeqOf
<1> HIDE DEF m
<1>3. \A i \in DOMAIN m : /\ m[i].redirects = {}
                          /\ m[i].gone => \E d \in G!Domains : m[i].names = {d} /\ m[i].answers = {d}
  BY <1>1, <1>2 DEF Answerer, Held, Untouched
<1>4. NoLoop(m)
  BY <1>2, <1>3 DEF NoLoop
<1>5. \A d \in P : Named(m, d)
  BY <1>1, <1>2 DEF Held, Named
<1>6. ASSUME NEW d \in P
      PROVE  LET i == G!Serve(m, 80, d) IN i # 0 /\ (m[i].gone => d \in m[i].answers)
  <2> DEFINE i == G!Serve(m, 80, d)
  <2>1. i # 0 /\ i \in DOMAIN m /\ Fits(m[i], d)
    BY <1>2, <1>5, PageOf
  <2> HIDE DEF i
  <2>2. ASSUME m[i].gone
        PROVE  d \in m[i].answers
    <3>1. PICK h \in G!Domains : m[i].names = {h} /\ m[i].answers = {h}
      BY <1>3, <2>1, <2>2
    <3>2. Kind(m[i], d) < 4 /\ d \in G!Domains
      BY <2>1 DEF Fits
    <3>3. h = d
      BY <3>1, <3>2, OtherDomain
    <3>4. QED
      BY <3>1, <3>3
  <2>3. QED
    BY <2>1, <2>2 DEF i
<1>7. QED
  BY <1>4, <1>6 DEF Pages, m, n, c

LEMMA HandledPages ==
  ASSUME NEW P \in SUBSET G!Domains, NEW c, IsSeq(c), OneOfAKind(c), Emptied(c),
         \A d \in P : Named(c, d) /\ (Handled(c, d) \/ Untouched(c))
  PROVE  Pages(c, P)
<1>1. ASSUME NEW d \in P
      PROVE  LET i == G!Serve(c, 80, d) IN i # 0 /\ (c[i].gone => d \in c[i].redirects)
  <2> DEFINE i == G!Serve(c, 80, d)
  <2>1. /\ i # 0 /\ i \in DOMAIN c /\ Fits(c[i], d)
        /\ \A k \in DOMAIN c : Fits(c[k], d) => Kind(c[i], d) <= Kind(c[k], d)
    BY PageOf
  <2> HIDE DEF i
  <2>2. First(c, d, i)
    <3>1. ASSUME NEW j \in DOMAIN c \ {i}, G!Listens(c[j], 80)
          PROVE  Kind(c[i], d) < Kind(c[j], d)
      <4>1. Kind(c[i], d) \in 0..4 /\ Kind(c[j], d) \in 0..4 /\ Kind(c[i], d) < 4
        BY <2>1, KindIs DEF Fits
      <4>2. CASE Kind(c[j], d) < 4
        <5>1. Fits(c[j], d)
          BY <3>1, <4>2 DEF Fits
        <5>2. Kind(c[i], d) # Kind(c[j], d)
          BY <2>1, <5>1 DEF OneOfAKind
        <5>3. Kind(c[i], d) <= Kind(c[j], d)
          BY <2>1, <5>1
        <5>4. QED
          BY <4>1, <5>2, <5>3
      <4>3. CASE ~ (Kind(c[j], d) < 4)
        BY <4>1, <4>3
      <4>4. QED
        BY <4>2, <4>3
    <3>2. QED
      BY <2>1, <3>1 DEF First
  <2>3. c[i].gone => d \in c[i].redirects
    BY <2>1, <2>2 DEF Emptied, Handled, Untouched
  <2>4. QED
    BY <2>1, <2>3 DEF i
<1>2. QED
  BY <1>1 DEF Pages

\* No redirect at port 443.
LEMMA NoLoopServed ==
  ASSUME NEW c, NoLoop(c), NEW d
  PROVE  LET i == G!Serve(c, 443, d) IN i # 0 => d \notin c[i].redirects
<1> DEFINE at == {k \in DOMAIN c : G!Listens(c[k], 443)}
           i == G!Serve(c, 443, d)
<1>1. i \in {0} \cup at
  BY Answers DEF NoLoop
<1> HIDE DEF i
<1>2. i # 0 => c[i].redirects = {}
  BY <1>1 DEF NoLoop
<1>3. QED
  BY <1>2 DEF i

\* What the enhancements keep of a configuration, for the domains P that were
\* served by name and the domains D of the certificate.
Steady(c, P, D) ==
  /\ NoLoop(c) /\ OneOfAKind(c) /\ SaysSsl(c) /\ Emptied(c)
  /\ (\A d \in P : Named(c, d)) /\ (\A d \in D : Covered(c, d))

\* A block among others that redirects a domain more.
LEMMA RoutedStill ==
  ASSUME NEW c, NEW P, NEW D, Steady(c, P, D), NEW e, IsSeq(e), Routed(c, e),
         \A j \in DOMAIN c : e[j].gone = c[j].gone /\ c[j].redirects \subseteq e[j].redirects,
         \A j \in DOMAIN c : e[j].redirects # c[j].redirects => ~ G!Listens(c[j], 443)
  PROVE  /\ Steady(e, P, D)
         /\ \A h : Handled(c, h) => Handled(e, h)
         /\ \A h : \A i \in DOMAIN c : First(e, h, i) => First(c, h, i)
<1>1. DOMAIN e = DOMAIN c
  BY DEF Routed
<1>2. NoLoop(e)
  BY <1>1, RoutedBlocks DEF Steady, NoLoop
<1>3. Emptied(e)
  BY <1>1, RoutedBlocks DEF Steady, Emptied
<1>4. \A h : \A i \in DOMAIN c : First(e, h, i) => First(c, h, i)
  BY <1>1, RoutedBlocks DEF First
<1>5. \A h : Handled(c, h) => Handled(e, h)
  BY <1>1, <1>4, RoutedBlocks DEF Handled
<1>6. QED
  BY <1>2, <1>3, <1>4, <1>5, RoutedKept DEF Steady

\* The block that a redirect goes into, and that is split first: what is known of it.
LEMMA SplitAddresses ==
  ASSUME NEW c, NEW y \in DOMAIN c, IsBlock(c[y]), SaysSsl(c), G!PlainPort80(c, y), G!IsSsl(c, y)
  PROVE  /\ ~ c[y].sslOn /\ 80 \notin G!SslPorts(c)
         /\ \E a \in c[y].addrs : a.port = 80
         /\ \E a \in c[y].addrs : a.port = 443
         /\ \A a \in c[y].addrs : a.port \in {80, 443} /\ (a.ssl <=> a.port = 443)
<1>1. ~ c[y].sslOn
  BY DEF G!PlainPort80
<1>2. PICK s \in c[y].addrs : s.port \in G!SslPorts(c)
  BY <1>1 DEF G!IsSsl
<1>3. PICK a80 \in c[y].addrs : a80.port = 80 /\ 80 \notin G!SslPorts(c)
  BY <1>2 DEF G!PlainPort80
<1>4. \A a \in c[y].addrs : a.port \in {80, 443} /\ a.ssl \in BOOLEAN
  BY DEF IsBlock, G!Addr
<1>5. s.port = 443
  BY <1>2, <1>3, <1>4
<1>6. \A a \in c[y].addrs : a.port = 443 => a.ssl
  BY <1>1 DEF SaysSsl
<1>7. \A a \in c[y].addrs : a.ssl => a.port \in G!SslPorts(c)
  BY DEF G!SslPorts
<1>8. \A a \in c[y].addrs : a.ssl <=> a.port = 443
  BY <1>3, <1>4, <1>6, <1>7
<1>9. QED
  BY <1>1, <1>3, <1>4, <1>5, <1>8

\* A block y split, and the new one n, which redirects d.
SplitOff(c, y, e, n, d) ==
  /\ n \notin DOMAIN c /\ IsSeq(e) /\ DOMAIN e = DOMAIN c \cup {n}
  /\ \A j \in DOMAIN c \ {y} : e[j] = c[j]
  /\ e[y].names = c[y].names /\ e[y].addrs = {a \in c[y].addrs : a.ssl} /\ e[y].sslOn = c[y].sslOn
  /\ e[y].gone = c[y].gone /\ e[y].redirects = c[y].redirects
  /\ e[n].names = c[y].names /\ e[n].addrs = {a \in c[y].addrs : ~ a.ssl} /\ e[n].sslOn = FALSE
  /\ e[n].gone = TRUE /\ e[n].redirects = {d}

LEMMA SplitStill ==
  ASSUME NEW c, NEW P, NEW D, Steady(c, P, D), NEW y \in DOMAIN c, NEW n,
         IsBlock(c[y]), G!PlainPort80(c, y), G!IsSsl(c, y), NEW d,
         \A j \in DOMAIN c : G!PlainPort80(c, j) => Kind(c[y], d) <= Kind(c[j], d),
         NEW e, SplitOff(c, y, e, n, d)
  PROVE  /\ Steady(e, P, D) /\ Handled(e, d)
         /\ \A h : Handled(c, h) => Handled(e, h)
<1> USE DEF SplitOff
<1>1. /\ ~ c[y].sslOn /\ 80 \notin G!SslPorts(c)
      /\ \E a \in c[y].addrs : a.port = 80
      /\ \E a \in c[y].addrs : a.port = 443
      /\ \A a \in c[y].addrs : a.port \in {80, 443} /\ (a.ssl <=> a.port = 443)
  BY SplitAddresses DEF Steady
<1>2. /\ G!Listens(c[y], 80) /\ G!Listens(c[y], 443)
      /\ ~ G!Listens(e[y], 80) /\ G!Listens(e[n], 80) /\ ~ G!Listens(e[n], 443)
  BY <1>1 DEF G!Listens
<1>3. c[y].redirects = {} /\ ~ c[y].gone
  BY <1>2 DEF Steady, NoLoop, Emptied
<1>4. G!SslPorts(e) = G!SslPorts(c)
  <2>1. ASSUME NEW i \in DOMAIN c, NEW a \in c[i].addrs, a.ssl \/ c[i].sslOn
        PROVE  a.port \in G!SslPorts(e)
    <3>1. i \in DOMAIN e /\ a \in e[i].addrs /\ (a.ssl \/ e[i].sslOn)
      BY <1>1, <2>1
    <3>2. QED
      BY <3>1 DEF G!SslPorts
  <2>2. ASSUME NEW i \in DOMAIN e, NEW a \in e[i].addrs, a.ssl \/ e[i].sslOn
        PROVE  a.port \in G!SslPorts(c)
    <3>1. i \in DOMAIN c /\ a \in c[i].addrs /\ (a.ssl \/ c[i].sslOn)
      BY <2>2
    <3>2. QED
      BY <3>1 DEF G!SslPorts
  <2>3. \A p \in G!SslPorts(c) : \E i \in DOMAIN c : \E a \in c[i].addrs : p = a.port /\ (a.ssl \/ c[i].sslOn)
    BY DEF G!SslPorts
  <2>4. \A p \in G!SslPorts(e) : \E i \in DOMAIN e : \E a \in e[i].addrs : p = a.port /\ (a.ssl \/ e[i].sslOn)
    BY DEF G!SslPorts
  <2>5. \A p \in G!SslPorts(c) : p \in G!SslPorts(e)
    BY <2>1, <2>3
  <2>6. \A p \in G!SslPorts(e) : p \in G!SslPorts(c)
    BY <2>2, <2>4
  <2>7. QED
    BY <2>5, <2>6
<1>5. \A j \in DOMAIN c \ {y} : /\ G!IsSsl(e, j) <=> G!IsSsl(c, j)
                                /\ G!PlainPort80(e, j) <=> G!PlainPort80(c, j)
  BY <1>4 DEF G!IsSsl, G!PlainPort80
<1>6. G!IsSsl(e, y) /\ G!PlainPort80(e, n)
  <2>1. G!PlainPort80(e, n)
    BY <1>1, <1>4 DEF G!PlainPort80
  <2>2. PICK a \in c[y].addrs : a.port = 443 /\ a.ssl
    BY <1>1
  <2>3. 443 \in G!SslPorts(e) /\ a \in e[y].addrs
    <3>1. 443 \in G!SslPorts(c)
      BY <2>2 DEF G!SslPorts
    <3>2. QED
      BY <1>4, <2>2, <3>1
  <2>4. QED
    BY <2>1, <2>2, <2>3 DEF G!IsSsl
<1>7. /\ \A h : \A j \in DOMAIN c : Kind(e[j], h) = Kind(c[j], h)
      /\ \A h : Kind(e[n], h) = Kind(c[y], h)
  BY DEF Kind
\* Which block of c a block of e that listens at port 80 stems from.
<1> DEFINE From(j) == IF j = n THEN y ELSE j
<1>8. \A j \in DOMAIN e : G!Listens(e[j], 80) =>
        /\ j # y /\ From(j) \in DOMAIN c /\ G!Listens(c[From(j)], 80)
        /\ \A h : Kind(e[j], h) = Kind(c[From(j)], h)
  BY <1>2, <1>7
<1>9. \A j \in DOMAIN e : \A h : \E k \in DOMAIN c : Kind(e[j], h) = Kind(c[k], h)
  BY <1>7
<1>10. \A h : \A k \in DOMAIN c : \E j \in DOMAIN e :
         G!Listens(c[k], 80) => G!Listens(e[j], 80) /\ Kind(e[j], h) = Kind(c[k], h) /\ From(j) = k
  <2>1. ASSUME NEW h, NEW k \in DOMAIN c, G!Listens(c[k], 80)
        PROVE  \E j \in DOMAIN e : G!Listens(e[j], 80) /\ Kind(e[j], h) = Kind(c[k], h) /\ From(j) = k
    <3>1. CASE k = y
      <4>1. n \in DOMAIN e /\ G!Listens(e[n], 80) /\ Kind(e[n], h) = Kind(c[k], h) /\ From(n) = k
        BY <1>2, <1>7, <3>1
      <4>2. QED
        BY <4>1
    <3>2. CASE k # y
      <4>1. k \in DOMAIN e /\ G!Listens(e[k], 80) /\ Kind(e[k], h) = Kind(c[k], h) /\ From(k) = k
        BY <2>1, <3>2
      <4>2. QED
        BY <4>1
    <3>3. QED
      BY <3>1, <3>2
  <2>2. QED
    BY <2>1
<1>11. NoLoop(e)
  BY <1>2, <1>3 DEF NoLoop, Steady
<1>12. OneOfAKind(e)
  <2>1. ASSUME NEW h \in G!Domains, NEW i \in DOMAIN e, NEW j \in DOMAIN e,
               Fits(e[i], h), Fits(e[j], h), Kind(e[i], h) = Kind(e[j], h)
        PROVE  i = j
    <3>1. /\ i # y /\ From(i) \in DOMAIN c /\ Fits(c[From(i)], h)
          /\ j # y /\ From(j) \in DOMAIN c /\ Fits(c[From(j)], h)
          /\ Kind(c[From(i)], h) = Kind(c[From(j)], h)
      BY <1>8, <2>1 DEF Fits
    <3>2. From(i) = From(j)
      BY <3>1 DEF Steady, OneOfAKind
    <3>3. QED
      BY <3>1, <3>2
  <2>2. QED
    BY <2>1 DEF OneOfAKind
<1>13. SaysSsl(e)
  BY <1>1 DEF SaysSsl, Steady
<1>14. Emptied(e)
  BY <1>3, <1>5, <1>6 DEF Emptied, Steady
<1>15. \A h \in P : Named(e, h)
  BY <1>10 DEF Named, Fits, Steady
<1>16. \A h \in D : Covered(e, h)
  <2>1. ASSUME NEW h, Covered(c, h)
        PROVE  Covered(e, h)
    <3>1. PICK i \in DOMAIN c : /\ G!IsSsl(c, i) /\ Kind(c[i], h) < 4
                                /\ \A j \in DOMAIN c : Kind(c[i], h) <= Kind(c[j], h)
      BY <2>1 DEF Covered
    <3>2. i \in DOMAIN e /\ G!IsSsl(e, i) /\ Kind(e[i], h) = Kind(c[i], h)
      <4>1. CASE i = y
        BY <1>6, <1>7, <4>1
      <4>2. CASE i # y
        BY <1>5, <1>7, <3>1, <4>2
      <4>3. QED
        BY <4>1, <4>2
    <3>3. \A j \in DOMAIN e : Kind(e[i], h) <= Kind(e[j], h)
      BY <1>9, <3>1, <3>2
    <3>4. QED
      BY <3>1, <3>2, <3>3 DEF Covered
  <2>2. QED
    BY <2>1 DEF Steady
<1>17. Handled(e, d)
  <2>1. ASSUME NEW i \in DOMAIN e, First(e, d, i), G!PlainPort80(e, i), i # n
        PROVE  FALSE
    <3>1. i \in DOMAIN c /\ i # y
      BY <1>8, <2>1 DEF First, Fits
    <3>2. Kind(c[y], d) <= Kind(c[i], d)
      BY <1>5, <2>1, <3>1
    <3>3. Kind(e[i], d) < Kind(e[n], d)
      BY <1>2, <2>1 DEF First
    <3>4. Kind(e[i], d) = Kind(c[i], d) /\ Kind(e[n], d) = Kind(c[y], d)
      BY <1>7, <3>1
    <3>5. Kind(c[y], d) \in 0..4 /\ Kind(c[i], d) \in 0..4
      BY KindIs
    <3>6. QED
      BY <3>2, <3>3, <3>4, <3>5
  <2>2. QED
    BY <2>1 DEF Handled
<1>18. ASSUME NEW h, Handled(c, h)
       PROVE  Handled(e, h)
  <2>1. ASSUME NEW i \in DOMAIN e, First(e, h, i), G!PlainPort80(e, i)
        PROVE  h \in e[i].redirects
    <3>1. /\ i # y /\ From(i) \in DOMAIN c /\ Fits(c[From(i)], h)
          /\ Kind(e[i], h) = Kind(c[From(i)], h)
      BY <1>8, <2>1 DEF First, Fits
    <3>2. ASSUME NEW k \in DOMAIN c \ {From(i)}, G!Listens(c[k], 80)
          PROVE  Kind(c[From(i)], h) < Kind(c[k], h)
      <4>1. PICK j \in DOMAIN e : G!Listens(e[j], 80) /\ Kind(e[j], h) = Kind(c[k], h) /\ From(j) = k
        BY <1>10, <3>2
      <4>2. j # i
        BY <4>1
      <4>3. Kind(e[i], h) < Kind(e[j], h)
        BY <2>1, <4>1, <4>2 DEF First
      <4>4. QED
        BY <3>1, <4>1, <4>3
    <3>3. First(c, h, From(i))
      BY <3>1, <3>2 DEF First
    <3>4. G!PlainPort80(c, From(i))
      BY <1>5, <2>1, <3>1
    <3>5. h \in c[From(i)].redirects
      BY <1>18, <3>1, <3>3, <3>4 DEF Handled
    <3>6. i # n
      BY <1>3, <3>5
    <3>7. QED
      BY <3>1, <3>5, <3>6
  <2>2. QED
    BY <2>1 DEF Handled
<1>19. Steady(e, P, D)
  BY <1>11, <1>12, <1>13, <1>14, <1>15, <1>16 DEF Steady
<1>20. QED
  BY <1>17, <1>18, <1>19

LEMMA AimedAt ==
  ASSUME NEW e, GoodEdit(e), NEW at \in DOMAIN e.cfg
  PROVE  LET f == [e EXCEPT !.at = at]
         IN GoodEdit(f) /\ Aimed(f) /\ f.cfg = e.cfg /\ f.at = at /\ f.ok = e.ok
<1> DEFINE f == [e EXCEPT !.at = at]
<1>1. IsEdit(f) /\ f.cfg = e.cfg /\ f.nv = e.nv /\ f.at = at /\ f.ok = e.ok
  BY DEF GoodEdit, IsEdit
<1> HIDE DEF f
<1>2. GoodEdit(f) /\ Aimed(f)
  BY <1>1 DEF GoodEdit, Aimed
<1>3. QED
  BY <1>1, <1>2 DEF f

\* The redirect goes into the block chosen.
LEMMA RedirectPut ==
  ASSUME NEW f, GoodEdit(f), f.at \in DOMAIN f.cfg, NEW d
  PROVE  LET g == G!RedirectIn(f, d)
         IN /\ IsSeq(g.cfg) /\ Routed(f.cfg, g.cfg)
            /\ \A j \in DOMAIN f.cfg \ {f.at} : g.cfg[j] = f.cfg[j]
            /\ g.cfg[f.at].gone = f.cfg[f.at].gone
            /\ g.cfg[f.at].redirects = f.cfg[f.at].redirects \cup {d}
<1> DEFINE old == f.cfg[f.at]
           b == [old EXCEPT !.redirects = @ \cup {d}]
           g == [f EXCEPT !.cfg[f.at] = b]
<1>1. IsBlock(old)
  BY BlockOf
<1>2. G!RedirectIn(f, d) = g
  BY DEF G!RedirectIn
<1> HIDE DEF old
<1>3. /\ IsBlock(b) /\ b.names = old.names /\ b.addrs = old.addrs /\ b.sslOn = old.sslOn
      /\ b.gone = old.gone /\ b.redirects = old.redirects \cup {d}
  BY <1>1 DEF IsBlock
<1> HIDE DEF b
<1>4. GoodEdit(g)
  BY <1>3, Touched DEF old
<1>5. g.cfg = [f.cfg EXCEPT ![f.at] = b]
  BY DEF GoodEdit, IsEdit
<1> HIDE DEF g
<1>6. DOMAIN g.cfg = DOMAIN f.cfg /\ \A j \in DOMAIN f.cfg : g.cfg[j] = IF j = f.at THEN b ELSE f.cfg[j]
  BY <1>5
<1>7. IsSeq(g.cfg)
  BY <1>4 DEF GoodEdit, Fine, Good
<1>8. g.cfg[f.at] = b /\ \A j \in DOMAIN f.cfg \ {f.at} : g.cfg[j] = f.cfg[j]
  BY <1>6
<1>9. Routed(f.cfg, g.cfg)
  BY <1>3, <1>6, <1>8 DEF Routed, old
<1>10. QED
  BY <1>2, <1>3, <1>7, <1>8, <1>9 DEF old

\* The block chosen is split: its plain addresses move to a block of their own.
LEMMA SplitPut ==
  ASSUME NEW e, GoodEdit(e), e.at \in DOMAIN e.cfg
  PROVE  LET s == G!Split(e)
         IN /\ s.at \notin DOMAIN e.cfg /\ DOMAIN s.cfg = DOMAIN e.cfg \cup {s.at}
            /\ \A j \in DOMAIN e.cfg \ {e.at} : s.cfg[j] = e.cfg[j]
            /\ s.cfg[e.at].names = e.cfg[e.at].names
            /\ s.cfg[e.at].addrs = {a \in e.cfg[e.at].addrs : a.ssl}
            /\ s.cfg[e.at].sslOn = e.cfg[e.at].sslOn /\ s.cfg[e.at].gone = e.cfg[e.at].gone
            /\ s.cfg[e.at].redirects = e.cfg[e.at].redirects
            /\ s.cfg[s.at].names = e.cfg[e.at].names
            /\ s.cfg[s.at].addrs = {a \in e.cfg[e.at].addrs : ~ a.ssl}
            /\ s.cfg[s.at].sslOn = FALSE /\ s.cfg[s.at].gone = TRUE /\ s.cfg[s.at].redirects = {}
<1> DEFINE old == e.cfg[e.at]
           b == [old EXCEPT !.addrs = {a \in old.addrs : a.ssl}]
           p == G!Plain(old.names, {a \in old.addrs : ~ a.ssl})
           q == [p EXCEPT !.gone = TRUE]
           m == [e.cfg EXCEPT ![e.at] = b]
           c == Append(m, q)
           n == Len(e.cfg) + 1
           s == G!Split(e)
<1>1. IsBlock(old)
  BY BlockOf
<1>2. s = G!Edit(c, e.nv, n, TRUE)
  BY DEF G!Split, G!SplitVhost
<1>3. s.cfg = c /\ s.at = n
  BY <1>2 DEF G!Edit
<1>4. /\ b.names = old.names /\ b.addrs = {a \in old.addrs : a.ssl} /\ b.sslOn = old.sslOn
      /\ b.gone = old.gone /\ b.redirects = old.redirects
  BY <1>1 DEF IsBlock
<1>5. /\ p.names = old.names /\ p.addrs = {a \in old.addrs : ~ a.ssl}
      /\ p.sslOn = FALSE /\ p.redirects = {} /\ IsBlock(p)
  <2>1. {a \in old.addrs : ~ a.ssl} \in SUBSET G!Addr
    BY <1>1 DEF IsBlock
  <2>2. IsBlock(p)
    BY <2>1, PlainBlock
  <2>3. QED
    BY <2>2 DEF G!Plain
<1>6. /\ q.names = old.names /\ q.addrs = {a \in old.addrs : ~ a.ssl}
      /\ q.sslOn = FALSE /\ q.redirects = {} /\ q.gone = TRUE
  <2> HIDE DEF p
  <2>1. q.names = p.names /\ q.addrs = p.addrs /\ q.sslOn = p.sslOn /\ q.redirects = p.redirects
        /\ q.gone = TRUE
    BY <1>5 DEF IsBlock
  <2>2. QED
    BY <1>5, <2>1
<1> HIDE DEF s, b, q
<1>7. IsSeq(e.cfg)
  BY DEF GoodEdit, Fine, Good
<1>8. /\ IsSeq(m) /\ DOMAIN m = DOMAIN e.cfg /\ Len(m) = Len(e.cfg)
      /\ \A j \in DOMAIN e.cfg : m[j] = IF j = e.at THEN b ELSE e.cfg[j]
  <2> DEFINE r == e.cfg
             k == e.at
  <2>1. IsSeq(r)
    BY <1>7
  <2> HIDE DEF r, k
  <2>2. LET t == [r EXCEPT ![k] = b]
        IN /\ IsSeq(t) /\ DOMAIN t = DOMAIN r /\ Len(t) = Len(r)
           /\ \A j \in DOMAIN r : t[j] = IF j = k THEN b ELSE r[j]
    BY <2>1, Replacing
  <2>3. QED
    BY <2>2 DEF r, k
<1> HIDE DEF m
<1>9. /\ Len(m) \in Nat /\ DOMAIN m = 1..Len(m) /\ DOMAIN c = 1..(Len(m) + 1)
      /\ (\A j \in DOMAIN m : c[j] = m[j]) /\ c[Len(m) + 1] = q
  BY <1>8, Adding
<1> HIDE DEF c
<1>10. /\ n \notin DOMAIN e.cfg /\ DOMAIN c = DOMAIN e.cfg \cup {n} /\ c[n] = q
       /\ (\A j \in DOMAIN e.cfg : c[j] = m[j])
  BY <1>8, <1>9
<1> HIDE DEF n
<1>11. /\ \A j \in DOMAIN e.cfg \ {e.at} : c[j] = e.cfg[j]
       /\ c[e.at] = b
  BY <1>8, <1>10
<1>12. QED
  BY <1>3, <1>4, <1>6, <1>10, <1>11 DEF s, old

\* _enable_redirect: a block that is sure to serve the domain in plain text
\* redirects it, and nothing else that was served is lost.
LEMMA RedirectStill ==
  ASSUME NEW e, GoodEdit(e), NEW P, NEW D, Steady(e.cfg, P, D), NEW d
  PROVE  LET g == G!EnableRedirect(e, d)
         IN /\ Steady(g.cfg, P, D) /\ Handled(g.cfg, d)
            /\ \A h : Handled(e.cfg, h) => Handled(g.cfg, h)
<1> DEFINE c == e.cfg
           cand == {i \in DOMAIN c : G!PlainPort80(c, i)}
           at == G!SelectBest(c, cand, d)
           f == [e EXCEPT !.at = at]
           g == G!EnableRedirect(e, d)
<1>1. g = G!Redirect(f, d)
  BY DEF G!EnableRedirect, G!ChooseRedirectVhost, G!FoundPlain
<1>2. cand \in SUBSET (Nat \ {0})
  BY DEF GoodEdit, Fine, Good, IsSeq
<1>3. f.cfg = c /\ f.at = at
  BY DEF GoodEdit, IsEdit
<1>4. /\ at # 0 => /\ at \in cand /\ Kind(c[at], d) < 4
                   /\ \A j \in cand : Rank(c, at, d) <= Rank(c, j, d)
      /\ at = 0 => \A j \in cand : Kind(c[j], d) = 4
  <2> HIDE DEF c, cand
  <2>1. QED
    BY <1>2, Selected
<1>5. at # 0 => GoodEdit(f)
  <2>1. at # 0 => at \in DOMAIN e.cfg
    BY <1>4
  <2> HIDE DEF at
  <2>2. QED
    BY <2>1, AimedAt
<1> HIDE DEF f, g, at
<1>6. CASE at = 0
  <2>1. g.cfg = c
    BY <1>1, <1>3, <1>6 DEF G!Redirect
  <2>2. Handled(c, d)
    BY <1>4, <1>6 DEF Handled, First, Fits
  <2>3. QED
    BY <2>1, <2>2 DEF g
<1>7. CASE at # 0
  <2>1. at \in DOMAIN c /\ G!PlainPort80(c, at) /\ IsBlock(c[at])
    BY <1>4, <1>7, BlockOf
  <2>2. ASSUME NEW j \in cand
        PROVE  Kind(c[at], d) <= Kind(c[j], d)
    <3>1. Rank(c, at, d) <= Rank(c, j, d) /\ Kind(c[at], d) \in 0..4 /\ Kind(c[j], d) \in 0..4
      BY <1>4, <1>7, KindIs
    <3>2. QED
      BY <3>1 DEF Rank
  <2>3. CASE ~ G!IsSsl(c, at)
    <3>1. g = G!RedirectIn(f, d)
      BY <1>1, <1>3, <1>7, <2>3 DEF G!Redirect
    <3>2. /\ IsSeq(g.cfg) /\ Routed(f.cfg, g.cfg)
          /\ \A j \in DOMAIN f.cfg \ {f.at} : g.cfg[j] = f.cfg[j]
          /\ g.cfg[f.at].gone = f.cfg[f.at].gone
          /\ g.cfg[f.at].redirects = f.cfg[f.at].redirects \cup {d}
      <4>1. GoodEdit(f) /\ f.at \in DOMAIN f.cfg
        BY <1>3, <1>5, <1>7, <2>1
      <4>2. LET r == G!RedirectIn(f, d)
            IN /\ IsSeq(r.cfg) /\ Routed(f.cfg, r.cfg)
               /\ \A j \in DOMAIN f.cfg \ {f.at} : r.cfg[j] = f.cfg[j]
               /\ r.cfg[f.at].gone = f.cfg[f.at].gone
               /\ r.cfg[f.at].redirects = f.cfg[f.at].redirects \cup {d}
        BY <4>1, RedirectPut
      <4>3. QED
        BY <3>1, <4>2
    <3>3. G!Listens(c[at], 80) /\ ~ G!Listens(c[at], 443)
      <4>1. ~ c[at].sslOn
        BY <2>3 DEF G!IsSsl
      <4>2. \A a \in c[at].addrs : a.ssl => a.port \in G!SslPorts(c)
        BY <2>1 DEF G!SslPorts
      <4>3. \A a \in c[at].addrs : ~ a.ssl
        BY <2>3, <4>2 DEF G!IsSsl
      <4>4. \A a \in c[at].addrs : a.port # 443
        BY <2>1, <4>1, <4>3 DEF Steady, SaysSsl
      <4>5. G!Listens(c[at], 80)
        BY <2>1 DEF G!PlainPort80, G!Listens
      <4>6. QED
        BY <4>4, <4>5 DEF G!Listens
    <3>4. /\ \A j \in DOMAIN c : g.cfg[j].gone = c[j].gone /\ c[j].redirects \subseteq g.cfg[j].redirects
          /\ \A j \in DOMAIN c : g.cfg[j].redirects # c[j].redirects => ~ G!Listens(c[j], 443)
      BY <1>3, <3>2, <3>3
    <3> DEFINE m == g.cfg
    <3>5. Routed(c, m) /\ IsSeq(m) /\ Steady(c, P, D)
      BY <1>3, <3>2
    <3> HIDE DEF c, m
    <3>6. /\ Steady(m, P, D)
          /\ \A h : Handled(c, h) => Handled(m, h)
          /\ \A h : \A i \in DOMAIN c : First(m, h, i) => First(c, h, i)
      BY <3>4, <3>5, RoutedStill DEF m
    <3>7. Handled(m, d)
      <4>1. ASSUME NEW i \in DOMAIN m, First(m, d, i), G!PlainPort80(m, i), i # at
            PROVE  FALSE
        <5>1. i \in DOMAIN c /\ First(c, d, i) /\ G!PlainPort80(c, i)
          BY <3>5, <3>6, <4>1, RoutedBlocks DEF Routed
        <5>2. Kind(c[at], d) <= Kind(c[i], d)
          BY <2>2, <5>1
        <5>3. Kind(c[i], d) < Kind(c[at], d)
          BY <2>1, <3>3, <4>1, <5>1 DEF First
        <5>4. Kind(c[at], d) \in 0..4 /\ Kind(c[i], d) \in 0..4
          BY KindIs
        <5>5. QED
          BY <5>2, <5>3, <5>4
      <4>2. d \in m[at].redirects
        BY <1>3, <3>2 DEF m
      <4>3. QED
        BY <4>1, <4>2 DEF Handled
    <3>8. QED
      BY <3>6, <3>7 DEF m, g, c
  <2>4. CASE G!IsSsl(c, at)
    <3> DEFINE s == G!Split(f)
               n == s.at
               m == g.cfg
    <3>1. g = G!RedirectIn(s, d)
      BY <1>1, <1>3, <1>7, <2>4 DEF G!Redirect
    <3>2. GoodEdit(f) /\ f.at \in DOMAIN f.cfg /\ ~ f.cfg[f.at].sslOn
      BY <1>3, <1>5, <1>7, <2>1 DEF G!PlainPort80
    <3>3. GoodEdit(s) /\ s.at \in DOMAIN s.cfg
      BY <3>2, SplitEdit
    <3>4. /\ n \notin DOMAIN c /\ DOMAIN s.cfg = DOMAIN c \cup {n}
          /\ \A j \in DOMAIN c \ {at} : s.cfg[j] = c[j]
          /\ s.cfg[at].names = c[at].names
          /\ s.cfg[at].addrs = {a \in c[at].addrs : a.ssl}
          /\ s.cfg[at].sslOn = c[at].sslOn /\ s.cfg[at].gone = c[at].gone
          /\ s.cfg[at].redirects = c[at].redirects
          /\ s.cfg[n].names = c[at].names
          /\ s.cfg[n].addrs = {a \in c[at].addrs : ~ a.ssl}
          /\ s.cfg[n].sslOn = FALSE /\ s.cfg[n].gone = TRUE /\ s.cfg[n].redirects = {}
      <4>1. LET r == G!Split(f)
            IN /\ r.at \notin DOMAIN f.cfg /\ DOMAIN r.cfg = DOMAIN f.cfg \cup {r.at}
               /\ \A j \in DOMAIN f.cfg \ {f.at} : r.cfg[j] = f.cfg[j]
               /\ r.cfg[f.at].names = f.cfg[f.at].names
               /\ r.cfg[f.at].addrs = {a \in f.cfg[f.at].addrs : a.ssl}
               /\ r.cfg[f.at].sslOn = f.cfg[f.at].sslOn /\ r.cfg[f.at].gone = f.cfg[f.at].gone
               /\ r.cfg[f.at].redirects = f.cfg[f.at].redirects
               /\ r.cfg[r.at].names = f.cfg[f.at].names
               /\ r.cfg[r.at].addrs = {a \in f.cfg[f.at].addrs : ~ a.ssl}
               /\ r.cfg[r.at].sslOn = FALSE /\ r.cfg[r.at].gone = TRUE /\ r.cfg[r.at].redirects = {}
        BY <3>2, SplitPut
      <4> HIDE DEF c
      <4>2. QED
        BY <1>3, <4>1
    <3> HIDE DEF s
    <3>5. /\ IsSeq(g.cfg) /\ Routed(s.cfg, g.cfg)
          /\ \A j \in DOMAIN s.cfg \ {s.at} : g.cfg[j] = s.cfg[j]
          /\ g.cfg[s.at].gone = s.cfg[s.at].gone
          /\ g.cfg[s.at].redirects = s.cfg[s.at].redirects \cup {d}
      BY <3>1, <3>3, RedirectPut
    <3>6. /\ IsSeq(m) /\ DOMAIN m = DOMAIN c \cup {n}
          /\ \A j \in DOMAIN c \ {at} : m[j] = c[j]
          /\ m[at] = s.cfg[at]
          /\ m[n].gone = TRUE /\ m[n].redirects = {d}
          /\ m[n].names = s.cfg[n].names /\ m[n].addrs = s.cfg[n].addrs /\ m[n].sslOn = FALSE
      <4>1. DOMAIN m = DOMAIN s.cfg
        BY <3>5 DEF Routed
      <4>2. \A j \in DOMAIN c : m[j] = s.cfg[j]
        BY <3>4, <3>5
      <4>3. m[n].names = s.cfg[n].names /\ m[n].addrs = s.cfg[n].addrs /\ m[n].sslOn = s.cfg[n].sslOn
        BY <3>4, <3>5 DEF Routed
      <4>4. m[n].gone = TRUE /\ m[n].redirects = {d}
        BY <3>4, <3>5
      <4>5. IsSeq(m)
        BY <3>5
      <4> HIDE DEF m, n
      <4>6. QED
        BY <2>1, <3>4, <4>1, <4>2, <4>3, <4>4, <4>5
    <3> HIDE DEF m, n
    <3>7. /\ m[at].names = c[at].names /\ m[at].addrs = {a \in c[at].addrs : a.ssl}
          /\ m[at].sslOn = c[at].sslOn /\ m[at].gone = c[at].gone
          /\ m[at].redirects = c[at].redirects
          /\ m[n].names = c[at].names /\ m[n].addrs = {a \in c[at].addrs : ~ a.ssl}
      BY <3>4, <3>6
    <3>8. \A j \in DOMAIN c : G!PlainPort80(c, j) => Kind(c[at], d) <= Kind(c[j], d)
      BY <2>2
    <3> HIDE DEF c
    <3>9. /\ Steady(m, P, D) /\ Handled(m, d)
          /\ \A h : Handled(c, h) => Handled(m, h)
      <4>1. Steady(c, P, D)
        BY DEF c
      <4>2. n \notin DOMAIN c
        BY <3>4
      <4>3. SplitOff(c, at, m, n, d)
        BY <3>6, <3>7, <4>2 DEF SplitOff
      <4>4. at \in DOMAIN c /\ IsBlock(c[at]) /\ G!PlainPort80(c, at) /\ G!IsSsl(c, at)
        BY <2>1, <2>4
      <4>5. QED
        BY <3>8, <4>1, <4>3, <4>4, SplitStill
    <3>10. QED
      BY <3>9 DEF m, g, c
  <2>5. QED
    BY <2>3, <2>4
<1>8. QED
  BY <1>6, <1>7

\* _enable_ocsp_stapling: the block chosen for a domain that is deployed is the
\* ssl block it was deployed to, so nothing but the stapling changes.
LEMMA StapleStill ==
  ASSUME NEW e, GoodEdit(e), NEW d, Covered(e.cfg, d), NEW version
  PROVE  LET g == G!EnableStapling(e, d, version)
         IN g.ok => Alike(e.cfg, g.cfg)
<1> DEFINE c == e.cfg
           at == G!SelectBest(c, DOMAIN c, d)
           f == [e EXCEPT !.at = at]
           b == [f.cfg[f.at] EXCEPT !.stapled = "ours"]
           g == G!EnableStapling(e, d, version)
<1>1. DOMAIN c \in SUBSET (Nat \ {0})
  BY DEF GoodEdit, Fine, Good, IsSeq
<1>2. /\ at # 0 => /\ at \in DOMAIN c /\ Kind(c[at], d) < 4
                   /\ \A j \in DOMAIN c : Rank(c, at, d) <= Rank(c, j, d)
      /\ at = 0 => \A j \in DOMAIN c : Kind(c[j], d) = 4
  <2> HIDE DEF c
  <2>1. QED
    BY <1>1, Selected
<1>3. PICK i \in DOMAIN c : /\ G!IsSsl(c, i) /\ Kind(c[i], d) < 4
                            /\ \A j \in DOMAIN c : Kind(c[i], d) <= Kind(c[j], d)
  BY DEF Covered
<1>4. at # 0
  BY <1>2, <1>3
<1>5. at \in DOMAIN c
  BY <1>2, <1>4
<1>6. G!IsSsl(c, at)
  <2> HIDE DEF c, at
  <2>1. /\ Rank(c, at, d) <= Rank(c, i, d) /\ Kind(c[i], d) <= Kind(c[at], d)
        /\ Kind(c[at], d) \in 0..4 /\ Kind(c[i], d) \in 0..4
    <3>1. Kind(c[at], d) \in 0..4 /\ Kind(c[i], d) \in 0..4
      BY KindIs
    <3>2. Rank(c, at, d) <= Rank(c, i, d)
      BY <1>2, <1>4
    <3>3. Kind(c[i], d) <= Kind(c[at], d)
      BY <1>3, <1>5
    <3>4. QED
      BY <3>1, <3>2, <3>3
  <2>2. Rank(c, i, d) = 2 * Kind(c[i], d)
    BY <1>3, <2>1 DEF Rank
  <2>3. ~ G!IsSsl(c, at) => Rank(c, at, d) = 2 * Kind(c[at], d) + 1
    BY DEF Rank
  <2>4. QED
    BY <2>1, <2>2, <2>3
<1>7. /\ GoodEdit(f) /\ f.cfg = c /\ f.at = at /\ f.ok = e.ok
  <2> HIDE DEF at
  <2>1. LET r == [e EXCEPT !.at = at]
        IN GoodEdit(r) /\ Aimed(r) /\ r.cfg = e.cfg /\ r.at = at /\ r.ok = e.ok
    BY <1>5, AimedAt
  <2>2. QED
    BY <2>1
<1>8. G!ChooseVhost(e, d, FALSE) = f
  <2>1. G!Found(e, d, at, FALSE) = f
    BY <1>4 DEF G!Found
  <2>2. G!ChooseVhost(e, d, FALSE) = G!Secured(G!Found(e, d, at, FALSE))
    BY DEF G!ChooseVhost
  <2>3. G!IsSsl(f.cfg, f.at)
    BY <1>6, <1>7
  <2> HIDE DEF f, at
  <2>4. QED
    BY <2>1, <2>2, <2>3 DEF G!Secured
<1>9. g = G!Staple(f, version)
  BY <1>8 DEF G!EnableStapling
<1>10. Same(b, f.cfg[f.at]) /\ b.names = f.cfg[f.at].names
  <2>1. IsBlock(f.cfg[f.at])
    BY <1>5, <1>7, BlockOf
  <2>2. QED
    BY <2>1 DEF Same, IsBlock
<1>11. g = [f EXCEPT !.ok = FALSE] \/ g = [f EXCEPT !.cfg[f.at] = b]
  BY <1>9 DEF G!Staple
<1>12. ~ [f EXCEPT !.ok = FALSE].ok
  BY <1>7 DEF GoodEdit, IsEdit
<1> HIDE DEF f, b, g
<1>13. Alike(f.cfg, [f EXCEPT !.cfg[f.at] = b].cfg)
  <2>1. f.at \in DOMAIN f.cfg
    BY <1>5, <1>7
  <2>2. LET r == [f EXCEPT !.cfg[f.at] = b]
        IN Alike(f.cfg, r.cfg) /\ r.at = f.at /\ r.ok = f.ok
    BY <1>7, <1>10, <2>1, Marked
  <2>3. QED
    BY <2>2
<1>14. g.ok => Alike(e.cfg, g.cfg)
  BY <1>7, <1>11, <1>12, <1>13
<1>15. QED
  BY <1>14 DEF g

\* What is alike is as steady, and what was handled still is.
LEMMA AlikeStill ==
  ASSUME NEW c, NEW P, NEW D, Steady(c, P, D), NEW e, IsSeq(e), Alike(c, e)
  PROVE  /\ Steady(e, P, D)
         /\ \A h : Handled(c, h) => Handled(e, h)
         /\ Untouched(c) => Untouched(e)
<1>1. Routed(c, e) /\ (Untouched(c) => Untouched(e))
  BY AlikeKept
<1>2. /\ \A j \in DOMAIN c : e[j].gone = c[j].gone /\ c[j].redirects \subseteq e[j].redirects
      /\ \A j \in DOMAIN c : e[j].redirects # c[j].redirects => ~ G!Listens(c[j], 443)
  BY DEF Alike, Same
<1>3. /\ Steady(e, P, D)
      /\ \A h : Handled(c, h) => Handled(e, h)
      /\ \A h : \A i \in DOMAIN c : First(e, h, i) => First(c, h, i)
  BY <1>1, <1>2, RoutedStill
<1>4. QED
  BY <1>1, <1>3
-----------------------------------------------------------------------------
\* The pages to keep: those of the domains of the certificate that a block served
\* by name in plain text.
Wanted == {d \in Elements(doms) : Named(orig, d)}

\* What is safe to have on disk and in a checkpoint, when the pages of P are to be kept.
Safe(c, P) == NoLoop(c) /\ Pages(c, P)
Piled(s, P) == IsSeq(s) /\ \A i \in DOMAIN s : Safe(s[i], P)

\* What the edits in memory keep, by the step the run is at.  Nothing is redirected
\* as long as certificates are deployed, and the domains treated have an ssl block;
\* then each enhancement keeps what serves by name, and the domains treated are
\* handled.
SteadyMem ==
  /\ ipc = "perform" => mem = orig
  /\ ipc \in {"deploy", "deployed"} => Ready(mem, Wanted)
  /\ ipc = "deploy" => /\ Elements(todo) \subseteq Elements(doms)
                       /\ \A d \in Elements(doms) \ Elements(todo) : Covered(mem, d)
  /\ ipc = "deployed" => \A d \in Elements(doms) : Covered(mem, d)
  /\ ipc = "enhance" =>
       /\ IsSeq(todo) /\ Elements(todo) \subseteq Elements(doms) /\ Steady(mem, Wanted, Elements(doms))
       /\ G!Current = "redirect" => \A d \in Elements(doms) \ Elements(todo) : Handled(mem, d)
       /\ G!Current # "redirect" => \A d \in Elements(doms) : Handled(mem, d) \/ Untouched(mem)

NginxSteady ==
  /\ orig \in Configs /\ NoLoop(running)
  /\ Safe(conf, Wanted) /\ (\A c \in temp \cup prog : Safe(c, Wanted)) /\ Piled(stack, Wanted)
  /\ SteadyMem

\* The domains of the certificate.
LEMMA DomsAre ==
  ASSUME doms \in {<<"a">>, <<"a", "b">>}
  PROVE  /\ IsSeq(doms) /\ Elements(doms) \subseteq G!Domains
         /\ G!ToSet(doms) = Elements(doms)
         /\ doms[1] \in G!Domains /\ (Len(doms) # 1 => doms[2] \in G!Domains)
<1>1. doms \in Seq({"a", "b"})
  <2>1. <<"a">> \in Seq({"a", "b"}) /\ <<"a", "b">> \in Seq({"a", "b"})
    OBVIOUS
  <2>2. QED
    BY <2>1
<1>2. IsSeq(doms) /\ Elements(doms) \subseteq {"a", "b"}
  BY <1>1, SeqOf DEF Elements
<1>3. G!Domains = {"a", "b"}
  BY DEF G!Domains
<1>4. G!ToSet(doms) = Elements(doms)
  BY DEF G!ToSet, Elements
<1>5. doms[1] \in {"a", "b"} /\ (Len(doms) # 1 => doms[2] \in {"a", "b"})
  OBVIOUS
<1>6. QED
  BY <1>2, <1>3, <1>4, <1>5

\* What is found is ready, and safe.
LEMMA OrigReady ==
  ASSUME OrdinaryBlocks, orig \in Configs, IsSeq(orig)
  PROVE  Ready(orig, Wanted) /\ Safe(orig, Wanted) /\ OneOfAKind(orig)
<1>1. Untouched(orig) /\ SaysSsl(orig) /\ OneOfAKind(orig)
  BY DEF OrdinaryBlocks
<1>2. Held(orig, Wanted)
  BY <1>1 DEF Held, Wanted
<1>3. NoLoop(orig) /\ Pages(orig, Wanted)
  BY <1>2, HeldPages
<1>4. QED
  BY <1>1, <1>2, <1>3 DEF Ready, Safe

LEMMA PiledMore ==
  ASSUME NEW P, NEW s, Piled(s, P), NEW c, Safe(c, P)
  PROVE  Piled(Append(s, c), P)
<1> DEFINE S == Elements(s) \cup {c}
<1>1. s \in Seq(S) /\ c \in S
  BY DEF Piled, IsSeq
<1>2. \A x \in S : Safe(x, P)
  BY DEF Elements, Piled
<1> HIDE DEF S
<1>3. Append(s, c) \in Seq(S) /\ \A i \in DOMAIN Append(s, c) : Append(s, c)[i] \in S
  BY <1>1
<1>4. QED
  BY <1>2, <1>3, SeqOf DEF Piled

LEMMA PiledLess ==
  ASSUME NEW P, NEW s, Piled(s, P), s # <<>>
  PROVE  Safe(s[Len(s)], P) /\ Piled(SubSeq(s, 1, Len(s) - 1), P)
<1> DEFINE S == Elements(s)
           f == SubSeq(s, 1, Len(s) - 1)
<1>1. s \in Seq(S)
  BY DEF Piled, IsSeq
<1>2. \A x \in S : Safe(x, P)
  BY DEF Elements, Piled
<1> HIDE DEF S
<1>3. f \in Seq(S) /\ Len(s) \in Nat \ {0}
  BY <1>1, Shorter
<1>4. s[Len(s)] \in S
  BY <1>1, <1>3
<1> HIDE DEF f
<1>5. \A i \in DOMAIN f : f[i] \in S
  BY <1>3
<1>6. Piled(f, P)
  BY <1>2, <1>3, <1>5, SeqOf DEF Piled
<1>7. QED
  BY <1>2, <1>4, <1>6 DEF f

LEMMA NginxBeginsSteady ==
  ASSUME OrdinaryBlocks, G!Init
  PROVE  NginxSteady
<1>1. /\ orig \in Configs /\ mem = orig /\ conf = orig /\ running = orig
      /\ temp = {} /\ prog = {} /\ stack = <<>> /\ ipc = "perform"
  BY DEF G!Init
<1>2. IsSeq(orig)
  BY <1>1, Begin DEF Fine, Good, OrdinaryBlocks, SslAt443
<1>3. Safe(orig, Wanted)
  BY <1>1, <1>2, OrigReady
<1>4. Piled(<<>>, Wanted)
  <2>1. <<>> \in Seq({}) /\ DOMAIN <<>> = {}
    OBVIOUS
  <2>2. QED
    BY <2>1, SeqOf DEF Piled
<1>5. SteadyMem
  BY <1>1 DEF SteadyMem
<1>6. QED
  BY <1>1, <1>3, <1>4, <1>5 DEF NginxSteady, Safe

\* The pages to keep are those of the same domains as long as nobody asks anew.
LEMMA SameWanted ==
  ASSUME orig' = orig, doms' = doms
  PROVE  Wanted' = Wanted /\ Elements(doms)' = Elements(doms)
BY DEF Wanted

LEMMA NginxPerformsSteady ==
  ASSUME OrdinaryBlocks, NginxFound, NginxGood, NginxSteady, NEW ok \in BOOLEAN, G!Perform(ok)
  PROVE  NginxSteady'
<1> DEFINE x0 == [e |-> G!Edit(mem, newVhost, 0, TRUE), new |-> <<>>]
           x == G!InTurn(x0)
           P == Wanted
<1>0. ipc = "perform" /\ ipc' \in {"challenged", "raised"} /\ orig' = orig /\ doms' = doms
  BY DEF G!Perform, G!asked
<1>1. HeldWork(x0, P)
  <2> DEFINE e == G!Edit(mem, newVhost, 0, TRUE)
  <2>1. GoodEdit(e)
    BY NginxEdit
  <2>2. IsWork(x0) /\ x0.e = e /\ x0.new = <<>> /\ e.cfg = mem
    BY DEF IsWork, G!Edit
  <2> HIDE DEF e
  <2>3. IsSeq(<<>>) /\ DOMAIN <<>> = {}
    <3>1. <<>> \in Seq({}) /\ DOMAIN <<>> = {}
      OBVIOUS
    <3>2. QED
      BY <3>1, SeqOf
  <2> HIDE DEF x0
  <2>4. GoodWork(x0)
    BY <2>1, <2>2, <2>3 DEF GoodWork
  <2>5. Held(mem, P)
    <3>1. mem = orig /\ orig \in Configs
      BY <1>0 DEF NginxSteady, SteadyMem
    <3>2. QED
      BY <3>1 DEF OrdinaryBlocks, Held, Wanted
  <2>6. QED
    BY <2>2, <2>3, <2>4, <2>5 DEF HeldWork
<1> HIDE DEF x0
<1>2. ASSUME NEW y, HeldWork(y, P), NEW d \in G!Domains
      PROVE  HeldWork(G!Blocks(y, d), P)
  BY <1>2, HttpHeld, SniHeld DEF G!Blocks
<1>3. x = IF Len(doms) = 1 THEN G!Blocks(x0, doms[1]) ELSE G!Blocks(G!Blocks(x0, doms[1]), doms[2])
  BY DEF G!InTurn
<1>4. /\ Elements(doms) \subseteq G!Domains
      /\ doms[1] \in G!Domains /\ (Len(doms) # 1 => doms[2] \in G!Domains)
  BY DomsAre DEF NginxFound
<1>5. HeldWork(x, P)
  BY <1>1, <1>2, <1>3, <1>4
<1>6. P \in SUBSET G!Domains
  BY <1>4 DEF Wanted
<1>7. /\ prog' = prog /\ stack' = stack
      /\ \/ conf' = x.new \o x.e.cfg /\ temp' = {conf} /\ running' \in {running, conf'}
         \/ conf' = conf /\ temp' = temp /\ running' = running
  BY DEF G!Perform, G!PutInPlace, G!IncludedFirst, G!Restart, x0
<1> HIDE DEF x, P
<1>8. Safe(x.new \o x.e.cfg, P)
  BY <1>5, <1>6, WorkPages DEF Safe
<1>9. Safe(conf', P) /\ NoLoop(running') /\ (\A c \in temp' \cup prog' : Safe(c, P)) /\ Piled(stack', P)
  BY <1>7, <1>8 DEF NginxSteady, Safe, P
<1>10. SteadyMem'
  BY <1>0 DEF SteadyMem
<1>11. Wanted' = P /\ orig' \in Configs
  BY <1>0, SameWanted DEF P, NginxSteady
<1>12. QED
  BY <1>9, <1>10, <1>11 DEF NginxSteady

\* When the last challenge is cleaned up, the plugin is back at what it found.
LEMMA NginxCleansSteady ==
  ASSUME OrdinaryBlocks, NginxFound, NginxSteady,
         NEW ok \in BOOLEAN, NEW X \in SUBSET G!Domains, G!Cleanup(X, ok)
  PROVE  NginxSteady'
<1>1. /\ ipc' \in {"done", "deploy", "challenged"} /\ prog' = prog /\ stack' = stack
      /\ orig' = orig /\ doms' = doms /\ todo' = todo /\ (ipc' = "deploy" => ok /\ out' = {})
      /\ ipc \in {"raised", "challenged"} /\ X \subseteq out /\ out' = out \ X
      /\ \/ /\ conf' = (IF temp = {} THEN conf ELSE CHOOSE c \in temp : TRUE)
            /\ temp' = {} /\ mem' = conf' /\ running' \in {running, conf'}
         \/ conf' = conf /\ temp' = temp /\ running' = running
  BY DEF G!Cleanup, G!asked, G!Restart
<1>2. /\ temp \in {{}, {orig}} /\ (temp = {} => conf = orig) /\ challOut = Cardinality(out)
      /\ out \in SUBSET G!Domains /\ todo = doms
  BY <1>1 DEF NginxFound
<1>3. /\ Safe(conf', Wanted) /\ NoLoop(running') /\ (\A c \in temp' \cup prog' : Safe(c, Wanted))
      /\ Piled(stack', Wanted)
  <2>1. temp # {} => (CHOOSE c \in temp : TRUE) \in temp
    OBVIOUS
  <2>2. QED
    BY <1>1, <2>1 DEF NginxSteady, Safe
<1>4. Wanted' = Wanted /\ Elements(doms)' = Elements(doms) /\ orig' \in Configs
  BY <1>1, SameWanted DEF NginxSteady
<1>5. CASE ipc' = "deploy"
  <2>1. IsFiniteSet(out)
    BY <1>2, DomainsCounted, FS_Subset
  <2>2. out = X
    BY <1>1, <1>5
  <2>3. Cardinality(out) \in Nat
    BY <2>1, FS_CardinalityType
  <2>4. Cardinality(out) - Cardinality(X) = 0
    BY <2>2, <2>3
  <2>5. challOut' = 0
    <3>1. challOut' = challOut - G!Cardinality(X)
      BY DEF G!Cleanup
    <3>2. QED
      BY <1>2, <2>4, <3>1, NginxCardinality
  <2>6. mem' = orig
    <3>1. conf' = (IF temp = {} THEN conf ELSE CHOOSE c \in temp : TRUE) /\ mem' = conf'
      BY <2>5 DEF G!Cleanup, G!Reverts, G!RevertDue
    <3>2. QED
      BY <1>2, <3>1, Only
  <2>7. Ready(orig, Wanted)
    <3>1. orig \in Configs
      BY DEF NginxSteady
    <3>2. QED
      BY <3>1, Begin, OrigReady DEF Fine, Good, OrdinaryBlocks, SslAt443
  <2>8. SteadyMem'
    BY <1>1, <1>2, <1>4, <1>5, <2>6, <2>7 DEF SteadyMem
  <2>9. QED
    BY <1>3, <1>4, <2>8 DEF NginxSteady
<1>6. CASE ipc' # "deploy"
  <2>1. SteadyMem'
    BY <1>1, <1>6 DEF SteadyMem
  <2>2. QED
    BY <1>3, <1>4, <2>1 DEF NginxSteady
<1>7. QED
  BY <1>5, <1>6

LEMMA NginxDeploysSteady ==
  ASSUME NginxFound, NginxGood, NginxGood', NginxSteady, G!Deploy
  PROVE  NginxSteady'
<1> DEFINE e0 == G!Edit(mem, newVhost, 0, TRUE)
           d == Head(todo)
           e == G!DeployCert(e0, d)
           P == Wanted
           D == Elements(doms)
<1>1. /\ ipc = "deploy" /\ todo # <<>> /\ orig' = orig /\ doms' = doms
      /\ temp' = temp /\ stack' = stack /\ running' = running
      /\ \/ /\ e.ok /\ ipc' = ipc /\ todo' = Tail(todo)
            /\ mem' = e.cfg /\ conf' = e.cfg /\ prog' = (IF prog = {} THEN {conf} ELSE prog)
         \/ /\ conf' = (IF prog = {} THEN conf ELSE CHOOSE c \in prog : TRUE)
            /\ prog' = {} /\ ipc' = "done"
  BY DEF G!Deploy, G!SaveOrRecover, G!Save, G!Recover, G!asked, e0
<1>2. GoodEdit(e0)
  BY NginxEdit
<1>3. e0.cfg = mem
  BY DEF G!Edit
<1>4. /\ Ready(mem, P) /\ Elements(todo) \subseteq D
      /\ \A h \in D \ Elements(todo) : Covered(mem, h)
  BY <1>1 DEF NginxSteady, SteadyMem
<1>5. IsSeq(todo) /\ D \subseteq G!Domains
  BY <1>1, DomsAre DEF NginxFound
<1>6. d \in Elements(todo) /\ Elements(todo) = {d} \cup Elements(Tail(todo))
  BY <1>1, <1>5, HeadAndTail
<1> HIDE DEF e0, d
<1>7. /\ Ready(e.cfg, P)
      /\ \A h \in G!Domains \ {d} : Covered(mem, h) => Covered(e.cfg, h)
      /\ e.ok => Covered(e.cfg, d)
  <2>1. d \in G!Domains
    BY <1>4, <1>5, <1>6
  <2> HIDE DEF P
  <2>2. LET g == G!DeployCert(e0, d)
        IN /\ Ready(g.cfg, P)
           /\ \A h \in G!Domains \ {d} : Covered(e0.cfg, h) => Covered(g.cfg, h)
           /\ g.ok => Covered(g.cfg, d)
    BY <1>2, <1>3, <1>4, <2>1, DeployedReady
  <2>3. QED
    BY <1>3, <2>2
<1> HIDE DEF e, P, D
<1>8. Wanted' = P /\ Elements(doms)' = D /\ orig' \in Configs
  BY <1>1, SameWanted DEF P, D, NginxSteady
<1>9. /\ Safe(conf, P) /\ NoLoop(running) /\ (\A c \in temp \cup prog : Safe(c, P)) /\ Piled(stack, P)
  BY DEF NginxSteady, P
<1>10. CASE /\ e.ok /\ ipc' = ipc /\ todo' = Tail(todo)
            /\ mem' = e.cfg /\ conf' = e.cfg /\ prog' = (IF prog = {} THEN {conf} ELSE prog)
  <2>1. IsSeq(e.cfg)
    BY <1>10 DEF NginxGood, Fine, Good
  <2>2. Safe(e.cfg, P)
    BY <1>7, <2>1, HeldPages DEF Safe, Ready
  <2>3. \A h \in D \ Elements(Tail(todo)) : Covered(e.cfg, h)
    BY <1>4, <1>5, <1>6, <1>7, <1>10
  <2>4. Elements(Tail(todo)) \subseteq D
    BY <1>4, <1>6
  <2>5. Elements(todo)' = Elements(Tail(todo))
    BY <1>10
  <2>6. SteadyMem'
    BY <1>1, <1>7, <1>8, <1>10, <2>3, <2>4, <2>5 DEF SteadyMem
  <2>7. QED
    BY <1>1, <1>8, <1>9, <1>10, <2>2, <2>6 DEF NginxSteady
<1>11. CASE /\ conf' = (IF prog = {} THEN conf ELSE CHOOSE c \in prog : TRUE)
            /\ prog' = {} /\ ipc' = "done"
  <2>1. SteadyMem'
    BY <1>11 DEF SteadyMem
  <2>2. Safe(conf', P)
    BY <1>9, <1>11
  <2>3. QED
    BY <1>1, <1>8, <1>9, <1>11, <2>1, <2>2 DEF NginxSteady
<1>12. QED
  BY <1>1, <1>10, <1>11

\* What is in memory is saved once every domain is treated.
LEMMA NginxSavesDeployedSteady ==
  ASSUME NginxFound, NginxGood, NginxSteady, G!SaveDeployed
  PROVE  NginxSteady'
<1> DEFINE P == Wanted
           D == Elements(doms)
           c == IF prog = {} THEN conf ELSE CHOOSE x \in prog : TRUE
<1>1. /\ ipc = "deploy" /\ todo = <<>> /\ ipc' = "deployed" /\ orig' = orig /\ doms' = doms
      /\ temp' = temp /\ running' = running /\ mem' = mem /\ conf' = mem /\ prog' = {}
      /\ stack' = Append(stack, c)
  BY DEF G!SaveDeployed, G!Finalize, G!asked
<1>2. /\ Safe(conf, P) /\ NoLoop(running) /\ (\A x \in temp \cup prog : Safe(x, P)) /\ Piled(stack, P)
  BY DEF NginxSteady
<1>3. Ready(mem, P) /\ \A h \in D \ Elements(todo) : Covered(mem, h)
  BY <1>1 DEF NginxSteady, SteadyMem
<1>4. Elements(todo) = {}
  <2>1. DOMAIN <<>> = {}
    OBVIOUS
  <2>2. QED
    BY <1>1, <2>1 DEF Elements
<1>5. Wanted' = P /\ Elements(doms)' = D /\ orig' \in Configs
  BY <1>1, SameWanted DEF NginxSteady
<1> HIDE DEF P, D
<1>6. Safe(c, P)
  BY <1>2
<1> HIDE DEF c
<1>7. Safe(mem, P)
  BY <1>3, HeldPages DEF Safe, Ready, NginxGood, Fine, Good
<1>8. Piled(stack', P)
  BY <1>1, <1>2, <1>6, PiledMore
<1>9. SteadyMem'
  BY <1>1, <1>3, <1>4, <1>5 DEF SteadyMem
<1>10. QED
  BY <1>1, <1>2, <1>5, <1>7, <1>8, <1>9 DEF NginxSteady

LEMMA NginxSavesEnhancedSteady ==
  ASSUME NginxFound, NginxGood, NginxSteady, G!SaveEnhanced
  PROVE  NginxSteady'
<1> DEFINE P == Wanted
           D == Elements(doms)
           c == IF prog = {} THEN conf ELSE CHOOSE x \in prog : TRUE
<1>1. /\ ipc = "enhance" /\ todo = <<>> /\ orig' = orig /\ doms' = doms
      /\ ipc' = "enhanced" \/ (ipc' = "enhance" /\ todo' = doms)
      /\ temp' = temp /\ running' = running /\ mem' = mem /\ conf' = mem /\ prog' = {}
      /\ stack' = Append(stack, c)
  BY DEF G!SaveEnhanced, G!Finalize, G!asked
<1>2. /\ Safe(conf, P) /\ NoLoop(running) /\ (\A x \in temp \cup prog : Safe(x, P)) /\ Piled(stack, P)
  BY DEF NginxSteady
<1>3. /\ Steady(mem, P, D)
      /\ G!Current = "redirect" => \A h \in D \ Elements(todo) : Handled(mem, h)
      /\ G!Current # "redirect" => \A h \in D : Handled(mem, h) \/ Untouched(mem)
  BY <1>1 DEF NginxSteady, SteadyMem
<1>4. Elements(todo) = {}
  <2>1. DOMAIN <<>> = {}
    OBVIOUS
  <2>2. QED
    BY <1>1, <2>1 DEF Elements
<1>5. \A h \in D : Handled(mem, h) \/ Untouched(mem)
  BY <1>3, <1>4
<1>6. Wanted' = P /\ Elements(doms)' = D /\ orig' \in Configs
  BY <1>1, SameWanted DEF NginxSteady
<1>7. P \in SUBSET D /\ D \subseteq G!Domains /\ IsSeq(doms)
  BY DomsAre DEF Wanted, NginxFound
<1> HIDE DEF P, D
<1>8. Safe(c, P)
  BY <1>2
<1> HIDE DEF c
<1>9. Safe(mem, P)
  <2>1. IsSeq(mem) /\ NoLoop(mem) /\ OneOfAKind(mem) /\ Emptied(mem) /\ \A h \in P : Named(mem, h)
    BY <1>3 DEF Steady, NoLoop
  <2>2. Pages(mem, P)
    BY <1>5, <1>7, <2>1, HandledPages
  <2>3. QED
    BY <2>1, <2>2 DEF Safe
<1>10. Piled(stack', P)
  BY <1>1, <1>2, <1>8, PiledMore
<1>11. SteadyMem'
  <2>1. CASE ipc' = "enhanced"
    BY <2>1 DEF SteadyMem
  <2>2. CASE ipc' = "enhance" /\ todo' = doms
    <3>1. Elements(todo)' = D
      BY <1>6, <2>2 DEF D
    <3>2. IsSeq(todo)' /\ Steady(mem', P, D) /\ \A h \in D : Handled(mem', h) \/ Untouched(mem')
      BY <1>1, <1>3, <1>5, <1>7, <2>2
    <3>3. QED
      BY <1>6, <2>2, <3>1, <3>2 DEF SteadyMem
  <2>3. QED
    BY <1>1, <2>1, <2>2
<1>12. QED
  BY <1>1, <1>2, <1>6, <1>9, <1>10, <1>11 DEF NginxSteady

\* A restart serves what is on disk, or what a checkpoint holds.
LEMMA NginxRestartsSteady ==
  ASSUME NginxFound, NginxGood, NginxSteady, NEW ok \in BOOLEAN, NEW again \in BOOLEAN,
         G!RestartDeployed(ok, again) \/ G!RestartEnhanced(ok, again)
  PROVE  NginxSteady'
<1> DEFINE P == Wanted
           D == Elements(doms)
<1>1. /\ ipc \in {"deployed", "enhanced"} /\ temp' = temp /\ orig' = orig /\ doms' = doms
      /\ \/ /\ conf' = conf /\ prog' = prog /\ stack' = stack /\ mem' = mem /\ running' = conf
            /\ ipc' = "done" \/ (ipc = "deployed" /\ ipc' = "enhance" /\ todo' = doms)
         \/ /\ conf' = stack[Len(stack)] /\ stack' = SubSeq(stack, 1, Len(stack) - 1)
            /\ prog' = {} /\ running' \in {running, conf'} /\ ipc' = "done"
  BY DEF G!RestartDeployed, G!RestartEnhanced, G!Rollback, G!Restart, G!files, G!edit, G!asked,
         G!Last, G!Front
<1>2. /\ Safe(conf, P) /\ NoLoop(running) /\ (\A x \in temp \cup prog : Safe(x, P)) /\ Piled(stack, P)
  BY DEF NginxSteady
<1>3. ipc = "deployed" => Ready(mem, P) /\ \A h \in D : Covered(mem, h)
  BY DEF NginxSteady, SteadyMem
<1>4. stack # <<>>
  BY <1>1 DEF NginxFound
<1>5. Wanted' = P /\ Elements(doms)' = D /\ orig' \in Configs
  BY <1>1, SameWanted DEF NginxSteady
<1>6. IsSeq(doms) /\ IsSeq(mem)
  BY DomsAre DEF NginxFound, NginxGood, Fine, Good
<1> HIDE DEF P, D
<1>7. Safe(stack[Len(stack)], P) /\ Piled(SubSeq(stack, 1, Len(stack) - 1), P)
  BY <1>2, <1>4, PiledLess
<1>8. SteadyMem'
  <2>1. CASE ipc' = "done"
    BY <2>1 DEF SteadyMem
  <2>2. CASE ipc = "deployed" /\ ipc' = "enhance" /\ todo' = doms /\ mem' = mem
    <3>1. Held(mem, P) /\ OneOfAKind(mem) /\ SaysSsl(mem) /\ \A h \in D : Covered(mem, h)
      BY <1>3, <2>2 DEF Ready
    <3>2. NoLoop(mem)
      BY <1>6, <3>1, HeldPages
    <3>3. Emptied(mem) /\ Untouched(mem) /\ \A h \in P : Named(mem, h)
      BY <3>1 DEF Held, Untouched, Emptied
    <3>4. Steady(mem, P, D)
      BY <3>1, <3>2, <3>3 DEF Steady
    <3>5. Elements(todo)' = D
      BY <1>5, <2>2 DEF D
    <3>6. IsSeq(todo)' /\ Steady(mem', P, D) /\ Untouched(mem')
      BY <1>6, <2>2, <3>3, <3>4
    <3>7. QED
      BY <1>5, <2>2, <3>5, <3>6 DEF SteadyMem
  <2>3. QED
    BY <1>1, <2>1, <2>2
<1>9. /\ Safe(conf', P) /\ NoLoop(running') /\ (\A x \in temp' \cup prog' : Safe(x, P))
      /\ Piled(stack', P)
  BY <1>1, <1>2, <1>7 DEF Safe
<1>10. QED
  BY <1>5, <1>8, <1>9 DEF NginxSteady

\* An enhancement is put in memory, for one domain, or everything is undone.
LEMMA NginxEnhancesSteady ==
  ASSUME NginxFound, NginxGood, NginxGood', NginxSteady, NEW version \in BOOLEAN, G!Enhance(version)
  PROVE  NginxSteady'
<1> DEFINE e0 == G!Edit(mem, newVhost, 0, TRUE)
           d == Head(todo)
           P == Wanted
           D == Elements(doms)
           r == G!EnableRedirect(e0, d)
           s == G!EnableStapling(e0, d, version)
<1>1. /\ ipc = "enhance" /\ todo # <<>> /\ orig' = orig /\ doms' = doms
      /\ temp' = temp /\ stack' = stack /\ running' = running /\ enh' = enh
      /\ \/ /\ conf' = conf /\ prog' = prog /\ ipc' = ipc /\ todo' = Tail(todo)
            /\ \/ G!Current = "redirect" /\ mem' = r.cfg
               \/ G!Current = "staple" /\ s.ok /\ mem' = s.cfg
         \/ /\ conf' = (IF prog = {} THEN conf ELSE CHOOSE c \in prog : TRUE)
            /\ prog' = {} /\ ipc' = "done"
  BY DEF G!Enhance, G!KeepOrRecover, G!Recover, G!asked, e0
<1>2. GoodEdit(e0)
  BY NginxEdit
<1>3. e0.cfg = mem
  BY DEF G!Edit
<1>4. /\ IsSeq(todo) /\ Elements(todo) \subseteq D /\ Steady(mem, P, D)
      /\ G!Current = "redirect" => \A h \in D \ Elements(todo) : Handled(mem, h)
      /\ G!Current # "redirect" => \A h \in D : Handled(mem, h) \/ Untouched(mem)
  BY <1>1 DEF NginxSteady, SteadyMem
<1>5. /\ d \in Elements(todo) /\ Elements(todo) = {d} \cup Elements(Tail(todo))
  BY <1>1, <1>4, HeadAndTail
<1>6. IsSeq(Tail(todo))
  <2>1. todo \in Seq(Elements(todo))
    BY <1>4 DEF IsSeq
  <2>2. QED
    BY <1>1, <2>1, Shorter, SeqOf
<1>7. Wanted' = P /\ Elements(doms)' = D /\ orig' \in Configs
  BY <1>1, SameWanted DEF NginxSteady
<1>8. /\ Safe(conf, P) /\ NoLoop(running) /\ (\A c \in temp \cup prog : Safe(c, P)) /\ Piled(stack, P)
  BY DEF NginxSteady
<1>9. G!Current' = G!Current
  BY <1>1 DEF G!Current
<1> HIDE DEF e0, d, P, D
<1>10. /\ Steady(r.cfg, P, D) /\ Handled(r.cfg, d)
       /\ \A h : Handled(mem, h) => Handled(r.cfg, h)
  <2>1. LET g == G!EnableRedirect(e0, d)
        IN /\ Steady(g.cfg, P, D) /\ Handled(g.cfg, d)
           /\ \A h : Handled(e0.cfg, h) => Handled(g.cfg, h)
    BY <1>2, <1>3, <1>4, RedirectStill
  <2>2. QED
    BY <1>3, <2>1
<1>11. s.ok => Alike(mem, s.cfg)
  <2>1. Covered(mem, d)
    BY <1>4, <1>5 DEF Steady
  <2>2. LET g == G!EnableStapling(e0, d, version)
        IN g.ok => Alike(e0.cfg, g.cfg)
    BY <1>2, <1>3, <2>1, StapleStill
  <2>3. QED
    BY <1>3, <2>2
<1> HIDE DEF r, s
<1>12. CASE /\ conf' = conf /\ prog' = prog /\ ipc' = ipc /\ todo' = Tail(todo)
            /\ G!Current = "redirect" /\ mem' = r.cfg
  <2>1. \A h \in D \ Elements(Tail(todo)) : Handled(r.cfg, h)
    BY <1>4, <1>5, <1>10, <1>12
  <2>2. Elements(todo)' = Elements(Tail(todo))
    BY <1>12
  <2>3. SteadyMem'
    BY <1>1, <1>4, <1>5, <1>6, <1>7, <1>9, <1>10, <1>12, <2>1, <2>2 DEF SteadyMem
  <2>4. QED
    BY <1>1, <1>7, <1>8, <1>12, <2>3 DEF NginxSteady
<1>13. CASE /\ conf' = conf /\ prog' = prog /\ ipc' = ipc /\ todo' = Tail(todo)
            /\ G!Current = "staple" /\ s.ok /\ mem' = s.cfg
  <2>1. IsSeq(s.cfg)
    BY <1>13 DEF NginxGood, Fine, Good
  <2>2. /\ Steady(s.cfg, P, D)
        /\ \A h : Handled(mem, h) => Handled(s.cfg, h)
        /\ Untouched(mem) => Untouched(s.cfg)
    BY <1>4, <1>11, <1>13, <2>1, AlikeStill
  <2>3. \A h \in D : Handled(s.cfg, h) \/ Untouched(s.cfg)
    BY <1>4, <1>13, <2>2
  <2>4. Elements(todo)' = Elements(Tail(todo))
    BY <1>13
  <2>5. SteadyMem'
    BY <1>1, <1>4, <1>5, <1>6, <1>7, <1>9, <1>13, <2>2, <2>3, <2>4 DEF SteadyMem
  <2>6. QED
    BY <1>1, <1>7, <1>8, <1>13, <2>5 DEF NginxSteady
<1>14. CASE /\ conf' = (IF prog = {} THEN conf ELSE CHOOSE c \in prog : TRUE)
            /\ prog' = {} /\ ipc' = "done"
  <2>1. SteadyMem'
    BY <1>14 DEF SteadyMem
  <2>2. Safe(conf', P)
    BY <1>8, <1>14
  <2>3. QED
    BY <1>1, <1>7, <1>8, <1>14, <2>1, <2>2 DEF NginxSteady
<1>15. QED
  BY <1>1, <1>12, <1>13, <1>14

LEMMA NginxStaysSteady ==
  ASSUME NginxSteady,
         UNCHANGED <<orig, mem, conf, running, temp, prog, stack, doms, enh, todo, ipc>>
  PROVE  NginxSteady'
<1>1. Wanted' = Wanted /\ Elements(doms)' = Elements(doms) /\ Elements(todo)' = Elements(todo)
  BY SameWanted
<1>2. G!Current' = G!Current
  BY DEF G!Current
<1>3. SteadyMem'
  BY <1>1, <1>2 DEF NginxSteady, SteadyMem
<1>4. QED
  BY <1>1, <1>3 DEF NginxSteady

LEMMA NginxKeptSteady ==
  ASSUME OrdinaryBlocks, NginxFound, NginxGood, NginxGood', NginxSteady, G!Next
  PROVE  NginxSteady'
<1>1. ASSUME NEW ok \in BOOLEAN, NEW X \in SUBSET G!Domains, G!Cleanup(X, ok)
      PROVE  NginxSteady'
  BY <1>1, NginxCleansSteady
<1>2. ASSUME NEW ok \in BOOLEAN, G!Perform(ok) \/ G!Enhance(ok)
      PROVE  NginxSteady'
  BY <1>2, NginxPerformsSteady, NginxEnhancesSteady
<1>3. ASSUME NEW ok \in BOOLEAN, NEW again \in BOOLEAN,
             G!RestartDeployed(ok, again) \/ G!RestartEnhanced(ok, again)
      PROVE  NginxSteady'
  BY <1>3, NginxRestartsSteady
<1>4. CASE G!Deploy
  BY <1>4, NginxDeploysSteady
<1>5. CASE G!SaveDeployed \/ G!SaveEnhanced
  BY <1>5, NginxSavesDeployedSteady, NginxSavesEnhancedSteady
<1>6. CASE G!Invalid
  <2>1. /\ ipc' = "done" /\ orig' = orig /\ doms' = doms /\ conf' = conf /\ running' = running
        /\ temp' = temp /\ prog' = prog /\ stack' = stack
    BY <1>6 DEF G!Invalid, G!files, G!asked
  <2>2. Wanted' = Wanted /\ SteadyMem'
    BY <2>1, SameWanted DEF SteadyMem
  <2>3. QED
    BY <2>1, <2>2 DEF NginxSteady
<1>7. CASE G!Over
  <2>1. UNCHANGED <<orig, mem, conf, running, temp, prog, stack, doms, enh, todo, ipc>>
    BY <1>7 DEF G!Over, G!vars
  <2>2. QED
    BY <2>1, NginxStaysSteady
<1>8. QED
  BY <1>1, <1>2, <1>3, <1>4, <1>5, <1>6, <1>7 DEF G!Next, G!Client

LEMMA NginxKeepsPages ==
  ASSUME NginxFound, NginxSteady
  PROVE  G!LoopFree /\ G!StillServed
<1>1. NoLoop(conf) /\ NoLoop(running) /\ Pages(conf, Wanted)
  BY DEF NginxSteady, Safe
<1>2. G!LoopFree
  BY <1>1, NoLoopServed DEF G!LoopFree
<1>3. ASSUME NEW d \in G!ToSet(doms),
             \E i \in DOMAIN orig : G!Listens(orig[i], 80) /\ G!BestMatch(d, orig[i].names)[1] < 4
      PROVE  LET i == G!Serve(conf, 80, d)
             IN i # 0 /\ (conf[i].gone => d \in conf[i].redirects \cup conf[i].answers)
  <2>1. d \in Elements(doms)
    BY <1>3, DomsAre DEF NginxFound
  <2>2. d \in Wanted
    BY <1>3, <2>1 DEF Wanted, Named, Fits, Kind
  <2>3. QED
    BY <1>1, <2>2 DEF Pages
<1>4. QED
  BY <1>2, <1>3 DEF G!StillServed

PagesInv ==
  /\ Nginx => NginxGood /\ NginxSteady
  /\ Apache => ApacheStraight

\* No redirect leads to itself, and a domain that a block of nginx served by name in
\* plain text is served there again, or redirected, whatever the run did: from any
\* configuration without redirects, in which no two blocks of nginx in plain text are
\* found for a domain by the same kind of name and each that listens at 443 says
\* `ssl`.
THEOREM PagesKept ==
  ASSUME NoLoopYet, OrdinaryBlocks
  PROVE  MCSpec => []NoPageLost
<1>1. MCInit => PagesInv
  BY NginxBeginsGood, NginxBeginsSteady, ApacheBeginsStraight
     DEF MCInit, PagesInv, Nginx, Apache, OrdinaryBlocks, SslAt443
<1>2. InstallersInv /\ InstallersInv' /\ PagesInv /\ [MCNext]_mcVars => PagesInv'
  <2> SUFFICES ASSUME InstallersInv, InstallersInv', PagesInv, [MCNext]_mcVars
               PROVE  PagesInv'
    OBVIOUS
  <2>1. CASE NginxNext
    <3>1. /\ part = "nginx" /\ part' = part /\ G!Next /\ NginxFound /\ NginxGood /\ NginxSteady
          /\ NginxFound'
      BY <2>1 DEF NginxNext, InstallersInv, PagesInv, Nginx
    <3>2. NginxGood'
      BY <3>1, NginxKeptGood
    <3>3. NginxSteady'
      BY <3>1, <3>2, NginxKeptSteady
    <3>4. QED
      BY <3>1, <3>2, <3>3 DEF PagesInv, Nginx, Apache
  <2>2. CASE ApacheNext
    <3>1. part = "apache" /\ part' = part /\ A!Next /\ ApacheFound /\ ApacheStraight
      BY <2>2 DEF ApacheNext, InstallersInv, PagesInv, Apache
    <3>2. ApacheStraight'
      BY <3>1, ApacheKeptStraight
    <3>3. QED
      BY <3>1, <3>2 DEF PagesInv, Nginx, Apache
  <2>3. CASE AccountsNext
    <3>1. part = "accounts" /\ part' = part
      BY <2>3 DEF AccountsNext
    <3>2. QED
      BY <3>1 DEF PagesInv, Nginx, Apache
  <2>4. CASE UNCHANGED mcVars
    <3>1. /\ UNCHANGED <<part, orig, mem, conf, running, temp, prog, stack, doms, enh, todo, ipc>>
          /\ UNCHANGED <<newVhost, ancestor, assoc>>
      BY <2>4 DEF mcVars, shared, nginx, apache
    <3>2. NginxGood => NginxGood'
      BY <3>1 DEF NginxGood
    <3>3. NginxSteady => NginxSteady'
      BY <3>1, NginxStaysSteady
    <3>4. ApacheStraight => ApacheStraight'
      BY <3>1 DEF ApacheStraight, AllChosen
    <3>5. QED
      BY <3>1, <3>2, <3>3, <3>4 DEF PagesInv, Nginx, Apache
  <2>5. QED
    BY <2>1, <2>2, <2>3, <2>4 DEF MCNext
<1>3. InstallersInv /\ PagesInv => NoPageLost
  BY NginxKeepsPages, ApacheNoLoop DEF InstallersInv, PagesInv, NoPageLost, Nginx, Apache
<1>4. QED
  BY <1>1, <1>2, <1>3, InstallersInvariant, PTL DEF MCSpec
-----------------------------------------------------------------------------
(* A challenge is answered by Apache: the host the plugin chose for a domain *)
(* is the one that Apache chooses.                                           *)

Plains(c) == {i \in DOMAIN c : c[i].port = 80}
\* Whoever may be asked for a domain at port 80 answers its challenge.
Replies(c, d) ==
  /\ Plains(c) # {}
  /\ \A i \in Plains(c) :
       A!Matches(c[i], d) \/ (\A k \in Plains(c) : ~ A!Matches(c[k], d)) => c[i].answers
\* A host of the CA's test domain.
Tested(c, z) == \E i \in DOMAIN c : c[i].enabled /\ c[i].port = 443 /\ z \in c[i].names

Usual(c) == IsSeq(c) /\ OneMatch(c) /\ \A i \in DOMAIN c : IsHost(c[i]) /\ c[i].enabled

LEMMA MostOf ==
  ASSUME NEW S \in SUBSET {0, 2, 3}, S # {}
  PROVE  A!Max(S) \in S /\ \A y \in S : y <= A!Max(S)
<1>1. \E x \in S : \A y \in S : x >= y
  <2>1. CASE 3 \in S
    BY <2>1
  <2>2. CASE 3 \notin S /\ 2 \in S
    BY <2>2
  <2>3. CASE 3 \notin S /\ 2 \notin S
    <3>1. S = {0}
      BY <2>3
    <3>2. QED
      BY <3>1
  <2>4. QED
    BY <2>1, <2>2, <2>3
<1>2. A!Max(S) \in S /\ \A y \in S : A!Max(S) >= y
  BY <1>1 DEF A!Max
<1>3. QED
  BY <1>2

\* The plugin's choice among the hosts at port 80: the one that matches; where
\* none does, the only one there is, or none.
LEMMA BestHost ==
  ASSUME NEW c, IsSeq(c), OneMatch(c), NEW d \in A!Domains
  PROVE  LET best == A!FindBestVhost(c, Plains(c), d)
         IN \A i \in Plains(c) :
              A!Matches(c[i], d) \/ (\A k \in Plains(c) : ~ A!Matches(c[k], d)) => i = best \/ best = 0
<1> DEFINE plain == Plains(c)
           S == {0} \cup {A!Points(c[i], d) : i \in plain}
           top == A!Max(S)
           tops == {i \in plain : A!Points(c[i], d) = top}
           best == A!FindBestVhost(c, plain, d)
<1>1. best = IF top > 0 THEN A!Min(tops) ELSE IF A!Cardinality(plain) = 1 THEN A!Min(plain) ELSE 0
  BY DEF A!FindBestVhost
<1>2. plain \in SUBSET Nat
  BY DEF Plains, IsSeq
<1>3. ASSUME NEW i \in plain
      PROVE  /\ A!Points(c[i], d) \in {0, 2, 3}
             /\ A!Points(c[i], d) # 0 <=> A!Matches(c[i], d)
  BY <1>3 DEF Plains, A!Points, A!Matches
<1>4. S \in SUBSET {0, 2, 3} /\ S # {}
  BY <1>3
<1>5. top \in S /\ \A y \in S : y <= top
  <2> HIDE DEF S
  <2>1. QED
    BY <1>4, MostOf
<1>6. \A i \in plain : A!Points(c[i], d) \in S
  OBVIOUS
<1>7. top # 0 => \E i \in plain : A!Points(c[i], d) = top
  BY <1>5
<1>8. top \in {0, 2, 3}
  BY <1>4, <1>5
<1> HIDE DEF S, top, best
<1>9. ASSUME NEW i \in plain, A!Matches(c[i], d)
      PROVE  i = best
  <2>1. top > 0
    <3>1. A!Points(c[i], d) <= top /\ A!Points(c[i], d) # 0 /\ A!Points(c[i], d) \in {0, 2, 3}
      BY <1>3, <1>5, <1>6, <1>9
    <3>2. QED
      BY <1>8, <3>1
  <2>2. tops # {} /\ tops \in SUBSET Nat
    BY <1>2, <1>7, <2>1
  <2>3. best = A!Min(tops)
    BY <1>1, <2>1
  <2>4. best \in tops
    <3> HIDE DEF tops
    <3>1. QED
      BY <2>2, <2>3, ApacheLeast
  <2>5. best \in plain /\ A!Matches(c[best], d)
    BY <1>3, <2>1, <2>4
  <2>6. c[i].port = 80 /\ c[best].port = 80 /\ i \in DOMAIN c /\ best \in DOMAIN c
    BY <2>5 DEF Plains
  <2>7. QED
    BY <1>9, <2>5, <2>6 DEF OneMatch
<1>10. ASSUME NEW i \in plain, \A k \in plain : ~ A!Matches(c[k], d), best # 0
       PROVE  i = best
  <2>1. top = 0
    BY <1>3, <1>7, <1>10
  <2>2. A!Cardinality(plain) = 1 /\ best = A!Min(plain)
    BY <1>1, <1>10, <2>1
  <2>3. Cardinality(plain) = 1
    BY <2>2 DEF A!Cardinality, Cardinality, A!IsFiniteSet, IsFiniteSet
  <2>4. IsFiniteSet(plain)
    <3>1. DOMAIN c = 1..Len(c) /\ Len(c) \in Nat
      BY DEF IsSeq
    <3>2. IsFiniteSet(DOMAIN c) /\ plain \in SUBSET DOMAIN c
      BY <3>1, FS_Interval DEF Plains
    <3>3. QED
      BY <3>2, FS_Subset
  <2>5. \A x, y \in plain : x = y
    BY <2>3, <2>4, AtMostOne
  <2>6. best \in plain
    BY <1>2, <1>10, <2>2, ApacheLeast
  <2>7. QED
    BY <2>5, <2>6
<1>11. QED
  BY <1>9, <1>10 DEF best

\* Apache's choice at port 80.
LEMMA Replying ==
  ASSUME NEW s, Usual(s.cfg), 80 \in s.listen, NEW d, Replies(s.cfg, d)
  PROVE  LET i == A!Serve(s, 80, d) IN i # 0 /\ s.cfg[i].answers
<1> DEFINE c == s.cfg
           at == {i \in DOMAIN c : /\ c[i].enabled /\ c[i].port = 80 /\ 80 \in s.listen
                                   /\ 80 = 443 => "ssl" \in s.mods}
           named == {i \in at : A!Matches(c[i], d)}
           i == A!Serve(s, 80, d)
<1>1. at = Plains(c)
  BY DEF Plains, Usual
<1>2. i = IF named # {} THEN A!Min(named) ELSE IF at # {} THEN A!Min(at) ELSE 0
  BY DEF A!Serve
<1>3. at # {} /\ at \in SUBSET (Nat \ {0}) /\ named \in SUBSET (Nat \ {0})
  BY <1>1 DEF Replies, Usual, Plains, IsSeq
<1> HIDE DEF at, i
<1>4. CASE named # {}
  <2>1. i \in named
    <3> HIDE DEF named
    <3>1. named \in SUBSET Nat
      BY <1>3
    <3>2. QED
      BY <1>2, <1>4, <3>1, ApacheLeast
  <2>2. c[i].answers
    BY <1>1, <2>1 DEF Replies
  <2>3. QED
    BY <1>3, <2>1, <2>2 DEF i
<1>5. CASE named = {}
  <2>1. i \in at
    <3>1. at \in SUBSET Nat
      BY <1>3
    <3>2. QED
      BY <1>2, <1>3, <1>5, <3>1, ApacheLeast
  <2>2. c[i].answers
    BY <1>1, <1>5, <2>1 DEF Replies
  <2>3. QED
    BY <1>3, <2>1, <2>2 DEF i
<1>6. QED
  BY <1>4, <1>5

\* ... and at port 443, for a test domain.
LEMMA Testing ==
  ASSUME NEW s, IsSeq(s.cfg), 443 \in s.listen, "ssl" \in s.mods, NEW z, z \notin A!Domains,
         Tested(s.cfg, z)
  PROVE  LET i == A!Serve(s, 443, z) IN i # 0 /\ z \in s.cfg[i].names
<1> DEFINE c == s.cfg
           at == {i \in DOMAIN c : /\ c[i].enabled /\ c[i].port = 443 /\ 443 \in s.listen
                                   /\ 443 = 443 => "ssl" \in s.mods}
           named == {i \in at : A!Matches(c[i], z)}
           i == A!Serve(s, 443, z)
<1>1. i = IF named # {} THEN A!Min(named) ELSE IF at # {} THEN A!Min(at) ELSE 0
  BY DEF A!Serve
<1>2. named # {} /\ named \in SUBSET (Nat \ {0}) /\ \A k \in named : z \in c[k].names
  BY DEF Tested, A!Matches, IsSeq
<1> HIDE DEF named, i
<1>3. i \in named
  <2>1. named \in SUBSET Nat
    BY <1>2
  <2>2. QED
    BY <1>1, <1>2, <2>1, ApacheLeast
<1>4. QED
  BY <1>2, <1>3, ZenonT(30) DEF i

\* One http-01 challenge: the hosts are as they were, but for whom answers.
LEMMA HttpReplies ==
  ASSUME NEW e, IsChange(e), Usual(e.cfg), NEW d \in A!Domains, A!HttpVhost(e, d).why = "ok"
  PROVE  LET f == A!HttpVhost(e, d)
         IN /\ e.why = "ok" /\ IsChange(f) /\ Usual(f.cfg) /\ f.listen = e.listen
            /\ Replies(f.cfg, d) /\ \A q : Replies(e.cfg, q) => Replies(f.cfg, q)
<1> DEFINE c == e.cfg
           plain == {i \in DOMAIN e.cfg : e.cfg[i].port = 80}
           best == A!FindBestVhost(e.cfg, plain, d)
           h == [i \in DOMAIN e.cfg |->
                  [e.cfg[i] EXCEPT !.answers = @ \/ (i = best \/ (best = 0 /\ i \in plain))]]
           f == A!HttpVhost(e, d)
<1>1. e.why = "ok" /\ plain # {} /\ f = [e EXCEPT !.cfg = h]
  <2>1. f = IF e.why # "ok" \/ plain = {} THEN A!Raise(e, "error") ELSE [e EXCEPT !.cfg = h]
    BY DEF A!HttpVhost
  <2>2. A!Raise(e, "error").why = "error"
    BY DEF A!Raise, IsChange
  <2>3. QED
    BY <2>1, <2>2
<1>2. plain = Plains(c)
  BY DEF Plains
<1>3. ASSUME NEW i \in DOMAIN c
      PROVE  /\ IsHost(h[i]) /\ h[i].names = c[i].names /\ h[i].wild = c[i].wild
             /\ h[i].port = c[i].port /\ h[i].enabled = c[i].enabled
             /\ h[i].answers = (c[i].answers \/ (i = best \/ (best = 0 /\ i \in plain)))
  <2> DEFINE old == c[i]
             b == c[i].answers \/ (i = best \/ (best = 0 /\ i \in plain))
             new == [old EXCEPT !.answers = b]
  <2>1. IsHost(old)
    BY DEF Usual
  <2>2. h[i] = new
    OBVIOUS
  <2> HIDE DEF old, b
  <2>3. /\ IsHost(new) /\ new.names = old.names /\ new.wild = old.wild /\ new.port = old.port
        /\ new.enabled = old.enabled /\ new.answers = b
    BY <2>1 DEF IsHost
  <2> HIDE DEF h, new
  <2>4. QED
    BY <2>2, <2>3 DEF old, b
<1>4. IsSeq(h) /\ DOMAIN h = DOMAIN c
  <2> DEFINE S == {h[i] : i \in DOMAIN h}
  <2>1. DOMAIN h = DOMAIN e.cfg
    OBVIOUS
  <2>2. h \in [1..Len(e.cfg) -> S] /\ Len(e.cfg) \in Nat
    <3>1. DOMAIN e.cfg = 1..Len(e.cfg) /\ Len(e.cfg) \in Nat
      BY DEF Usual, IsSeq
    <3>2. QED
      BY <3>1
  <2> HIDE DEF S, h
  <2>3. h \in Seq(S)
    BY <2>2
  <2>4. QED
    BY <2>1, <2>3, SeqOf
<1>5. f.cfg = h /\ f.listen = e.listen /\ IsChange(f)
  <2> HIDE DEF h
  <2>1. QED
    BY <1>1 DEF IsChange
<1> HIDE DEF h, f, best
<1>6. Plains(h) = plain
  BY <1>3, <1>4 DEF Plains
<1>7. \A q : \A i \in DOMAIN c : A!Matches(h[i], q) <=> A!Matches(c[i], q)
  BY <1>3 DEF A!Matches
<1>8. Usual(h)
  <2>1. OneMatch(h)
    BY <1>3, <1>4, <1>7 DEF OneMatch, Usual
  <2>2. QED
    BY <1>3, <1>4, <2>1 DEF Usual
<1>9. plain \subseteq DOMAIN c
  OBVIOUS
<1>10. Replies(h, d)
  <2>1. ASSUME NEW i \in plain, A!Matches(h[i], d) \/ (\A k \in plain : ~ A!Matches(h[k], d))
        PROVE  h[i].answers
    <3>1. A!Matches(c[i], d) \/ (\A k \in plain : ~ A!Matches(c[k], d))
      BY <1>7, <2>1
    <3>2. i = best \/ best = 0
      BY <1>2, <3>1, BestHost DEF Usual, best
    <3>3. QED
      BY <1>3, <2>1, <3>2
  <2>2. QED
    BY <1>1, <1>6, <2>1 DEF Replies
<1>11. ASSUME NEW q, Replies(c, q)
       PROVE  Replies(h, q)
  <2>1. ASSUME NEW i \in plain, A!Matches(h[i], q) \/ (\A k \in plain : ~ A!Matches(h[k], q))
        PROVE  h[i].answers
    <3>1. A!Matches(c[i], q) \/ (\A k \in plain : ~ A!Matches(c[k], q))
      BY <1>7, <2>1
    <3>2. c[i].answers
      BY <1>2, <1>11, <3>1 DEF Replies
    <3>3. QED
      BY <1>3, <2>1, <3>2
  <2>2. QED
    BY <1>1, <1>6, <2>1 DEF Replies
<1> HIDE DEF plain
<1>12. QED
  BY <1>1, <1>5, <1>8, <1>10, <1>11 DEF f

\* One tls-sni-01 challenge.
LEMMA SniTested ==
  ASSUME NEW e, IsChange(e), IsSeq(e.cfg), NEW d, A!SniVhost(e, d).why = "ok"
  PROVE  LET f == A!SniVhost(e, d)
         IN /\ e.why = "ok" /\ IsChange(f) /\ IsSeq(f.cfg) /\ f.listen = e.listen
            /\ Tested(f.cfg, A!Zdomain[d]) /\ \A z : Tested(e.cfg, z) => Tested(f.cfg, z)
<1> DEFINE w == A!Vhost({A!Zdomain[d]}, 443)
           v == [w EXCEPT !.cert = "challenge"]
           f == [e EXCEPT !.cfg = Append(@, v)]
<1>1. e.why = "ok" /\ A!SniVhost(e, d) = f
  BY DEF A!SniVhost
<1>2. IsHost(w) /\ w.port = 443 /\ w.enabled = TRUE /\ w.names = {A!Zdomain[d]}
  BY DEF IsHost, A!Vhost
<1> HIDE DEF w
<1>3. v.port = 443 /\ v.enabled = TRUE /\ v.names = {A!Zdomain[d]}
  BY <1>2 DEF IsHost
<1> HIDE DEF v
<1>4. f.cfg = Append(e.cfg, v) /\ f.listen = e.listen /\ IsChange(f)
  BY DEF IsChange
<1> DEFINE c == Append(e.cfg, v)
<1>5. /\ IsSeq(c) /\ DOMAIN e.cfg = 1..Len(e.cfg) /\ Len(e.cfg) \in Nat
      /\ DOMAIN c = 1..(Len(e.cfg) + 1)
      /\ (\A j \in DOMAIN e.cfg : c[j] = e.cfg[j]) /\ c[Len(e.cfg) + 1] = v
  BY Adding
<1> HIDE DEF c, f
<1>6. DOMAIN e.cfg \subseteq DOMAIN c /\ Len(e.cfg) + 1 \in DOMAIN c
  BY <1>5
<1>7. Tested(c, A!Zdomain[d])
  BY <1>3, <1>5, <1>6 DEF Tested
<1>8. \A z : Tested(e.cfg, z) => Tested(c, z)
  BY <1>5, <1>6 DEF Tested
<1>9. f.cfg = c
  BY <1>4 DEF c
<1>10. QED
  BY <1>1, <1>4, <1>5, <1>7, <1>8, <1>9

\* Enabling a module leaves the hosts alone, and the ports Apache listens at.
LEMMA ModuleOnly ==
  ASSUME NEW e, IsChange(e), NEW m
  PROVE  LET f == A!NeedMod(e, m) IN IsChange(f) /\ f.cfg = e.cfg /\ f.listen = e.listen
<1> DEFINE g == [e EXCEPT !.mods = @ \cup {m}, !.modules = @ \cup {m}]
           r == A!Raise(e, "error")
<1>1. A!NeedMod(e, m) \in {e, g, r}
  BY DEF A!NeedMod
<1>2. IsChange(g) /\ g.cfg = e.cfg /\ g.listen = e.listen
  BY DEF IsChange
<1>3. IsChange(r) /\ r.cfg = e.cfg /\ r.listen = e.listen
  BY DEF IsChange, A!Raise
<1> HIDE DEF g, r
<1>4. QED
  BY <1>1, <1>2, <1>3

LEMMA ListenOnly ==
  ASSUME NEW e, IsChange(e), NEW p
  PROVE  LET f == A!Listening(e, p) IN IsChange(f) /\ f.cfg = e.cfg /\ p \in f.listen
BY DEF IsChange, A!Listening

\* The port of the challenge is listened at before the hosts are looked at.
LEMMA PortReady ==
  ASSUME NEW able
  PROVE  LET p == A!Prepared(able)
         IN /\ IsChange(p) /\ p.cfg = mem.cfg
            /\ (IF chal = "http" THEN 80 ELSE 443) \in p.listen
<1> DEFINE e == A!Edit(able)
           k1 == A!NeedMod(e, "rewrite")
           k2 == A!NeedMod(e, "socache")
           k3 == A!NeedMod(k2, "ssl")
<1>1. IsChange(e) /\ e.cfg = mem.cfg
  BY DEF IsChange, A!Edit
<1> HIDE DEF e
<1>2. IsChange(k1) /\ k1.cfg = mem.cfg /\ IsChange(k2) /\ k2.cfg = mem.cfg
  BY <1>1, ModuleOnly
<1> HIDE DEF k1, k2
<1>3. IsChange(k3) /\ k3.cfg = mem.cfg
  BY <1>2, ModuleOnly
<1>4. A!Edit(able) = e
  BY DEF e
<1>5. CASE chal = "http"
  <2>1. A!Prepared(able) = A!Listening(e, 80) \/ A!Prepared(able) = A!Listening(k1, 80)
    BY <1>4, <1>5 DEF A!Prepared, A!PrepareHttp, k1
  <2> HIDE DEF k3
  <2>2. QED
    BY <1>1, <1>2, <1>5, <2>1, ListenOnly
<1>6. CASE chal # "http"
  <2>1. A!Prepared(able) = A!Listening(e, 443) \/ A!Prepared(able) = A!Listening(k3, 443)
    BY <1>4, <1>6 DEF A!Prepared, A!PrepareServerHttps, A!HttpsMods, k2
  <2> HIDE DEF k3
  <2>2. QED
    BY <1>1, <1>3, <1>6, <2>1, ListenOnly
<1>7. QED
  BY <1>5, <1>6

\* The challenges performed so far are answered, unless one failed.
Reached(e, D) ==
  /\ IsChange(e) /\ IsSeq(e.cfg)
  /\ (IF chal = "http" THEN 80 ELSE 443) \in e.listen
  /\ e.why = "ok" =>
       IF chal = "http" THEN Usual(e.cfg) /\ \A d \in D : Replies(e.cfg, d)
       ELSE \A d \in D : Tested(e.cfg, A!Zdomain[d])

LEMMA OneMoreReached ==
  ASSUME NEW e, NEW D, Reached(e, D), NEW d \in A!Domains
  PROVE  Reached(A!Vhosts(e, d), D \cup {d})
<1> DEFINE f == A!Vhosts(e, d)
<1>0. IsChange(f) /\ IsSeq(f.cfg) /\ f.listen = e.listen
  <2>1. CASE chal = "http"
    <3> DEFINE c == e.cfg
               plain == {i \in DOMAIN e.cfg : e.cfg[i].port = 80}
               best == A!FindBestVhost(e.cfg, plain, d)
               h == [i \in DOMAIN e.cfg |->
                      [e.cfg[i] EXCEPT !.answers = @ \/ (i = best \/ (best = 0 /\ i \in plain))]]
               S == {h[i] : i \in DOMAIN h}
               r == A!Raise(e, "error")
               g == [e EXCEPT !.cfg = h]
    <3>1. f \in {r, g}
      BY <2>1 DEF A!Vhosts, A!HttpVhost
    <3>2. IsChange(r) /\ r.cfg = e.cfg /\ r.listen = e.listen
      BY DEF Reached, IsChange, A!Raise
    <3>3. h \in [1..Len(e.cfg) -> S] /\ Len(e.cfg) \in Nat
      <4>1. DOMAIN e.cfg = 1..Len(e.cfg) /\ Len(e.cfg) \in Nat
        BY DEF Reached, IsSeq
      <4>2. QED
        BY <4>1
    <3> HIDE DEF S, h, r
    <3>4. h \in Seq(S)
      BY <3>3
    <3>5. IsSeq(h)
      BY <3>4, SeqOf
    <3>6. IsChange(g) /\ g.cfg = h /\ g.listen = e.listen
      BY DEF Reached, IsChange
    <3> HIDE DEF g, f
    <3>7. QED
      BY <3>1, <3>2, <3>5, <3>6 DEF Reached
  <2>2. CASE chal # "http"
    <3> DEFINE v == [A!Vhost({A!Zdomain[d]}, 443) EXCEPT !.cert = "challenge"]
               g == [e EXCEPT !.cfg = Append(@, v)]
    <3>1. f \in {e, g}
      BY <2>2 DEF A!Vhosts, A!SniVhost
    <3> HIDE DEF v
    <3>2. IsChange(g) /\ g.cfg = Append(e.cfg, v) /\ g.listen = e.listen
      BY DEF Reached, IsChange
    <3>3. IsSeq(Append(e.cfg, v))
      BY Adding DEF Reached
    <3> HIDE DEF g, f
    <3>4. QED
      BY <3>1, <3>2, <3>3 DEF Reached
  <2>3. QED
    BY <2>1, <2>2
<1>1. CASE f.why # "ok"
  <2> HIDE DEF f
  <2>1. Reached(f, D \cup {d})
    BY <1>0, <1>1 DEF Reached
  <2>2. QED
    BY <2>1 DEF f
<1>2. CASE f.why = "ok" /\ chal = "http"
  <2>1. f = A!HttpVhost(e, d)
    BY <1>2 DEF A!Vhosts
  <2>2. IsChange(e) /\ (e.why = "ok" => Usual(e.cfg))
    BY <1>2 DEF Reached
  <2>3. e.why = "ok"
    BY <1>2, <2>1 DEF A!HttpVhost, A!Raise, Reached, IsChange
  <2> HIDE DEF f
  <2>4. Usual(f.cfg) /\ Replies(f.cfg, d) /\ \A q : Replies(e.cfg, q) => Replies(f.cfg, q)
    BY <1>2, <2>1, <2>2, <2>3, HttpReplies
  <2>5. \A q \in D : Replies(e.cfg, q)
    BY <1>2, <2>3 DEF Reached
  <2>6. Reached(f, D \cup {d})
    BY <1>0, <1>2, <2>4, <2>5 DEF Reached
  <2>7. QED
    BY <2>6 DEF f
<1>3. CASE f.why = "ok" /\ chal # "http"
  <2>1. f = A!SniVhost(e, d)
    BY <1>3 DEF A!Vhosts
  <2>2. IsChange(e) /\ IsSeq(e.cfg)
    BY DEF Reached
  <2> HIDE DEF f
  <2>3. /\ e.why = "ok" /\ Tested(f.cfg, A!Zdomain[d])
        /\ \A z : Tested(e.cfg, z) => Tested(f.cfg, z)
    BY <1>3, <2>1, <2>2, SniTested
  <2>4. \A q \in D : Tested(e.cfg, A!Zdomain[q])
    BY <1>3, <2>3 DEF Reached
  <2>5. Reached(f, D \cup {d})
    BY <1>0, <1>3, <2>3, <2>4 DEF Reached
  <2>6. QED
    BY <2>5 DEF f
<1>4. QED
  BY <1>1, <1>2, <1>3

\* What the challenges rest on, and that they are answered.
ApacheAnswers ==
  /\ orig \in Servers /\ (ipc = "perform" => mem = A!Tree(orig))
  /\ (ipc = "challenged" => out \subseteq Elements(doms)) /\ A!ChallengeReachable

LEMMA FoundUsual ==
  ASSUME OrdinaryHosts, orig \in Servers
  PROVE  Usual(orig.cfg)
<1>1. orig \in A!ServerState /\ OneMatch(orig.cfg) /\ \A i \in DOMAIN orig.cfg : orig.cfg[i].enabled
  BY ServersAssumption DEF OrdinaryHosts
<1>2. orig.cfg \in Seq(A!VirtualHost)
  BY <1>1 DEF A!ServerState
<1>3. IsSeq(orig.cfg) /\ \A i \in DOMAIN orig.cfg : orig.cfg[i] \in A!VirtualHost
  BY <1>2, SeqOf
<1>4. ASSUME NEW v \in A!VirtualHost
      PROVE  IsHost(v)
  BY DEF IsHost, A!VirtualHost
<1>5. QED
  BY <1>1, <1>3, <1>4 DEF Usual

LEMMA ApachePerformsAnswers ==
  ASSUME OrdinaryHosts, ApacheFound, ApacheAnswers, NEW ok \in BOOLEAN, NEW able, A!Perform(ok, able)
  PROVE  ApacheAnswers'
<1> DEFINE p == A!Prepared(able)
           y == A!Vhosts(p, doms[1])
           z == A!Vhosts(y, doms[2])
           x == A!InTurn(p)
<1>1. /\ ipc = "perform" /\ orig' = orig /\ doms' = doms /\ chal' = chal /\ out' = A!ToSet(doms)
      /\ ipc' = IF ok THEN "challenged" ELSE "raised"
      /\ ok => x.why = "ok" /\ running' = A!Server(x)
  BY DEF A!Perform, A!asked, A!PutInPlace, A!Restart
<1>2. Usual(mem.cfg)
  <2>1. mem.cfg = orig.cfg
    BY <1>1 DEF ApacheAnswers, A!Tree
  <2>2. QED
    BY <2>1, FoundUsual DEF ApacheAnswers
<1>3. Reached(p, {})
  BY <1>2, PortReady DEF Reached, Usual
<1> HIDE DEF p
<1>4. doms[1] \in A!Domains /\ (Len(doms) # 1 => doms[2] \in A!Domains) /\ A!ToSet(doms) = Elements(doms)
      /\ IF Len(doms) = 1 THEN Elements(doms) = {doms[1]} ELSE Elements(doms) = {doms[1], doms[2]}
  <2>1. A!Domains = {"a", "b"}
    BY DEF A!Domains
  <2>2. A!ToSet(doms) = Elements(doms)
    BY DEF A!ToSet, Elements
  <2>3. CASE doms = <<"a">>
    BY <2>1, <2>2, <2>3, Asked
  <2>4. CASE doms = <<"a", "b">>
    BY <2>1, <2>2, <2>4, Asked
  <2>5. QED
    BY <2>3, <2>4 DEF ApacheFound
<1>5. Reached(y, {} \cup {doms[1]})
  BY <1>3, <1>4, OneMoreReached
<1>6. x = IF Len(doms) = 1 THEN y ELSE z
  BY DEF A!InTurn
<1> HIDE DEF y
<1>7. Len(doms) # 1 => Reached(z, ({} \cup {doms[1]}) \cup {doms[2]})
  BY <1>4, <1>5, OneMoreReached
<1> HIDE DEF z, x
<1>8. Reached(x, Elements(doms))
  <2>1. {} \cup {doms[1]} = {doms[1]} /\ {doms[1]} \cup {doms[2]} = {doms[1], doms[2]}
    OBVIOUS
  <2>2. CASE Len(doms) = 1
    BY <1>4, <1>5, <1>6, <2>1, <2>2
  <2>3. CASE Len(doms) # 1
    BY <1>4, <1>6, <1>7, <2>1, <2>3
  <2>4. QED
    BY <2>2, <2>3
<1>9. ASSUME ok
      PROVE  A!ChallengeReachable'
  <2> DEFINE s == A!Server(x)
  <2>1. s.cfg = x.cfg /\ s.listen = x.listen /\ running' = s /\ x.why = "ok"
    BY <1>1, <1>9 DEF A!Server
  <2>2. out' = Elements(doms)
    BY <1>1, <1>4
  <2>3. ASSUME NEW d \in out', chal = "http"
        PROVE  LET i == A!Serve(running', 80, d) IN i # 0 /\ running'.cfg[i].answers
    <3>1. Usual(s.cfg) /\ 80 \in s.listen /\ Replies(s.cfg, d)
      BY <1>8, <2>1, <2>2, <2>3 DEF Reached
    <3> HIDE DEF s
    <3>2. QED
      BY <2>1, <3>1, Replying
  <2>4. ASSUME NEW d \in out', chal # "http", "ssl" \in running'.mods
        PROVE  LET i == A!Serve(running', 443, A!Zdomain[d])
               IN i # 0 /\ A!Zdomain[d] \in running'.cfg[i].names
    <3>1. IsSeq(s.cfg) /\ 443 \in s.listen /\ Tested(s.cfg, A!Zdomain[d])
      BY <1>8, <2>1, <2>2, <2>4 DEF Reached
    <3>2. d \in A!Domains
      BY <1>4, <2>2
    <3>3. A!Zdomain[d] \notin A!Domains
      BY <3>2 DEF A!Zdomain, A!Domains
    <3> DEFINE t == A!Zdomain[d]
    <3> HIDE DEF s, t
    <3>4. IsSeq(s.cfg) /\ 443 \in s.listen /\ Tested(s.cfg, t) /\ t \notin A!Domains /\ "ssl" \in s.mods
      BY <2>1, <2>4, <3>1, <3>3 DEF t
    <3>5. A!Serve(s, 443, t) # 0 /\ t \in s.cfg[A!Serve(s, 443, t)].names
      BY <3>4, Testing
    <3>6. QED
      BY <2>1, <3>5 DEF t
  <2>5. QED
    BY <1>1, <2>3, <2>4 DEF A!ChallengeReachable
<1>10. ASSUME ~ ok
       PROVE  A!ChallengeReachable'
  BY <1>1, <1>10 DEF A!ChallengeReachable
<1>11. QED
  BY <1>1, <1>4, <1>9, <1>10 DEF ApacheAnswers

\* One challenge is cleaned up before the others: they are answered still.
LEMMA ApacheCleansAnswers ==
  ASSUME ApacheAnswers, NEW ok \in BOOLEAN, NEW X \in SUBSET A!Domains, A!Cleanup(X, ok)
  PROVE  ApacheAnswers'
<1>1. /\ orig' = orig /\ doms' = doms /\ chal' = chal /\ out' = out \ X
      /\ ipc' \in {"done", "deploy", "challenged"}
      /\ ipc' = "challenged" => out' # {} /\ ipc # "raised"
  BY DEF A!Cleanup, A!asked
<1>2. ipc \in {"challenged", "raised"}
  BY DEF A!Cleanup
<1>3. CASE ipc' = "challenged"
  <2>1. running' = running /\ ipc = "challenged"
    BY <1>1, <1>2, <1>3 DEF A!Cleanup
  <2>2. A!ChallengeReachable'
    BY <1>1, <2>1 DEF ApacheAnswers, A!ChallengeReachable
  <2>3. QED
    BY <1>1, <1>3, <2>1, <2>2 DEF ApacheAnswers
<1>4. CASE ipc' # "challenged"
  BY <1>1, <1>4 DEF ApacheAnswers, A!ChallengeReachable
<1>5. QED
  BY <1>3, <1>4

LEMMA ApacheStaysAnswers ==
  ASSUME ApacheAnswers, orig' = orig,
         \/ ipc' \notin {"perform", "challenged"}
         \/ UNCHANGED <<mem, running, doms, chal, out, ipc>>
  PROVE  ApacheAnswers'
<1>1. CASE ipc' \notin {"perform", "challenged"}
  BY <1>1 DEF ApacheAnswers, A!ChallengeReachable
<1>2. CASE UNCHANGED <<mem, running, doms, chal, out, ipc>>
  BY <1>2 DEF ApacheAnswers, A!ChallengeReachable
<1>3. QED
  BY <1>1, <1>2

LEMMA ApacheKeptAnswers ==
  ASSUME OrdinaryHosts, ApacheFound, ApacheAnswers, A!Next
  PROVE  ApacheAnswers'
<1>1. ASSUME NEW ok \in BOOLEAN, NEW able, A!Perform(ok, able)
      PROVE  ApacheAnswers'
  BY <1>1, ApachePerformsAnswers
<1>2. ASSUME NEW ok \in BOOLEAN, NEW X \in SUBSET A!Domains, A!Cleanup(X, ok)
      PROVE  ApacheAnswers'
  BY <1>2, ApacheCleansAnswers
<1>3. ASSUME NEW ok \in BOOLEAN, NEW able, A!Enhance(ok, able)
      PROVE  ApacheAnswers'
  <2>1. orig' = orig /\ ipc' \in {"enhance", "done"}
    BY <1>3 DEF A!Enhance, A!KeepOrRecover, A!asked
  <2>2. QED
    BY <2>1, ApacheStaysAnswers
<1>4. ASSUME NEW pick, NEW linkFails, NEW able, A!Deploy(pick, linkFails, able)
      PROVE  ApacheAnswers'
  <2>1. orig' = orig /\ ipc' \in {"deploy", "done"}
    BY <1>4 DEF A!Deploy, A!SaveOrRecover, A!asked
  <2>2. QED
    BY <2>1, ApacheStaysAnswers
<1>5. ASSUME NEW ok, NEW again, A!RestartDeployed(ok, again) \/ A!RestartEnhanced(ok, again)
      PROVE  ApacheAnswers'
  <2>1. orig' = orig /\ ipc' \in {"enhance", "done"}
    BY <1>5 DEF A!RestartDeployed, A!RestartEnhanced, A!Rollback, A!asked
  <2>2. QED
    BY <2>1, ApacheStaysAnswers
<1>6. CASE A!Invalid \/ A!SaveDeployed
  <2>1. orig' = orig /\ ipc' \in {"done", "deployed"}
    BY <1>6 DEF A!Invalid, A!SaveDeployed, A!asked
  <2>2. QED
    BY <2>1, ApacheStaysAnswers
<1>7. CASE A!Over
  <2>1. UNCHANGED <<orig, mem, running, doms, chal, out, ipc>>
    BY <1>7 DEF A!Over, A!vars
  <2>2. QED
    BY <2>1, ApacheStaysAnswers
<1>8. QED
  BY <1>1, <1>2, <1>3, <1>4, <1>5, <1>6, <1>7 DEF A!Next, A!Client
-----------------------------------------------------------------------------
(* A challenge is answered by nginx: the block the plugin chose for a domain *)
(* is found by as good a name as the one nginx chooses, and is the only one. *)

\* Of some blocks those that a request for h may be given to answer it: one is found
\* by a name of kind k, and all that are found by one as good.
Heard(B, p, h, k) ==
  /\ \E b \in B : G!Listens(b, p) /\ Kind(b, h) <= k
  /\ \A b \in B : G!Listens(b, p) /\ Kind(b, h) <= k => h \in b.answers

LEMMA HeardServed ==
  ASSUME NEW m, IsSeq(m), NEW p, NEW h, NEW k \in 0..3, Heard(Elements(m), p, h, k)
  PROVE  LET i == G!Serve(m, p, h) IN i # 0 /\ h \in m[i].answers
<1> DEFINE at == {j \in DOMAIN m : G!Listens(m[j], p)}
           i == G!Serve(m, p, h)
<1>1. \A j \in at : Kind(m[j], h) < 4 => i \in at /\ Kind(m[i], h) < 4 /\ Kind(m[i], h) <= Kind(m[j], h)
  BY Answers
<1> HIDE DEF i
<1>2. PICK j \in DOMAIN m : G!Listens(m[j], p) /\ Kind(m[j], h) <= k
  BY DEF Heard, Elements
<1>3. Kind(m[j], h) \in 0..4
  BY KindIs
<1>4. i \in at /\ Kind(m[i], h) <= Kind(m[j], h)
  BY <1>1, <1>2, <1>3
<1>5. Kind(m[i], h) \in 0..4
  BY KindIs
<1>6. Kind(m[i], h) <= k
  BY <1>2, <1>3, <1>4, <1>5
<1>7. m[i] \in Elements(m) /\ G!Listens(m[i], p)
  BY <1>4 DEF Elements
<1>8. h \in m[i].answers
  BY <1>6, <1>7 DEF Heard
<1>9. i # 0
  BY <1>4 DEF IsSeq
<1>10. QED
  BY <1>8, <1>9 DEF i

\* One configuration after another.
LEMMA Joined ==
  ASSUME NEW n, IsSeq(n), NEW c, IsSeq(c)
  PROVE  IsSeq(n \o c) /\ Elements(n \o c) = Elements(n) \cup Elements(c)
<1> DEFINE S == Elements(c) \cup Elements(n)
           m == n \o c
<1>1. c \in Seq(Elements(c)) /\ n \in Seq(Elements(n))
  BY DEF IsSeq
<1>2. c \in Seq(S) /\ n \in Seq(S)
  BY <1>1
<1> HIDE DEF S
<1>3. /\ m \in Seq(S) /\ Len(c) \in Nat /\ Len(n) \in Nat /\ DOMAIN m = 1..(Len(n) + Len(c))
      /\ DOMAIN n = 1..Len(n) /\ DOMAIN c = 1..Len(c)
      /\ \A j \in 1..(Len(n) + Len(c)) : m[j] = IF j <= Len(n) THEN n[j] ELSE c[j - Len(n)]
  BY <1>2
<1> HIDE DEF m
<1>4. ASSUME NEW i \in DOMAIN m
      PROVE  m[i] \in Elements(n) \cup Elements(c)
  <2>1. CASE i <= Len(n)
    BY <1>3, <2>1 DEF Elements
  <2>2. CASE ~ (i <= Len(n))
    <3>1. (i - Len(n)) \in DOMAIN c /\ m[i] = c[i - Len(n)]
      BY <1>3, <2>2
    <3>2. QED
      BY <3>1 DEF Elements
  <2>3. QED
    BY <2>1, <2>2
<1>5. ASSUME NEW j \in DOMAIN c
      PROVE  c[j] \in Elements(m)
  <2> DEFINE i == Len(n) + j
  <2>1. i \in 1..(Len(n) + Len(c)) /\ ~ (i <= Len(n)) /\ i - Len(n) = j
    BY <1>3
  <2>2. i \in DOMAIN m /\ m[i] = c[j]
    BY <1>3, <2>1
  <2>3. QED
    BY <2>2 DEF Elements
<1>6. ASSUME NEW j \in DOMAIN n
      PROVE  n[j] \in Elements(m)
  <2>1. j \in DOMAIN m /\ m[j] = n[j]
    BY <1>3
  <2>2. QED
    BY <2>1 DEF Elements
<1>7. Elements(m) = Elements(n) \cup Elements(c)
  BY <1>4, <1>5, <1>6 DEF Elements
<1>8. IsSeq(m)
  BY <1>3, SeqOf
<1>9. QED
  BY <1>7, <1>8 DEF m

LEMMA AppendedBlock ==
  ASSUME NEW n, IsSeq(n), NEW b
  PROVE  IsSeq(Append(n, b)) /\ Elements(Append(n, b)) = Elements(n) \cup {b}
<1> DEFINE m == Append(n, b)
<1>1. /\ IsSeq(m) /\ Len(n) \in Nat /\ DOMAIN n = 1..Len(n) /\ DOMAIN m = 1..(Len(n) + 1)
      /\ (\A j \in DOMAIN n : m[j] = n[j]) /\ m[Len(n) + 1] = b
  BY Adding
<1> HIDE DEF m
<1>2. DOMAIN m = DOMAIN n \cup {Len(n) + 1}
  BY <1>1
<1>3. Elements(m) = Elements(n) \cup {b}
  BY <1>1, <1>2 DEF Elements
<1>4. QED
  BY <1>1, <1>3 DEF m

\* The edits a challenge makes to the blocks: a domain's name is added, or what is
\* answered; a block is added for the domain, like another.
Extended(c, e, d) ==
  /\ DOMAIN c \subseteq DOMAIN e
  /\ \A j \in DOMAIN c : /\ e[j].addrs = c[j].addrs /\ e[j].sslOn = c[j].sslOn
                         /\ c[j].answers \subseteq e[j].answers
                         /\ e[j].names \in {c[j].names, c[j].names \cup {d}}
  /\ \A j \in DOMAIN e \ DOMAIN c :
       /\ e[j].names = {d}
       /\ \E m \in DOMAIN c : e[j].addrs = G!Undefault(c[m].addrs) /\ e[j].sslOn = c[m].sslOn

LEMMA UndefaultedAs ==
  ASSUME NEW S \in SUBSET G!Addr
  PROVE  /\ \A a \in G!Undefault(S) : \E x \in S : x.port = a.port /\ x.ssl = a.ssl
         /\ \A x \in S : \E a \in G!Undefault(S) : x.port = a.port /\ x.ssl = a.ssl
<1>1. ASSUME NEW x \in S
      PROVE  [x EXCEPT !.def = FALSE].port = x.port /\ [x EXCEPT !.def = FALSE].ssl = x.ssl
  <2>1. x \in [port : {80, 443}, ssl : BOOLEAN, def : BOOLEAN]
    BY DEF G!Addr
  <2>2. QED
    BY <2>1
<1>2. QED
  BY <1>1 DEF G!Undefault

\* A block like another listens where that one does.
LEMMA LikeAnother ==
  ASSUME NEW a, NEW b, a.addrs \subseteq G!Addr, b.addrs = G!Undefault(a.addrs), b.sslOn = a.sslOn
  PROVE  \A p : G!Listens(b, p) <=> G!Listens(a, p)
<1>1. /\ \A x \in b.addrs : \E y \in a.addrs : y.port = x.port /\ y.ssl = x.ssl
      /\ \A y \in a.addrs : \E x \in b.addrs : y.port = x.port /\ y.ssl = x.ssl
  BY UndefaultedAs
<1>2. b.addrs = {} <=> a.addrs = {}
  BY <1>1
<1>3. \A p : (\E x \in b.addrs : x.port = p) <=> (\E x \in a.addrs : x.port = p)
  BY <1>1
<1>4. \A p : G!Listens(b, p) <=> G!Listens(a, p)
  BY <1>2, <1>3 DEF G!Listens
<1>5. QED
  BY <1>4

\* Port 80 is in plain text, said of each block by itself.
PlainBlocks(c) ==
  \A i \in DOMAIN c : /\ G!Listens(c[i], 80) => ~ c[i].sslOn
                      /\ \A a \in c[i].addrs : a.port = 80 => ~ a.ssl

LEMMA PlainIsPlain ==
  ASSUME NEW c
  PROVE  PlainAt80(c) <=> PlainBlocks(c)
<1>1. ASSUME PlainAt80(c)
      PROVE  PlainBlocks(c)
  <2>1. ASSUME NEW i \in DOMAIN c, G!Listens(c[i], 80)
        PROVE  ~ c[i].sslOn
    BY <1>1, <2>1 DEF PlainAt80, G!PlainPort80
  <2>2. ASSUME NEW i \in DOMAIN c, NEW a \in c[i].addrs, a.port = 80, a.ssl
        PROVE  FALSE
    <3>1. G!Listens(c[i], 80)
      BY <2>2 DEF G!Listens
    <3>2. 80 \notin G!SslPorts(c)
      BY <1>1, <2>2, <3>1 DEF PlainAt80, G!PlainPort80
    <3>3. 80 \in G!SslPorts(c)
      BY <2>2 DEF G!SslPorts
    <3>4. QED
      BY <3>2, <3>3
  <2>3. QED
    BY <2>1, <2>2 DEF PlainBlocks
<1>2. ASSUME PlainBlocks(c)
      PROVE  PlainAt80(c)
  <2>1. 80 \notin G!SslPorts(c)
    <3>1. ASSUME NEW i \in DOMAIN c, NEW a \in c[i].addrs, a.ssl \/ c[i].sslOn, a.port = 80
          PROVE  FALSE
      BY <1>2, <3>1 DEF PlainBlocks, G!Listens
    <3>2. QED
      BY <3>1 DEF G!SslPorts
  <2>2. QED
    BY <1>2, <2>1 DEF PlainAt80, PlainBlocks, G!PlainPort80, G!Listens
<1>3. QED
  BY <1>1, <1>2

\* Every block is one of those there were, or like one: named for d too, and that
\* only when it is new.
Drawn(c, e, d) ==
  \A j \in DOMAIN e : \E m \in DOMAIN c :
    /\ e[j].addrs \in {c[m].addrs, G!Undefault(c[m].addrs)} /\ e[j].sslOn = c[m].sslOn
    /\ e[j].names \subseteq c[m].names \cup {d}

LEMMA DrawnPlain ==
  ASSUME NEW c, NEW e, NEW d, Drawn(c, e, d), PlainAt80(c),
         \A j \in DOMAIN c : c[j].addrs \subseteq G!Addr
  PROVE  PlainAt80(e)
<1>1. PlainBlocks(c)
  BY PlainIsPlain
<1>2. ASSUME NEW j \in DOMAIN e
      PROVE  (G!Listens(e[j], 80) => ~ e[j].sslOn) /\ \A a \in e[j].addrs : a.port = 80 => ~ a.ssl
  <2>1. PICK m \in DOMAIN c : /\ e[j].addrs \in {c[m].addrs, G!Undefault(c[m].addrs)}
                              /\ e[j].sslOn = c[m].sslOn
    BY DEF Drawn
  <2> DEFINE a == c[m]
             b == e[j]
  <2>2. /\ a.addrs \subseteq G!Addr /\ b.addrs \in {a.addrs, G!Undefault(a.addrs)} /\ b.sslOn = a.sslOn
        /\ (G!Listens(a, 80) => ~ a.sslOn) /\ \A x \in a.addrs : x.port = 80 => ~ x.ssl
    BY <1>1, <2>1 DEF PlainBlocks
  <2> HIDE DEF a, b
  <2>3. CASE b.addrs = a.addrs
    <3>1. G!Listens(b, 80) <=> G!Listens(a, 80)
      BY <2>3 DEF G!Listens
    <3>2. QED
      BY <2>2, <2>3, <3>1 DEF b
  <2>4. CASE b.addrs = G!Undefault(a.addrs)
    <3>1. G!Listens(b, 80) <=> G!Listens(a, 80)
      BY <2>2, <2>4, LikeAnother
    <3>2. \A x \in b.addrs : \E y \in a.addrs : y.port = x.port /\ y.ssl = x.ssl
      BY <2>2, <2>4, UndefaultedAs
    <3>3. (G!Listens(b, 80) => ~ b.sslOn) /\ \A x \in b.addrs : x.port = 80 => ~ x.ssl
      BY <2>2, <3>1, <3>2
    <3>4. QED
      BY <3>3 DEF b
  <2>5. QED
    BY <2>2, <2>3, <2>4
<1>3. QED
  BY <1>2, PlainIsPlain DEF PlainBlocks

LEMMA ExtendedPlain ==
  ASSUME NEW c, NEW e, NEW d, Extended(c, e, d), PlainAt80(c),
         \A j \in DOMAIN c : c[j].addrs \subseteq G!Addr
  PROVE  PlainAt80(e)
<1>1. Drawn(c, e, d)
  BY DEF Extended, Drawn
<1>2. QED
  BY <1>1, DrawnPlain

\* What is answered for another domain stays so.
LEMMA ExtendedHeard ==
  ASSUME NEW c, NEW e, NEW d \in G!Domains, Extended(c, e, d), NEW N, NEW h \in G!Domains, h # d,
         NEW k \in 0..3, Heard(N \cup Elements(c), 80, h, k)
  PROVE  Heard(N \cup Elements(e), 80, h, k)
<1>1. ASSUME NEW j \in DOMAIN c
      PROVE  /\ Kind(e[j], h) = Kind(c[j], h) /\ (G!Listens(e[j], 80) <=> G!Listens(c[j], 80))
             /\ c[j].answers \subseteq e[j].answers
  <2>1. /\ e[j].addrs = c[j].addrs /\ c[j].answers \subseteq e[j].answers
        /\ e[j].names \in {c[j].names, c[j].names \cup {d}}
    BY DEF Extended
  <2>2. Kind(e[j], h) = Kind(c[j], h)
    <3>1. CASE e[j].names = c[j].names
      BY <3>1 DEF Kind
    <3>2. CASE e[j].names = c[j].names \cup {d}
      BY <3>2, OtherDomain
    <3>3. QED
      BY <2>1, <3>1, <3>2
  <2>3. QED
    BY <2>1, <2>2 DEF G!Listens
<1>2. ASSUME NEW j \in DOMAIN e \ DOMAIN c
      PROVE  Kind(e[j], h) = 4
  BY <1>2, OtherDomain DEF Extended
<1>3. \E b \in N \cup Elements(e) : G!Listens(b, 80) /\ Kind(b, h) <= k
  <2>1. PICK b \in N \cup Elements(c) : G!Listens(b, 80) /\ Kind(b, h) <= k
    BY DEF Heard
  <2>2. CASE b \in N
    BY <2>1, <2>2
  <2>3. CASE b \in Elements(c)
    <3>1. PICK j \in DOMAIN c : b = c[j]
      BY <2>3 DEF Elements
    <3>2. e[j] \in Elements(e) /\ G!Listens(e[j], 80) /\ Kind(e[j], h) <= k
      BY <1>1, <2>1, <3>1 DEF Extended, Elements
    <3>3. QED
      BY <3>2
  <2>4. QED
    BY <2>2, <2>3
<1>4. ASSUME NEW b \in N \cup Elements(e), G!Listens(b, 80), Kind(b, h) <= k
      PROVE  h \in b.answers
  <2>1. CASE b \in N
    BY <1>4, <2>1 DEF Heard
  <2>2. CASE b \in Elements(e)
    <3>1. PICK j \in DOMAIN e : b = e[j]
      BY <2>2 DEF Elements
    <3>2. j \in DOMAIN c
      BY <1>2, <1>4, <3>1
    <3>3. c[j] \in Elements(c) /\ G!Listens(c[j], 80) /\ Kind(c[j], h) <= k
      BY <1>1, <1>4, <3>1, <3>2 DEF Elements
    <3>4. h \in c[j].answers
      BY <3>3 DEF Heard
    <3>5. QED
      BY <1>1, <3>1, <3>2, <3>4
  <2>3. QED
    BY <2>1, <2>2
<1>5. QED
  BY <1>3, <1>4 DEF Heard

\* Of the block that serves a domain found nowhere else: whose answers it has, and
\* that it listens at port 80.
LEMMA DefaultAnswers ==
  ASSUME NEW e, GoodEdit(e), NEW d
  PROVE  LET f == G!FromDefault(e, d, 80)
         IN f.ok => /\ f.nv = f.at
                    /\ e.nv # 0 => f.at = e.nv /\ f.cfg[f.at].answers = e.cfg[e.nv].answers
                    /\ e.nv = 0 => f.at \notin DOMAIN e.cfg /\ G!Listens(f.cfg[f.at], 80)
<1> DEFINE port == 80
           defaults == {i \in DOMAIN e.cfg : \E a \in e.cfg[i].addrs : a.def /\ port \in {0, a.port}}
           copy == [e.cfg[G!Min(defaults)] EXCEPT !.names = {d}, !.addrs = G!Undefault(@)]
           f == G!FromDefault(e, d, port)
<1>0. f = IF e.nv # 0 THEN G!Edit([e.cfg EXCEPT ![e.nv].names = @ \cup {d}], e.nv, e.nv, TRUE)
          ELSE IF G!Cardinality(defaults) # 1 THEN [e EXCEPT !.ok = FALSE]
          ELSE G!Edit(Append(e.cfg, copy), Len(e.cfg) + 1, Len(e.cfg) + 1, TRUE)
  BY DEF G!FromDefault
<1> HIDE DEF f
<1>1. CASE e.nv # 0
  <2> DEFINE b == [e.cfg[e.nv] EXCEPT !.names = @ \cup {d}]
             c == [e.cfg EXCEPT ![e.nv] = b]
  <2>1. f = G!Edit(c, e.nv, e.nv, TRUE)
    BY <1>0, <1>1
  <2>2. e.nv \in DOMAIN e.cfg
    BY <1>1 DEF GoodEdit
  <2>3. b.answers = e.cfg[e.nv].answers
    BY <2>2, BlockOf DEF IsBlock
  <2> HIDE DEF b
  <2>4. c[e.nv] = b
    BY <2>2
  <2> HIDE DEF c
  <2>5. f.cfg = c /\ f.at = e.nv /\ f.nv = e.nv
    BY <2>1 DEF G!Edit
  <2>6. QED
    BY <1>1, <2>3, <2>4, <2>5 DEF f
<1>2. CASE e.nv = 0 /\ G!Cardinality(defaults) # 1
  <2>1. f = [e EXCEPT !.ok = FALSE]
    BY <1>0, <1>2
  <2>2. ~ f.ok
    BY <2>1 DEF GoodEdit, IsEdit
  <2>3. QED
    BY <2>2 DEF f
<1>3. CASE e.nv = 0 /\ G!Cardinality(defaults) = 1
  <2>1. f = G!Edit(Append(e.cfg, copy), Len(e.cfg) + 1, Len(e.cfg) + 1, TRUE)
    BY <1>0, <1>3
  <2>2. DOMAIN e.cfg \in SUBSET Nat
    BY DEF GoodEdit, Fine, Good, IsSeq
  <2>3. defaults # {} /\ defaults \in SUBSET Nat
    BY <1>3, <2>2, FS_EmptySet, NginxCardinality
  <2> DEFINE m == G!Min(defaults)
  <2>4. m \in defaults
    <3> HIDE DEF defaults
    <3>1. QED
      BY <2>3, LeastIn
  <2> HIDE DEF m
  <2>5. m \in DOMAIN e.cfg /\ \E a \in e.cfg[m].addrs : a.port = 80
    <3>1. m \in DOMAIN e.cfg
      BY <2>4
    <3>2. PICK a \in e.cfg[m].addrs : port \in {0, a.port}
      BY <2>4
    <3>3. QED
      BY <3>1, <3>2
  <2>6. IsBlock(e.cfg[m])
    BY <2>5, BlockOf
  <2>7. copy = [e.cfg[m] EXCEPT !.names = {d}, !.addrs = G!Undefault(@)]
    BY DEF m
  <2> HIDE DEF copy
  <2>8. copy.addrs = G!Undefault(e.cfg[m].addrs) /\ copy.sslOn = e.cfg[m].sslOn
    BY <2>6, <2>7 DEF IsBlock
  <2>9. G!Listens(copy, 80)
    <3>1. G!Listens(e.cfg[m], 80)
      BY <2>5 DEF G!Listens
    <3>2. e.cfg[m].addrs \subseteq G!Addr
      BY <2>6 DEF IsBlock
    <3>3. QED
      BY <2>8, <3>1, <3>2, LikeAnother
  <2> DEFINE c == Append(e.cfg, copy)
             n == Len(e.cfg) + 1
  <2>10. IsSeq(e.cfg)
    BY DEF GoodEdit, Fine, Good
  <2>11. n \notin DOMAIN e.cfg /\ c[n] = copy
    <3>1. /\ Len(e.cfg) \in Nat /\ DOMAIN e.cfg = 1..Len(e.cfg) /\ c[Len(e.cfg) + 1] = copy
      BY <2>10, Adding
    <3> HIDE DEF c
    <3>2. QED
      BY <3>1
  <2>12. f.cfg = c /\ f.at = n /\ f.nv = n
    BY <2>1 DEF G!Edit
  <2> HIDE DEF c, n
  <2>13. QED
    BY <1>3, <2>9, <2>11, <2>12 DEF f
<1>4. QED
  BY <1>1, <1>2, <1>3

LEMMA Raising ==
  ASSUME NEW e, GoodEdit(e), NEW at
  PROVE  LET f == [e EXCEPT !.at = at] IN f.cfg = e.cfg /\ f.nv = e.nv /\ f.at = at /\ f.ok = e.ok
BY DEF GoodEdit, IsEdit

\* The block chosen at port 80 is the first, or there is none to choose.
LEMMA PlainFirst ==
  ASSUME NEW e, GoodEdit(e), OneOfAKind(e.cfg), PlainAt80(e.cfg), NEW d \in G!Domains
  PROVE  LET cand == {i \in DOMAIN e.cfg : G!PlainPort80(e.cfg, i)}
             at == G!SelectBest(e.cfg, cand, d)
         IN IF at # 0 THEN at \in DOMAIN e.cfg /\ First(e.cfg, d, at)
            ELSE \A j \in DOMAIN e.cfg : G!Listens(e.cfg[j], 80) => Kind(e.cfg[j], d) = 4
<1> DEFINE c == e.cfg
           cand == {i \in DOMAIN e.cfg : G!PlainPort80(e.cfg, i)}
           at == G!SelectBest(e.cfg, cand, d)
<1>1. cand \in SUBSET (Nat \ {0})
  BY DEF GoodEdit, Fine, Good, IsSeq
<1>2. \A j \in DOMAIN c : j \in cand <=> G!Listens(c[j], 80)
  BY DEF PlainAt80, G!PlainPort80, G!Listens
<1> HIDE DEF cand, at
<1>3. /\ at # 0 => /\ at \in cand /\ Kind(c[at], d) < 4
                   /\ \A j \in cand : Rank(c, at, d) <= Rank(c, j, d)
      /\ at = 0 => \A j \in cand : Kind(c[j], d) = 4
  BY <1>1, Selected DEF at
<1>4. cand \subseteq DOMAIN c
  BY DEF cand
<1>5. ASSUME at # 0
      PROVE  at \in DOMAIN c /\ First(c, d, at)
  <2>1. Fits(c[at], d)
    BY <1>2, <1>3, <1>4, <1>5 DEF Fits
  <2>2. ASSUME NEW j \in DOMAIN c \ {at}, G!Listens(c[j], 80)
        PROVE  Kind(c[at], d) < Kind(c[j], d)
    <3>1. Kind(c[at], d) \in 0..4 /\ Kind(c[j], d) \in 0..4
      BY KindIs
    <3>2. Rank(c, at, d) <= Rank(c, j, d)
      BY <1>2, <1>3, <1>5, <2>2
    <3>3. Kind(c[at], d) <= Kind(c[j], d)
      BY <3>1, <3>2 DEF Rank
    <3>4. Kind(c[at], d) # Kind(c[j], d)
      <4>1. ASSUME Kind(c[at], d) = Kind(c[j], d)
            PROVE  FALSE
        <5>1. Fits(c[j], d)
          BY <1>3, <1>5, <2>2, <4>1 DEF Fits
        <5>2. at \in DOMAIN c
          BY <1>3, <1>4, <1>5
        <5>3. QED
          BY <2>1, <2>2, <4>1, <5>1, <5>2 DEF OneOfAKind
      <4>2. QED
        BY <4>1
    <3>5. QED
      BY <3>1, <3>3, <3>4
  <2>3. QED
    BY <1>3, <1>4, <1>5, <2>1, <2>2 DEF First
<1>6. ASSUME at = 0
      PROVE  \A j \in DOMAIN c : G!Listens(c[j], 80) => Kind(c[j], d) = 4
  BY <1>2, <1>3, <1>6
<1>7. QED
  BY <1>5, <1>6 DEF at, cand

\* Where no block is named for the domain at port 80, the one it is given is the first.
LEMMA DefaultFirst ==
  ASSUME NEW e, GoodEdit(e), OneOfAKind(e.cfg), NEW d \in G!Domains,
         \A j \in DOMAIN e.cfg : G!Listens(e.cfg[j], 80) => Kind(e.cfg[j], d) = 4,
         e.nv # 0 => G!Listens(e.cfg[e.nv], 80), G!FromDefault(e, d, 80).ok
  PROVE  LET f == G!FromDefault(e, d, 80)
         IN /\ Extended(e.cfg, f.cfg, d) /\ OneOfAKind(f.cfg)
            /\ f.at \in DOMAIN f.cfg /\ First(f.cfg, d, f.at)
            /\ f.nv = f.at
<1> DEFINE c == e.cfg
           f == G!FromDefault(e, d, 80)
<1>0. f.ok /\ f.nv = f.at
  BY DefaultAnswers
<1>1. \/ /\ f.at \in DOMAIN c /\ DOMAIN f.cfg = DOMAIN c
         /\ \A j \in DOMAIN c \ {f.at} : f.cfg[j] = c[j]
         /\ Same(f.cfg[f.at], c[f.at]) /\ f.cfg[f.at].names = c[f.at].names \cup {d}
      \/ /\ f.at \notin DOMAIN c /\ DOMAIN f.cfg = DOMAIN c \cup {f.at}
         /\ \A j \in DOMAIN c : f.cfg[j] = c[j]
         /\ f.cfg[f.at].names = {d}
         /\ \E m \in DOMAIN c : /\ f.cfg[f.at].addrs = G!Undefault(c[m].addrs)
                                /\ f.cfg[f.at].sslOn = c[m].sslOn
  BY <1>0, DefaultFound
<1>2. /\ e.nv # 0 => f.at = e.nv /\ f.cfg[f.at].answers = c[e.nv].answers
      /\ e.nv = 0 => f.at \notin DOMAIN c /\ G!Listens(f.cfg[f.at], 80)
  BY <1>0, DefaultAnswers
<1>3. e.nv # 0 => e.nv \in DOMAIN c
  BY DEF GoodEdit
<1> HIDE DEF f
<1>4. /\ f.at \in DOMAIN f.cfg /\ DOMAIN f.cfg = DOMAIN c \cup {f.at}
      /\ \A j \in DOMAIN c \ {f.at} : f.cfg[j] = c[j]
  BY <1>1
<1>5. G!Listens(f.cfg[f.at], 80)
  <2>1. CASE e.nv = 0
    BY <1>2, <2>1
  <2>2. CASE e.nv # 0
    <3>1. G!Listens(c[f.at], 80) /\ f.cfg[f.at].addrs = c[f.at].addrs
      BY <1>1, <1>2, <1>3, <2>2 DEF Same
    <3>2. QED
      BY <3>1 DEF G!Listens
  <2>3. QED
    BY <2>1, <2>2
<1>6. Kind(f.cfg[f.at], d) = 0
  BY <1>1, KindIs
<1>7. \A j \in DOMAIN f.cfg \ {f.at} : G!Listens(f.cfg[j], 80) => Kind(f.cfg[j], d) = 4
  BY <1>4
<1>8. First(f.cfg, d, f.at)
  BY <1>5, <1>6, <1>7 DEF First, Fits
<1>9. Extended(c, f.cfg, d)
  <2>1. CASE e.nv # 0
    <3>1. /\ f.at \in DOMAIN c /\ DOMAIN f.cfg = DOMAIN c /\ f.cfg[f.at].addrs = c[f.at].addrs
          /\ f.cfg[f.at].sslOn = c[f.at].sslOn /\ f.cfg[f.at].answers = c[f.at].answers
          /\ f.cfg[f.at].names = c[f.at].names \cup {d}
      BY <1>1, <1>2, <1>3, <2>1 DEF Same
    <3>2. QED
      BY <1>4, <3>1 DEF Extended
  <2>2. CASE e.nv = 0
    BY <1>1, <1>2, <2>2 DEF Extended
  <2>3. QED
    BY <2>1, <2>2
<1>10. OneOfAKind(f.cfg)
  <2>1. ASSUME NEW h \in G!Domains, NEW i \in DOMAIN f.cfg, NEW j \in DOMAIN f.cfg,
               Fits(f.cfg[i], h), Fits(f.cfg[j], h), Kind(f.cfg[i], h) = Kind(f.cfg[j], h)
        PROVE  i = j
    <3>1. CASE h = d
      <4>1. \A l \in DOMAIN f.cfg : Fits(f.cfg[l], d) => l = f.at
        BY <1>7 DEF Fits
      <4>2. QED
        BY <2>1, <3>1, <4>1
    <3>2. CASE h # d
      <4>1. ASSUME NEW l \in DOMAIN f.cfg, Fits(f.cfg[l], h)
            PROVE  l \in DOMAIN c /\ Fits(c[l], h) /\ Kind(f.cfg[l], h) = Kind(c[l], h)
        <5>1. CASE l # f.at
          BY <1>4, <4>1, <5>1
        <5>2. CASE l = f.at /\ l \notin DOMAIN c
          <6>1. Kind(f.cfg[l], h) = 4
            BY <1>1, <3>2, <5>2, OtherDomain
          <6>2. QED
            BY <4>1, <6>1 DEF Fits
        <5>3. CASE l = f.at /\ l \in DOMAIN c
          <6>1. f.cfg[l].names = c[l].names \cup {d} /\ f.cfg[l].addrs = c[l].addrs
            BY <1>1, <5>3 DEF Same
          <6>2. Kind(f.cfg[l], h) = Kind(c[l], h)
            BY <3>2, <6>1, OtherDomain
          <6>3. QED
            BY <4>1, <5>3, <6>1, <6>2 DEF Fits, G!Listens
        <5>4. QED
          BY <5>1, <5>2, <5>3
      <4>2. QED
        BY <2>1, <4>1 DEF OneOfAKind
    <3>3. QED
      BY <3>1, <3>2
  <2>2. QED
    BY <2>1 DEF OneOfAKind
<1>11. QED
  BY <1>0, <1>4, <1>8, <1>9, <1>10 DEF f

\* What a challenge looks for at port 80.
LEMMA HttpChoice ==
  ASSUME NEW e, GoodEdit(e), e.ok, OneOfAKind(e.cfg), PlainAt80(e.cfg), NEW d \in G!Domains,
         e.nv # 0 => G!Listens(e.cfg[e.nv], 80)
  PROVE  LET f == G!ChooseRedirectVhost(e, d, TRUE)
         IN IF f.ok THEN /\ Extended(e.cfg, f.cfg, d) /\ OneOfAKind(f.cfg)
                         /\ f.at \in DOMAIN f.cfg /\ First(f.cfg, d, f.at)
                         /\ f.nv # 0 => G!Listens(f.cfg[f.nv], 80)
            ELSE \A j \in DOMAIN e.cfg : G!Listens(e.cfg[j], 80) => Kind(e.cfg[j], d) = 4
<1> DEFINE cand == {i \in DOMAIN e.cfg : G!PlainPort80(e.cfg, i)}
           at == G!SelectBest(e.cfg, cand, d)
           f == G!ChooseRedirectVhost(e, d, TRUE)
           g == [e EXCEPT !.at = at]
<1>1. IF at # 0 THEN at \in DOMAIN e.cfg /\ First(e.cfg, d, at)
      ELSE \A j \in DOMAIN e.cfg : G!Listens(e.cfg[j], 80) => Kind(e.cfg[j], d) = 4
  BY PlainFirst
<1>2. f = IF at # 0 THEN g ELSE G!FromDefault(e, d, 80)
  BY DEF G!ChooseRedirectVhost, G!FoundPlain
<1> HIDE DEF at, f
<1>3. g.cfg = e.cfg /\ g.nv = e.nv /\ g.at = at /\ g.ok = e.ok
  BY Raising
<1> HIDE DEF g
<1>4. CASE at # 0
  <2>1. Extended(e.cfg, e.cfg, d)
    BY DEF Extended
  <2>2. QED
    BY <1>1, <1>2, <1>3, <1>4, <2>1 DEF f
<1>5. CASE at = 0
  <2>1. f = G!FromDefault(e, d, 80) /\ \A j \in DOMAIN e.cfg : G!Listens(e.cfg[j], 80) => Kind(e.cfg[j], d) = 4
    BY <1>1, <1>2, <1>5
  <2>2. CASE f.ok
    <3>1. /\ Extended(e.cfg, f.cfg, d) /\ OneOfAKind(f.cfg)
          /\ f.at \in DOMAIN f.cfg /\ First(f.cfg, d, f.at) /\ f.nv = f.at
      BY <2>1, <2>2, DefaultFirst
    <3>2. QED
      BY <2>2, <3>1 DEF First, Fits, f
  <2>3. CASE ~ f.ok
    BY <2>1, <2>3 DEF f
  <2>4. QED
    BY <2>2, <2>3
<1>6. QED
  BY <1>4, <1>5

\* The http-01 challenges of D are answered by what the work has come to.
HttpWork(x, D) ==
  /\ GoodWork(x) /\ x.e.ok /\ OneOfAKind(x.e.cfg) /\ PlainAt80(x.e.cfg)
  /\ x.e.nv # 0 => G!Listens(x.e.cfg[x.e.nv], 80)
  /\ \A b \in Elements(x.new) : \E q \in D : b.names = {q} /\ b.answers = {q}
  /\ \A q \in D : \E k \in 0..3 : Heard(Elements(x.new) \cup Elements(x.e.cfg), 80, q, k)

LEMMA Addresses ==
  ASSUME NEW c, Good(c), NEW j \in DOMAIN c
  PROVE  c[j].addrs \subseteq G!Addr
BY DEF Good, Tame, IsBlock

\* The block found is the first: it answers, and no other is asked.
LEMMA FoundHeard ==
  ASSUME NEW f, GoodEdit(f), f.at \in DOMAIN f.cfg, NEW d \in G!Domains, First(f.cfg, d, f.at), NEW c,
         Extended(c, f.cfg, d), NEW N, \A b \in N : Kind(b, d) = 4
  PROVE  LET g == [f EXCEPT !.cfg[f.at] = [f.cfg[f.at] EXCEPT !.answers = @ \cup {d}]]
         IN /\ Routed(f.cfg, g.cfg) /\ g.nv = f.nv /\ g.ok = f.ok /\ Extended(c, g.cfg, d)
            /\ \E k \in 0..3 : Heard(N \cup Elements(g.cfg), 80, d, k)
<1> DEFINE old == f.cfg[f.at]
           b == [f.cfg[f.at] EXCEPT !.answers = @ \cup {d}]
           g == [f EXCEPT !.cfg[f.at] = b]
<1>1. /\ b.names = old.names /\ b.addrs = old.addrs /\ b.sslOn = old.sslOn
      /\ b.answers = old.answers \cup {d}
  BY BlockOf DEF IsBlock
<1> HIDE DEF b
<1>2. g.cfg = [f.cfg EXCEPT ![f.at] = b] /\ g.nv = f.nv /\ g.ok = f.ok
  BY DEF GoodEdit, IsEdit
<1> HIDE DEF g
<1>3. DOMAIN g.cfg = DOMAIN f.cfg /\ \A j \in DOMAIN f.cfg : g.cfg[j] = IF j = f.at THEN b ELSE f.cfg[j]
  BY <1>2
<1>4. Routed(f.cfg, g.cfg)
  BY <1>1, <1>3 DEF Routed
<1>5. \A j \in DOMAIN f.cfg : /\ g.cfg[j].names = f.cfg[j].names /\ g.cfg[j].addrs = f.cfg[j].addrs
                              /\ g.cfg[j].sslOn = f.cfg[j].sslOn
                              /\ f.cfg[j].answers \subseteq g.cfg[j].answers
  BY <1>1, <1>3
<1>6. Extended(c, g.cfg, d)
  <2>1. DOMAIN c \subseteq DOMAIN f.cfg
    BY DEF Extended
  <2>2. ASSUME NEW j \in DOMAIN c
        PROVE  /\ g.cfg[j].addrs = c[j].addrs /\ g.cfg[j].sslOn = c[j].sslOn
               /\ c[j].answers \subseteq g.cfg[j].answers
               /\ g.cfg[j].names \in {c[j].names, c[j].names \cup {d}}
    BY <1>5, <2>1 DEF Extended
  <2>3. ASSUME NEW j \in DOMAIN g.cfg \ DOMAIN c
        PROVE  /\ g.cfg[j].names = {d}
               /\ \E m \in DOMAIN c : g.cfg[j].addrs = G!Undefault(c[m].addrs) /\ g.cfg[j].sslOn = c[m].sslOn
    <3>1. j \in DOMAIN f.cfg \ DOMAIN c
      BY <1>3
    <3>2. g.cfg[j].names = f.cfg[j].names /\ g.cfg[j].addrs = f.cfg[j].addrs /\ g.cfg[j].sslOn = f.cfg[j].sslOn
      BY <1>5, <3>1
    <3>3. QED
      BY <3>1, <3>2 DEF Extended
  <2>4. QED
    BY <1>3, <2>1, <2>2, <2>3 DEF Extended
<1> DEFINE k == Kind(f.cfg[f.at], d)
<1>7. k \in 0..3
  <2>1. k \in 0..4 /\ k < 4
    BY KindIs DEF First, Fits
  <2> HIDE DEF k
  <2>2. QED
    BY <2>1
<1>8. \A j \in DOMAIN f.cfg : /\ Kind(g.cfg[j], d) = Kind(f.cfg[j], d)
                              /\ G!Listens(g.cfg[j], 80) <=> G!Listens(f.cfg[j], 80)
  BY <1>5 DEF Kind, G!Listens
<1>9. G!Listens(g.cfg[f.at], 80) /\ Kind(g.cfg[f.at], d) <= k /\ g.cfg[f.at] \in Elements(g.cfg)
  <2>1. G!Listens(g.cfg[f.at], 80)
    BY <1>8 DEF First, Fits
  <2>2. Kind(g.cfg[f.at], d) = k
    BY <1>8
  <2> HIDE DEF k
  <2>3. QED
    BY <1>3, <1>7, <2>1, <2>2 DEF Elements
<1>10. ASSUME NEW q \in N \cup Elements(g.cfg), G!Listens(q, 80), Kind(q, d) <= k
       PROVE  d \in q.answers
  <2>1. q \notin N
    <3> HIDE DEF k
    <3>1. QED
      BY <1>7, <1>10
  <2>2. PICK j \in DOMAIN f.cfg : q = g.cfg[j]
    BY <1>3, <1>10, <2>1 DEF Elements
  <2>3. j = f.at
    <3>1. ASSUME j # f.at
          PROVE  FALSE
      <4>1. k < Kind(f.cfg[j], d) /\ Kind(f.cfg[j], d) <= k
        BY <1>8, <1>10, <2>2, <3>1 DEF First
      <4>2. Kind(f.cfg[j], d) \in 0..4
        BY KindIs
      <4> HIDE DEF k
      <4>3. QED
        BY <1>7, <4>1, <4>2
    <3>2. QED
      BY <3>1
  <2>4. QED
    BY <1>1, <1>3, <2>2, <2>3
<1> HIDE DEF k
<1>11. Heard(N \cup Elements(g.cfg), 80, d, k)
  BY <1>9, <1>10 DEF Heard
<1>12. QED
  BY <1>2, <1>4, <1>6, <1>7, <1>11 DEF g, b

LEMMA HttpWorked ==
  ASSUME NEW x, NEW D \in SUBSET G!Domains, HttpWork(x, D), NEW d \in G!Domains, d \notin D
  PROVE  HttpWork(G!HttpBlock(x, d), D \cup {d})
<1> DEFINE c == x.e.cfg
           N == Elements(x.new)
           f == G!ChooseRedirectVhost(x.e, d, TRUE)
           s == G!ChallengeServer(d)
           y == G!HttpBlock(x, d)
<1>1. GoodWork(x) /\ GoodEdit(x.e) /\ Good(c) /\ IsSeq(x.new) /\ IsWork(x)
  BY DEF HttpWork, GoodWork, GoodEdit, Fine
<1>2. GoodWork(y)
  BY <1>1, HttpBlockGood
<1>3. GoodEdit(f)
  BY <1>1, PlainChosen
<1>4. IF f.ok THEN /\ Extended(c, f.cfg, d) /\ OneOfAKind(f.cfg)
                   /\ f.at \in DOMAIN f.cfg /\ First(f.cfg, d, f.at)
                   /\ f.nv # 0 => G!Listens(f.cfg[f.nv], 80)
      ELSE \A j \in DOMAIN c : G!Listens(c[j], 80) => Kind(c[j], d) = 4
  BY <1>1, HttpChoice DEF HttpWork
<1>5. y = G!Answer(x, f, d)
  BY DEF G!HttpBlock
<1> HIDE DEF f, y
<1>6. \A b \in N : \E q \in D : b.names = {q} /\ b.answers = {q}
  BY DEF HttpWork
<1>7. \A b \in N : Kind(b, d) = 4
  BY <1>6, OtherDomain
<1>8. CASE f.ok
  <2> DEFINE g == [f EXCEPT !.cfg[f.at] = [f.cfg[f.at] EXCEPT !.answers = @ \cup {d}]]
  <2>1. /\ Routed(f.cfg, g.cfg) /\ g.nv = f.nv /\ g.ok = f.ok /\ Extended(c, g.cfg, d)
        /\ \E k \in 0..3 : Heard(N \cup Elements(g.cfg), 80, d, k)
    BY <1>3, <1>4, <1>7, <1>8, FoundHeard
  <2>2. y = [x EXCEPT !.e = g]
    BY <1>5, <1>8 DEF G!Answer
  <2> HIDE DEF g
  <2>3. y.e = g /\ y.new = x.new
    BY <1>1, <2>2 DEF IsWork
  <2>4. OneOfAKind(g.cfg)
    BY <1>4, <1>8, <2>1, RoutedKept
  <2>5. PlainAt80(g.cfg)
    <3>1. \A j \in DOMAIN c : c[j].addrs \subseteq G!Addr
      BY <1>1, Addresses
    <3>2. PlainAt80(c)
      BY DEF HttpWork
    <3>3. QED
      BY <2>1, <3>1, <3>2, ExtendedPlain
  <2>6. g.nv # 0 => G!Listens(g.cfg[g.nv], 80)
    <3>1. f.nv # 0 => f.nv \in DOMAIN f.cfg
      BY <1>3 DEF GoodEdit
    <3>2. QED
      BY <1>4, <1>8, <2>1, <3>1, RoutedBlocks
  <2>7. ASSUME NEW q \in D
        PROVE  \E k \in 0..3 : Heard(N \cup Elements(g.cfg), 80, q, k)
    <3>1. PICK k \in 0..3 : Heard(N \cup Elements(c), 80, q, k)
      BY DEF HttpWork
    <3>2. q \in G!Domains /\ q # d
      OBVIOUS
    <3>3. Extended(c, g.cfg, d)
      BY <2>1
    <3> HIDE DEF c, N
    <3>4. Heard(N \cup Elements(g.cfg), 80, q, k)
      BY <3>1, <3>2, <3>3, ExtendedHeard, Zenon
    <3>5. QED
      BY <3>4
  <2>8. \A q \in D \cup {d} : \E k \in 0..3 : Heard(N \cup Elements(g.cfg), 80, q, k)
    BY <2>1, <2>7
  <2>9. g.ok
    BY <1>8, <2>1
  <2>10. HttpWork(y, D \cup {d})
    BY <1>2, <1>6, <2>3, <2>4, <2>5, <2>6, <2>8, <2>9 DEF HttpWork
  <2>11. QED
    BY <2>10 DEF y
<1>9. CASE ~ f.ok
  <2>1. y = [x EXCEPT !.new = Append(@, s)]
    BY <1>5, <1>9 DEF G!Answer
  <2>2. s.names = {d} /\ s.answers = {d} /\ s.addrs = {G!At(80)}
    <3> DEFINE p == G!Plain({d}, {G!At(80)})
    <3>1. /\ p \in [names : {p.names}, addrs : {p.addrs}, sslOn : {p.sslOn}, cert : {p.cert},
                    clash : {p.clash}, gone : {p.gone}, redirects : {p.redirects},
                    answers : {p.answers}, stapled : {p.stapled}]
          /\ p.names = {d} /\ p.addrs = {G!At(80)}
      BY DEF G!Plain
    <3>2. s = [p EXCEPT !.answers = {d}, !.gone = TRUE]
      BY DEF G!ChallengeServer
    <3> HIDE DEF p, s
    <3>3. QED
      BY <3>1, <3>2
  <2>3. G!Listens(s, 80)
    <3>1. G!At(80).port = 80
      BY DEF G!At
    <3> HIDE DEF s
    <3>2. QED
      BY <2>2, <3>1 DEF G!Listens
  <2> HIDE DEF s
  <2>4. y.e = x.e /\ y.new = Append(x.new, s)
    BY <1>1, <2>1 DEF IsWork
  <2>5. Elements(y.new) = N \cup {s}
    BY <1>1, <2>4, AppendedBlock
  <2>6. Kind(s, d) = 0 /\ \A q \in D : Kind(s, q) = 4
    BY <2>2, KindIs, OtherDomain
  <2>7. Heard((N \cup {s}) \cup Elements(c), 80, d, 0)
    <3>1. ASSUME NEW b \in (N \cup {s}) \cup Elements(c), G!Listens(b, 80), Kind(b, d) <= 0
          PROVE  d \in b.answers
      <4>1. b \notin N /\ b \notin Elements(c)
        BY <1>4, <1>7, <1>9, <3>1 DEF Elements
      <4>2. QED
        BY <2>2, <3>1, <4>1
    <3>2. QED
      BY <2>3, <2>6, <3>1 DEF Heard
  <2>8. ASSUME NEW q \in D
        PROVE  \E k \in 0..3 : Heard((N \cup {s}) \cup Elements(c), 80, q, k)
    <3>1. PICK k \in 0..3 : Heard(N \cup Elements(c), 80, q, k)
      BY DEF HttpWork
    <3>2. ~ (Kind(s, q) <= k)
      BY <2>6
    <3>3. Heard((N \cup {s}) \cup Elements(c), 80, q, k)
      BY <3>1, <3>2 DEF Heard
    <3>4. QED
      BY <3>3
  <2>9. \A q \in D \cup {d} : \E k \in 0..3 : Heard((N \cup {s}) \cup Elements(c), 80, q, k)
    <3>1. 0 \in 0..3
      OBVIOUS
    <3>2. QED
      BY <2>7, <2>8, <3>1
  <2>10. \A b \in N \cup {s} : \E q \in D \cup {d} : b.names = {q} /\ b.answers = {q}
    BY <1>6, <2>2
  <2>11. HttpWork(y, D \cup {d})
    BY <1>2, <2>4, <2>5, <2>9, <2>10 DEF HttpWork
  <2>12. QED
    BY <2>11 DEF y
<1>10. QED
  BY <1>8, <1>9

\* A tls-sni-01 challenge is answered by its own block, which listens where the
\* block chosen for the domain does: at 443.
LEMMA SslListens ==
  ASSUME NEW c, Good(c), PlainAt80(c), NEW i \in DOMAIN c, G!IsSsl(c, i)
  PROVE  G!Listens(c[i], 443)
<1>1. PlainBlocks(c)
  BY PlainIsPlain
<1>2. \A a \in c[i].addrs : a.port \in {80, 443}
  BY Addresses DEF G!Addr
<1>3. CASE c[i].sslOn
  <2>1. ~ G!Listens(c[i], 80)
    BY <1>1, <1>3 DEF PlainBlocks
  <2>2. QED
    BY <1>2, <2>1 DEF G!Listens
<1>4. CASE ~ c[i].sslOn
  <2>1. PICK a \in c[i].addrs : a.port \in G!SslPorts(c)
    BY <1>4 DEF G!IsSsl
  <2>2. a.port # 80
    <3>1. ASSUME NEW j \in DOMAIN c, NEW x \in c[j].addrs, x.ssl \/ c[j].sslOn
          PROVE  x.port # 80
      BY <1>1, <3>1 DEF PlainBlocks, G!Listens
    <3>2. QED
      BY <2>1, <3>1 DEF G!SslPorts
  <2>3. QED
    BY <1>2, <2>1, <2>2 DEF G!Listens
<1>5. QED
  BY <1>3, <1>4

LEMMA SslPlain ==
  ASSUME NEW e, GoodEdit(e), e.at \in DOMAIN e.cfg, PlainAt80(e.cfg), NoZname(e.cfg)
  PROVE  LET g == G!MakeServerSsl(e) IN PlainAt80(g.cfg) /\ NoZname(g.cfg)
<1> DEFINE g == G!MakeServerSsl(e)
           a443 == [G!At(443) EXCEPT !.ssl = TRUE]
           old == e.cfg[e.at]
           new == g.cfg[e.at]
<1>1. /\ DOMAIN g.cfg = DOMAIN e.cfg /\ \A j \in DOMAIN e.cfg \ {e.at} : g.cfg[j] = e.cfg[j]
      /\ new.names = old.names /\ new.sslOn = old.sslOn
      /\ new.addrs = (IF old.addrs = {} THEN {G!At(80)} ELSE old.addrs) \cup {a443}
  BY SslBlock
<1>2. /\ a443.port = 443 /\ a443.ssl /\ G!At(80).port = 80 /\ ~ G!At(80).ssl
  BY AddressesMade
<1>3. /\ PlainBlocks(e.cfg) /\ (G!Listens(old, 80) => ~ old.sslOn)
      /\ \A a \in old.addrs : a.port = 80 => ~ a.ssl
  <2>1. PlainBlocks(e.cfg)
    BY PlainIsPlain
  <2>2. QED
    BY <2>1 DEF PlainBlocks
<1> HIDE DEF g, a443, old, new
<1>4. G!Listens(new, 80) <=> G!Listens(old, 80)
  BY <1>1, <1>2 DEF G!Listens
<1>5. (G!Listens(new, 80) => ~ new.sslOn) /\ \A a \in new.addrs : a.port = 80 => ~ a.ssl
  BY <1>1, <1>2, <1>3, <1>4
<1>6. PlainBlocks(g.cfg)
  <2>1. ASSUME NEW i \in DOMAIN g.cfg
        PROVE  /\ G!Listens(g.cfg[i], 80) => ~ g.cfg[i].sslOn
               /\ \A a \in g.cfg[i].addrs : a.port = 80 => ~ a.ssl
    <3>1. CASE i = e.at
      BY <1>5, <3>1 DEF new
    <3>2. CASE i # e.at
      BY <1>1, <1>3, <3>2 DEF PlainBlocks
    <3>3. QED
      BY <3>1, <3>2
  <2>2. QED
    BY <2>1 DEF PlainBlocks
<1>7. NoZname(g.cfg)
  <2>1. ASSUME NEW i \in DOMAIN g.cfg
        PROVE  g.cfg[i].names = e.cfg[i].names
    BY <1>1 DEF new, old
  <2>2. QED
    BY <1>1, <2>1 DEF NoZname
<1>8. QED
  BY <1>6, <1>7, PlainIsPlain DEF g

\* No name of the CA's is given to a block but the challenge's own.
LEMMA Znames ==
  ASSUME NEW d \in G!Domains
  PROVE  /\ G!Zdomain[d] \in {"za", "zb"} /\ d \notin {"za", "zb"} /\ G!Zdomain[d] \notin DOMAIN G!Wild
         /\ \A q \in G!Domains : G!Zdomain[q] = G!Zdomain[d] => q = d
BY DEF G!Zdomain, G!Domains, G!Wild

LEMMA SniChosen ==
  ASSUME NEW e, GoodEdit(e), PlainAt80(e.cfg), NoZname(e.cfg), NEW d \in G!Domains
  PROVE  LET g == G!ChooseVhost(e, d, TRUE)
         IN /\ PlainAt80(g.cfg) /\ NoZname(g.cfg)
            /\ g.ok => g.at \in DOMAIN g.cfg /\ G!Listens(g.cfg[g.at], 443)
<1> DEFINE at == G!SelectBest(e.cfg, DOMAIN e.cfg, d)
           f == G!Found(e, d, at, TRUE)
           g == G!Secured(f)
           h == G!FromDefault(e, d, 0)
<1>1. DOMAIN e.cfg \in SUBSET Nat /\ \A j \in DOMAIN e.cfg : e.cfg[j].addrs \subseteq G!Addr
  <2>1. Good(e.cfg)
    BY DEF GoodEdit, Fine
  <2>2. DOMAIN e.cfg \in SUBSET Nat
    BY <2>1 DEF Good, IsSeq
  <2>3. QED
    BY <2>1, <2>2, Addresses
<1>2. at \in {0} \cup DOMAIN e.cfg
  BY <1>1, SelectIn
<1> HIDE DEF at
<1>3. GoodEdit(f) /\ Aimed(f)
  BY <1>2, FoundGood
<1>4. PlainAt80(h.cfg) /\ NoZname(h.cfg)
  <2>1. Drawn(e.cfg, h.cfg, d)
    <3>1. \/ h.cfg = e.cfg /\ ~ h.ok
          \/ /\ h.ok /\ h.at \in DOMAIN e.cfg /\ DOMAIN h.cfg = DOMAIN e.cfg
             /\ \A j \in DOMAIN e.cfg \ {h.at} : h.cfg[j] = e.cfg[j]
             /\ Same(h.cfg[h.at], e.cfg[h.at]) /\ h.cfg[h.at].names = e.cfg[h.at].names \cup {d}
          \/ /\ h.ok /\ h.at \notin DOMAIN e.cfg /\ DOMAIN h.cfg = DOMAIN e.cfg \cup {h.at}
             /\ \A j \in DOMAIN e.cfg : h.cfg[j] = e.cfg[j]
             /\ h.cfg[h.at].names = {d}
             /\ \E m \in DOMAIN e.cfg : /\ h.cfg[h.at].addrs = G!Undefault(e.cfg[m].addrs)
                                        /\ h.cfg[h.at].sslOn = e.cfg[m].sslOn
      BY DefaultFound
    <3> HIDE DEF h
    <3>2. QED
      BY <3>1 DEF Drawn, Same
  <2>2. PlainAt80(h.cfg)
    <3> HIDE DEF h
    <3>1. QED
      BY <1>1, <2>1, DrawnPlain
  <2>3. NoZname(h.cfg)
    <3> HIDE DEF h
    <3>1. QED
      BY <2>1, Znames DEF Drawn, NoZname
  <2>4. QED
    BY <2>2, <2>3
<1>5. PlainAt80(f.cfg) /\ NoZname(f.cfg)
  <2>1. [e EXCEPT !.at = at].cfg = e.cfg
    BY DEF GoodEdit, IsEdit
  <2>2. f \in {[e EXCEPT !.at = at], h}
    BY DEF G!Found
  <2> HIDE DEF f, h
  <2>3. QED
    BY <1>4, <2>1, <2>2
<1> HIDE DEF f, h
<1>6. GoodEdit(g) /\ Aimed(g)
  BY <1>3, MadeSsl
<1>7. PlainAt80(g.cfg) /\ NoZname(g.cfg)
  <2>1. CASE f.ok /\ ~ G!IsSsl(f.cfg, f.at)
    <3>1. f.at \in DOMAIN f.cfg
      BY <1>3, <2>1 DEF Aimed
    <3>2. QED
      BY <1>3, <1>5, <2>1, <3>1, SslPlain DEF G!Secured
  <2>2. CASE ~ (f.ok /\ ~ G!IsSsl(f.cfg, f.at))
    BY <1>5, <2>2 DEF G!Secured
  <2>3. QED
    BY <2>1, <2>2
<1>8. g.ok => G!IsSsl(g.cfg, g.at)
  BY <1>3, SecuredHeld
<1> HIDE DEF g
<1>9. g.ok => g.at \in DOMAIN g.cfg /\ G!Listens(g.cfg[g.at], 443)
  BY <1>6, <1>7, <1>8, SslListens DEF Aimed, GoodEdit, Fine
<1>10. G!ChooseVhost(e, d, TRUE) = g
  BY DEF G!ChooseVhost, g, f, at
<1>11. QED
  BY <1>7, <1>9, <1>10

\* The tls-sni-01 challenges of D are answered by what the work has come to.
SniWork(x, D) ==
  /\ GoodWork(x)
  /\ x.e.ok =>
       /\ PlainAt80(x.e.cfg) /\ NoZname(x.e.cfg)
       /\ \A b \in Elements(x.new) : \E q \in D : b.names = {G!Zdomain[q]} /\ b.answers = {G!Zdomain[q]}
       /\ \A q \in D : \E b \in Elements(x.new) : b.names = {G!Zdomain[q]} /\ G!Listens(b, 443)

LEMMA SniWorked ==
  ASSUME NEW x, NEW D, SniWork(x, D), NEW d \in G!Domains
  PROVE  SniWork(G!SniBlock(x, d), D \cup {d})
<1> DEFINE f == G!ChooseVhost(x.e, d, TRUE)
           y == G!SniBlock(x, d)
<1>1. GoodWork(y) /\ GoodEdit(f) /\ GoodEdit(x.e) /\ IsWork(x) /\ IsSeq(x.new)
  BY SniBlockGood, ChosenGood DEF SniWork, GoodWork
<1>2. y = G!AnswerSni(x, f, d)
  BY DEF G!SniBlock
<1>3. x.e.ok => /\ PlainAt80(f.cfg) /\ NoZname(f.cfg)
                /\ f.ok => f.at \in DOMAIN f.cfg /\ G!Listens(f.cfg[f.at], 443)
  BY <1>1, SniChosen DEF SniWork
<1> HIDE DEF f, y
<1>4. CASE ~ x.e.ok \/ ~ f.ok
  <2>1. y = [x EXCEPT !.e = [x.e EXCEPT !.ok = FALSE]]
    BY <1>2, <1>4 DEF G!AnswerSni
  <2> DEFINE g == [x.e EXCEPT !.ok = FALSE]
  <2>2. ~ g.ok
    BY <1>1 DEF GoodEdit, IsEdit
  <2> HIDE DEF g
  <2>3. y.e = g
    BY <1>1, <2>1 DEF IsWork, g
  <2>4. SniWork(y, D \cup {d})
    BY <1>1, <2>2, <2>3 DEF SniWork
  <2>5. QED
    BY <2>4 DEF y
<1>5. CASE x.e.ok /\ f.ok
  <2> DEFINE z == G!Zdomain[d]
             old == f.cfg[f.at]
             S == old.addrs
             c == G!SniServer(z, S)
  <2>1. y = [e |-> f, new |-> Append(x.new, c)]
    BY <1>2, <1>5 DEF G!AnswerSni
  <2>2. S \subseteq G!Addr /\ G!Listens(old, 443)
    BY <1>1, <1>3, <1>5, Addresses DEF GoodEdit, Fine
  <2> HIDE DEF z, S
  <2>3. c.names = {z} /\ c.answers = {z} /\ c.addrs = G!Undefault(S)
    <3> DEFINE p == G!Plain({z}, G!Undefault(S))
    <3>1. /\ p \in [names : {p.names}, addrs : {p.addrs}, sslOn : {p.sslOn}, cert : {p.cert},
                    clash : {p.clash}, gone : {p.gone}, redirects : {p.redirects},
                    answers : {p.answers}, stapled : {p.stapled}]
          /\ p.names = {z} /\ p.addrs = G!Undefault(S)
      BY DEF G!Plain
    <3>2. c = [p EXCEPT !.answers = {z}, !.cert = "challenge"]
      BY DEF G!SniServer
    <3> HIDE DEF p, c
    <3>3. QED
      BY <3>1, <3>2
  <2>4. G!Listens(c, 443)
    <3>1. PICK a \in S : a.port = 443
      BY <2>2 DEF G!Listens, S
    <3>2. PICK b \in G!Undefault(S) : b.port = a.port
      BY <2>2, UndefaultedAs
    <3> HIDE DEF c
    <3>3. QED
      BY <2>3, <3>1, <3>2 DEF G!Listens
  <2> HIDE DEF c
  <2>5. y.e = f /\ y.new = Append(x.new, c)
    BY <2>1
  <2>6. Elements(y.new) = Elements(x.new) \cup {c}
    BY <1>1, <2>5, AppendedBlock
  <2>7. /\ \A b \in Elements(x.new) : \E q \in D : b.names = {G!Zdomain[q]} /\ b.answers = {G!Zdomain[q]}
        /\ \A q \in D : \E b \in Elements(x.new) : b.names = {G!Zdomain[q]} /\ G!Listens(b, 443)
    BY <1>5 DEF SniWork
  <2>8. \A b \in Elements(y.new) :
          \E q \in D \cup {d} : b.names = {G!Zdomain[q]} /\ b.answers = {G!Zdomain[q]}
    BY <2>3, <2>6, <2>7 DEF z
  <2>9. \A q \in D \cup {d} : \E b \in Elements(y.new) : b.names = {G!Zdomain[q]} /\ G!Listens(b, 443)
    BY <2>3, <2>4, <2>6, <2>7 DEF z
  <2>10. SniWork(y, D \cup {d})
    BY <1>1, <1>3, <1>5, <2>5, <2>8, <2>9 DEF SniWork
  <2>11. QED
    BY <2>10 DEF y
<1>6. QED
  BY <1>4, <1>5

\* The strongest kind of name is the host's own.
LEMMA ExactKind ==
  ASSUME NEW b, NEW h, Kind(b, h) = 0
  PROVE  h \in b.names
<1> DEFINE S == {<<4, 0>>} \cup {G!Match(h, n) : n \in b.names}
           x == G!BestMatch(h, b.names)
<1>1. x \in S /\ x[1] = 0
  BY Best DEF Kind
<1>2. /\ DOMAIN G!Wild = {"*.long", "*.short", "end.*", "~regex"} /\ <<4, 0>>[1] = 4
      /\ <<1, 2>>[1] = 1 /\ <<1, 1>>[1] = 1 /\ <<2, 1>>[1] = 2 /\ <<3, 1>>[1] = 3
  BY DEF G!Wild
<1>3. \A n \in DOMAIN G!Wild : G!Wild[n] \in {<<1, 2>>, <<1, 1>>, <<2, 1>>, <<3, 1>>}
  BY DEF G!Wild
<1> HIDE DEF x
<1>4. PICK n \in b.names : x = G!Match(h, n)
  BY <1>1, <1>2
<1>5. ASSUME n # h
      PROVE  FALSE
  <2>1. G!Match(h, n) \in {<<1, 2>>, <<1, 1>>, <<2, 1>>, <<3, 1>>, <<4, 0>>}
    BY <1>3, <1>5 DEF G!Match
  <2>2. QED
    BY <1>1, <1>2, <1>4, <2>1
<1>6. QED
  BY <1>5

LEMMA SniHeard ==
  ASSUME NEW x, NEW D \in SUBSET G!Domains, SniWork(x, D), x.e.ok, NEW d \in D
  PROVE  Heard(Elements(x.new) \cup Elements(x.e.cfg), 443, G!Zdomain[d], 0)
<1> DEFINE z == G!Zdomain[d]
           B == Elements(x.new) \cup Elements(x.e.cfg)
<1>1. /\ NoZname(x.e.cfg)
      /\ \A b \in Elements(x.new) : \E q \in D : b.names = {G!Zdomain[q]} /\ b.answers = {G!Zdomain[q]}
      /\ \E b \in Elements(x.new) : b.names = {z} /\ G!Listens(b, 443)
  BY DEF SniWork
<1>2. z \in {"za", "zb"}
  BY Znames
<1> HIDE DEF z
<1>3. \E b \in B : G!Listens(b, 443) /\ Kind(b, z) <= 0
  <2>1. PICK b \in Elements(x.new) : b.names = {z} /\ G!Listens(b, 443)
    BY <1>1
  <2>2. Kind(b, z) = 0
    BY <2>1, KindIs
  <2>3. QED
    BY <2>1, <2>2
<1>4. ASSUME NEW b \in B, Kind(b, z) <= 0
      PROVE  z \in b.answers
  <2>1. Kind(b, z) \in 0..4
    BY KindIs
  <2>2. z \in b.names
    BY <1>4, <2>1, ExactKind
  <2>3. CASE b \in Elements(x.new)
    BY <1>1, <2>2, <2>3
  <2>4. CASE b \in Elements(x.e.cfg)
    BY <1>1, <1>2, <2>2, <2>4 DEF NoZname, Elements
  <2>5. QED
    BY <2>3, <2>4
<1>5. QED
  BY <1>3, <1>4 DEF Heard, z
-----------------------------------------------------------------------------
(* The two parts, and the theorem. *)

NginxAnswers ==
  /\ orig \in Configs /\ (ipc = "perform" => mem = orig /\ newVhost = 0)
  /\ (ipc = "challenged" => out \subseteq Elements(doms)) /\ G!ChallengeReachable

LEMMA NginxPerformsAnswers ==
  ASSUME \A c \in Configs : OneOfAKind(c) /\ PlainAt80(c) /\ NoZname(c),
         NginxFound, NginxGood, NginxAnswers, NEW ok \in BOOLEAN, G!Perform(ok)
  PROVE  NginxAnswers'
<1> DEFINE e == G!Edit(mem, newVhost, 0, TRUE)
           x0 == [e |-> e, new |-> <<>>]
           x == G!InTurn(x0)
           p == IF chal = "http" THEN 80 ELSE 443
           name(d) == IF chal = "http" THEN d ELSE G!Zdomain[d]
           Work(y, D) == IF chal = "http" THEN HttpWork(y, D) ELSE SniWork(y, D)
<1>1. /\ ipc = "perform" /\ orig' = orig /\ doms' = doms /\ chal' = chal /\ out' = G!ToSet(doms)
      /\ ipc' = IF ok THEN "challenged" ELSE "raised"
      /\ ok => x.e.ok /\ running' = x.new \o x.e.cfg
  BY DEF G!Perform, G!asked, G!PutInPlace, G!Restart, G!IncludedFirst
<1>2. GoodWork(x0) /\ Work(x0, {})
  <2>1. GoodEdit(e)
    BY NginxEdit
  <2>2. e.ok /\ e.cfg = orig /\ e.nv = 0
    BY <1>1 DEF NginxAnswers, G!Edit
  <2> HIDE DEF e
  <2>3. IsWork(x0) /\ x0.e = e /\ x0.new = <<>>
    BY DEF IsWork
  <2> HIDE DEF x0
  <2>4. IsSeq(<<>>) /\ DOMAIN <<>> = {} /\ Elements(<<>>) = {}
    <3>1. <<>> \in Seq({}) /\ DOMAIN <<>> = {}
      OBVIOUS
    <3>2. QED
      BY <3>1, SeqOf DEF Elements
  <2>5. GoodWork(x0)
    BY <2>1, <2>3, <2>4 DEF GoodWork
  <2>6. OneOfAKind(orig) /\ PlainAt80(orig) /\ NoZname(orig)
    BY DEF NginxAnswers
  <2>7. HttpWork(x0, {}) /\ SniWork(x0, {})
    BY <2>2, <2>3, <2>4, <2>5, <2>6 DEF HttpWork, SniWork
  <2>8. QED
    BY <2>5, <2>7
<1> HIDE DEF x0
<1>3. ASSUME NEW y, NEW D \in SUBSET G!Domains, Work(y, D), NEW d \in G!Domains \ D
      PROVE  Work(G!Blocks(y, d), D \cup {d})
  BY <1>3, HttpWorked, SniWorked DEF G!Blocks
<1>4. x = IF Len(doms) = 1 THEN G!Blocks(x0, doms[1]) ELSE G!Blocks(G!Blocks(x0, doms[1]), doms[2])
  BY DEF G!InTurn
<1>5. /\ Elements(doms) \subseteq G!Domains /\ G!ToSet(doms) = Elements(doms)
      /\ doms[1] \in G!Domains
      /\ IF Len(doms) = 1 THEN Elements(doms) = {doms[1]}
         ELSE Elements(doms) = {doms[1], doms[2]} /\ doms[2] \in G!Domains \ {doms[1]}
  <2>1. G!Domains = {"a", "b"}
    BY DEF G!Domains
  <2>2. Elements(doms) \subseteq G!Domains /\ G!ToSet(doms) = Elements(doms)
    BY DomsAre DEF NginxFound
  <2>3. CASE doms = <<"a">>
    BY <2>1, <2>2, <2>3, Asked
  <2>4. CASE doms = <<"a", "b">>
    BY <2>1, <2>2, <2>4, Asked
  <2>5. QED
    BY <2>3, <2>4 DEF NginxFound
<1> HIDE DEF x
<1>6. Work(x, Elements(doms))
  <2> DEFINE y == G!Blocks(x0, doms[1])
             z == G!Blocks(y, doms[2])
  <2>1. doms[1] \in G!Domains \ {} /\ {} \in SUBSET G!Domains /\ {} \cup {doms[1]} = {doms[1]}
    BY <1>5
  <2> HIDE DEF Work
  <2>2. Work(y, {} \cup {doms[1]})
    BY <1>2, <1>3, <2>1
  <2>3. CASE Len(doms) = 1
    BY <1>4, <1>5, <2>1, <2>2, <2>3
  <2>4. CASE Len(doms) # 1
    <3>1. doms[2] \in G!Domains \ {doms[1]} /\ {doms[1]} \in SUBSET G!Domains
      BY <1>5, <2>4
    <3> HIDE DEF y
    <3>2. Work(y, {doms[1]})
      BY <2>1, <2>2
    <3>3. Work(z, {doms[1]} \cup {doms[2]})
      BY <1>3, <3>1, <3>2
    <3>4. x = z /\ {doms[1]} \cup {doms[2]} = Elements(doms)
      BY <1>4, <1>5, <2>4 DEF y
    <3>5. QED
      BY <3>3, <3>4
  <2>5. QED
    BY <2>3, <2>4
<1>7. ASSUME ok
      PROVE  G!ChallengeReachable'
  <2> DEFINE B == Elements(x.new) \cup Elements(x.e.cfg)
             c == x.new \o x.e.cfg
  <2>1. x.e.ok /\ running' = c
    BY <1>1, <1>7
  <2>2. GoodWork(x)
    BY <1>6 DEF HttpWork, SniWork
  <2>3. IsSeq(c) /\ Elements(c) = B
    BY <2>2, Joined DEF GoodWork, GoodEdit, Fine, Good
  <2>4. ASSUME NEW d \in Elements(doms)
        PROVE  \E k \in 0..3 : Heard(B, p, name(d), k)
    <3>1. CASE chal = "http"
      BY <1>6, <3>1 DEF HttpWork
    <3>2. CASE chal # "http"
      <4>1. Heard(B, 443, G!Zdomain[d], 0)
        BY <1>5, <1>6, <2>1, <3>2, SniHeard
      <4>2. 0 \in 0..3 /\ p = 443 /\ name(d) = G!Zdomain[d]
        BY <3>2
      <4>3. QED
        BY <4>1, <4>2
    <3>3. QED
      BY <3>1, <3>2
  <2> HIDE DEF B, c, p
  <2>5. ASSUME NEW d \in Elements(doms)
        PROVE  LET i == G!Serve(c, p, name(d)) IN i # 0 /\ name(d) \in c[i].answers
    <3> DEFINE h == name(d)
    <3>1. PICK k \in 0..3 : Heard(Elements(c), p, h, k)
      BY <2>3, <2>4
    <3> HIDE DEF h
    <3>2. LET i == G!Serve(c, p, h) IN i # 0 /\ h \in c[i].answers
      BY <2>3, <3>1, HeardServed
    <3>3. QED
      BY <3>2 DEF h
  <2>6. QED
    BY <1>1, <1>5, <2>1, <2>5 DEF G!ChallengeReachable, p
<1>8. ASSUME ~ ok
      PROVE  G!ChallengeReachable'
  BY <1>1, <1>8 DEF G!ChallengeReachable
<1>9. QED
  BY <1>1, <1>5, <1>7, <1>8 DEF NginxAnswers

\* A challenge cleaned up before the others leaves nginx as it is: the last alone
\* reverts.
LEMMA NginxCleansAnswers ==
  ASSUME NginxFound, NginxAnswers, NEW ok \in BOOLEAN, NEW X \in SUBSET G!Domains, G!Cleanup(X, ok)
  PROVE  NginxAnswers'
<1>1. /\ orig' = orig /\ doms' = doms /\ chal' = chal /\ out' = out \ X /\ X \subseteq out
      /\ ipc' \in {"done", "deploy", "challenged"}
      /\ ipc' = "challenged" => out' # {} /\ ipc # "raised"
      /\ challOut' = challOut - G!Cardinality(X)
  BY DEF G!Cleanup, G!asked
<1>2. ipc \in {"challenged", "raised"}
  BY DEF G!Cleanup
<1>3. CASE ipc' = "challenged"
  <2>1. out \in SUBSET G!Domains /\ challOut = Cardinality(out) /\ ipc = "challenged"
    BY <1>1, <1>2, <1>3 DEF NginxFound
  <2>2. IsFiniteSet(out) /\ IsFiniteSet(X) /\ IsFiniteSet(out \ X)
    BY <2>1, DomainsCounted, FS_Subset
  <2>3. /\ Cardinality(out) \in Nat /\ Cardinality(X) \in Nat /\ Cardinality(out \ X) \in Nat
        /\ Cardinality(out \ X) # 0
    BY <1>1, <1>3, <2>2, FS_CardinalityType, FS_EmptySet
  <2>4. Cardinality(out \ X) = Cardinality(out) - Cardinality(out \cap X)
    BY <2>2, FS_Difference
  <2>5. out \cap X = X
    BY <1>1
  <2>6. challOut' # 0
    BY <1>1, <2>1, <2>3, <2>4, <2>5, NginxCardinality
  <2>7. running' = running
    BY <2>6 DEF G!Cleanup, G!Reverts, G!RevertDue
  <2>8. G!ChallengeReachable'
    BY <1>1, <2>1, <2>7 DEF NginxAnswers, G!ChallengeReachable
  <2>9. QED
    BY <1>1, <1>3, <2>1, <2>8 DEF NginxAnswers
<1>4. CASE ipc' # "challenged"
  BY <1>1, <1>4 DEF NginxAnswers, G!ChallengeReachable
<1>5. QED
  BY <1>3, <1>4

LEMMA NginxStaysAnswers ==
  ASSUME NginxAnswers, orig' = orig,
         \/ ipc' \notin {"perform", "challenged"}
         \/ UNCHANGED <<mem, newVhost, running, doms, chal, out, ipc>>
  PROVE  NginxAnswers'
<1>1. CASE ipc' \notin {"perform", "challenged"}
  BY <1>1 DEF NginxAnswers, G!ChallengeReachable
<1>2. CASE UNCHANGED <<mem, newVhost, running, doms, chal, out, ipc>>
  BY <1>2 DEF NginxAnswers, G!ChallengeReachable
<1>3. QED
  BY <1>1, <1>2

LEMMA NginxKeptAnswers ==
  ASSUME \A c \in Configs : OneOfAKind(c) /\ PlainAt80(c) /\ NoZname(c),
         NginxFound, NginxGood, NginxAnswers, G!Next
  PROVE  NginxAnswers'
<1>1. ASSUME NEW ok \in BOOLEAN, G!Perform(ok)
      PROVE  NginxAnswers'
  BY <1>1, NginxPerformsAnswers
<1>2. ASSUME NEW ok \in BOOLEAN, NEW X \in SUBSET G!Domains, G!Cleanup(X, ok)
      PROVE  NginxAnswers'
  BY <1>2, NginxCleansAnswers
<1>3. ASSUME NEW ok \in BOOLEAN, G!Enhance(ok)
      PROVE  NginxAnswers'
  <2>1. orig' = orig /\ ipc' \in {"enhance", "done"}
    BY <1>3 DEF G!Enhance, G!KeepOrRecover, G!asked
  <2>2. QED
    BY <2>1, NginxStaysAnswers
<1>4. ASSUME NEW ok, NEW again, G!RestartDeployed(ok, again) \/ G!RestartEnhanced(ok, again)
      PROVE  NginxAnswers'
  <2>1. orig' = orig /\ ipc' \in {"enhance", "done"}
    BY <1>4 DEF G!RestartDeployed, G!RestartEnhanced, G!Rollback, G!asked
  <2>2. QED
    BY <2>1, NginxStaysAnswers
<1>5. CASE G!Deploy \/ G!Invalid \/ G!SaveDeployed \/ G!SaveEnhanced
  <2>1. orig' = orig /\ ipc' \in {"deploy", "done", "deployed", "enhance", "enhanced"}
    BY <1>5 DEF G!Deploy, G!SaveOrRecover, G!Invalid, G!SaveDeployed, G!SaveEnhanced, G!asked
  <2>2. QED
    BY <2>1, NginxStaysAnswers
<1>6. CASE G!Over
  <2>1. UNCHANGED <<orig, mem, newVhost, running, doms, chal, out, ipc>>
    BY <1>6 DEF G!Over, G!vars
  <2>2. QED
    BY <2>1, NginxStaysAnswers
<1>7. QED
  BY <1>1, <1>2, <1>3, <1>4, <1>5, <1>6 DEF G!Next, G!Client

ChallengesInv ==
  /\ Nginx => NginxGood /\ NginxAnswers
  /\ Apache => ApacheAnswers

\* While its challenge is open, a domain's request finds the block or host that
\* answers it, in whatever order the challenges are cleaned up: from any
\* configuration in which port 80 speaks plain text only and port 443 none, no two
\* blocks of nginx in plain text are found for a domain by the same kind of name and
\* none has a name of the CA's, each host of Apache is enabled and no two at port 80
\* match a domain.
THEOREM ChallengesAnswered ==
  ASSUME Answerable
  PROVE  MCSpec => []ChallengeReachable
<1>0. /\ \A c \in Configs : OneOfAKind(c) /\ PlainAt80(c) /\ NoZname(c)
      /\ OrdinaryHosts /\ SslAt443
  BY DEF Answerable, SslAt443
<1>1. MCInit => ChallengesInv
  <2>1. G!Init => NginxAnswers
    BY DEF G!Init, NginxAnswers, G!ChallengeReachable
  <2>2. A!Init => ApacheAnswers
    BY DEF A!Init, ApacheAnswers, A!ChallengeReachable
  <2>3. QED
    BY <1>0, <2>1, <2>2, NginxBeginsGood DEF MCInit, ChallengesInv, Nginx, Apache
<1>2. InstallersInv /\ InstallersInv' /\ ChallengesInv /\ [MCNext]_mcVars => ChallengesInv'
  <2> SUFFICES ASSUME InstallersInv, InstallersInv', ChallengesInv, [MCNext]_mcVars
               PROVE  ChallengesInv'
    OBVIOUS
  <2>1. CASE NginxNext
    <3>1. /\ part = "nginx" /\ part' = part /\ G!Next /\ NginxFound /\ NginxGood /\ NginxAnswers
          /\ NginxFound'
      BY <2>1 DEF NginxNext, InstallersInv, ChallengesInv, Nginx
    <3>2. NginxGood' /\ NginxAnswers'
      BY <1>0, <3>1, NginxKeptGood, NginxKeptAnswers
    <3>3. QED
      BY <3>1, <3>2 DEF ChallengesInv, Nginx, Apache
  <2>2. CASE ApacheNext
    <3>1. part = "apache" /\ part' = part /\ A!Next /\ ApacheFound /\ ApacheAnswers
      BY <2>2 DEF ApacheNext, InstallersInv, ChallengesInv, Apache
    <3>2. ApacheAnswers'
      BY <1>0, <3>1, ApacheKeptAnswers
    <3>3. QED
      BY <3>1, <3>2 DEF ChallengesInv, Nginx, Apache
  <2>3. CASE AccountsNext
    <3>1. part = "accounts" /\ part' = part
      BY <2>3 DEF AccountsNext
    <3>2. QED
      BY <3>1 DEF ChallengesInv, Nginx, Apache
  <2>4. CASE UNCHANGED mcVars
    <3>1. UNCHANGED <<part, orig, mem, conf, running, temp, prog, stack, doms, chal, out, ipc, newVhost>>
      BY <2>4 DEF mcVars, shared, nginx
    <3>2. NginxGood => NginxGood'
      BY <3>1 DEF NginxGood
    <3>3. NginxAnswers => NginxAnswers'
      BY <3>1, NginxStaysAnswers
    <3>4. ApacheAnswers => ApacheAnswers'
      BY <3>1, ApacheStaysAnswers
    <3>5. QED
      BY <3>1, <3>2, <3>3, <3>4 DEF ChallengesInv, Nginx, Apache
  <2>5. QED
    BY <2>1, <2>2, <2>3, <2>4 DEF MCNext
<1>3. InstallersInv /\ ChallengesInv => ChallengeReachable
  BY DEF ChallengesInv, ChallengeReachable, NginxAnswers, ApacheAnswers
<1>4. QED
  BY <1>1, <1>2, <1>3, InstallersInvariant, PTL DEF MCSpec
===============================================================================
