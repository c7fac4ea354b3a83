------------------------------- MODULE Accounts -------------------------------
(***************************************************************************)
(* Accounts: registration with the CA, the files that keep an account, the *)
(* commands that use, update and deactivate one.  The CA and the disk are  *)
(* changed one after the other; an answer may be lost, and a command be    *)
(* killed, between any two changes.                                        *)
(***************************************************************************)
EXTENDS Naturals, Sequences, FiniteSets

CONSTANTS Keys,       \* account keys, in the order they are generated: 1, 2, ...
          Mails,      \* the addresses a user gives
          BadMails,   \* those the CA does not take
          MaxCommands, MaxTrouble   \* bounds: commands; kills and lost answers

\* 0 stands for no key.
ASSUME KeysAssumption == Keys \subseteq Nat \ {0}

VARIABLES
  ca,        \* what the CA knows of each key
  file,      \* regr.json, private_key.json, meta.json of each: "none", "torn", "full"
  contact,   \* the address in regr.json, when it can be read
  verb, key, mail,   \* the command, the account it has chosen, config.email
  toSave, opened,    \* files still to be written; the first of them is open
  pc, commands, trouble, ended

disk == <<file, contact>>
counts == <<commands, trouble>>
vars == <<ca, disk, verb, key, mail, toSave, opened, pc, commands, trouble, ended>>

Files == {"regr", "key", "meta"}
NoMail == "none"
Unknown == [st |-> "none", mail |-> NoMail, agreed |-> FALSE]

-----------------------------------------------------------------------------
(* AccountFileStorage.load reads regr.json, private_key.json, meta.json: one  *)
(* that is not there raises AccountStorageError, one that cannot be parsed    *)
(* DeserializationError, which find_all does not catch.                      *)

FirstBad(k) == IF file[k]["regr"] # "full" THEN "regr"
               ELSE IF file[k]["key"] # "full" THEN "key" ELSE "meta"
Loads(k) == \A f \in Files : file[k][f] = "full"
Crashes(k) == ~ Loads(k) /\ file[k][FirstBad(k)] = "torn"
Loadable == {k \in Keys : Loads(k)}

TypeOK ==
  /\ ca \in [Keys -> [st : {"none", "open", "closed"}, mail : Mails \cup {NoMail}, agreed : BOOLEAN]]
  /\ file \in [Keys -> [Files -> {"none", "torn", "full"}]]
  /\ \A k \in Keys : (contact[k] # NoMail => file[k]["regr"] # "none") /\ contact[k] \in Mails \cup {NoMail}
  /\ key \in Keys \cup {0} /\ commands <= MaxCommands /\ trouble <= MaxTrouble
  /\ (toSave # <<>>) = (pc = "save") /\ (opened => pc = "save")
  /\ pc \in {"idle", "determine", "register", "agree", "save", "eff", "update", "close", "delete"}
  /\ ended \in {"", "used", "updated", "closed", "refused", "failed", "crashed"}

\* A machine without an account, or with one or two of an earlier Certbot.
Init ==
  /\ \E old \in SUBSET (Keys \cap {1, 2}), m \in Mails \ BadMails :
       /\ ca = [k \in Keys |-> IF k \in old THEN [st |-> "open", mail |-> m, agreed |-> TRUE] ELSE Unknown]
       /\ file = [k \in Keys |-> [f \in Files |-> IF k \in old THEN "full" ELSE "none"]]
       /\ contact = [k \in Keys |-> IF k \in old THEN m ELSE NoMail]
  /\ verb = "none" /\ key = 0 /\ mail = NoMail /\ toSave = <<>> /\ opened = FALSE
  /\ pc = "idle" /\ commands = 0 /\ trouble = 0 /\ ended = ""

End(how) == pc' = "idle" /\ ended' = how /\ toSave' = <<>> /\ opened' = FALSE
Goto(step) == pc' = step /\ UNCHANGED <<toSave, opened, ended>>
Save(fs) == pc' = "save" /\ toSave' = fs /\ opened' = FALSE /\ UNCHANGED ended

(* main.register, unregister, and every command that asks for a certificate.  *)
(* `m` is --email, or what the user enters; `sure` answers the question.     *)

Crashing == \E k \in Keys : Crashes(k)     \* find_all
Start(v, m, sure) ==
  /\ pc = "idle" /\ commands < MaxCommands /\ commands' = commands + 1
  /\ verb' = v /\ mail' = m /\ key' = 0
  /\ IF v # "use" /\ Crashing THEN pc' = "idle" /\ ended' = "crashed"
     ELSE IF \/ v = "register" /\ Loadable # {}
             \/ v \in {"update", "unregister"} /\ (Loadable = {} \/ ~ sure)
     THEN pc' = "idle" /\ ended' = "refused"
     ELSE pc' = "determine" /\ ended' = ""
  /\ UNCHANGED <<ca, disk, toSave, opened, trouble>>

Chosen == CASE verb = "update" -> Goto("update") [] verb = "unregister" -> Goto("close")
            [] OTHER -> End("used")

\* _determine_account: --account, the only one, the one the user chooses, or a
\* new one.  A user who chooses none makes the command fail (None has no id).
\* With --account no other account is read.
Accounts == Loadable
Fresh == {k \in Keys : ca[k].st = "none" /\ \A f \in Files : file[k][f] = "none"}
Determine(wanted) ==
  /\ pc = "determine" /\ UNCHANGED <<ca, disk, verb, mail, counts>>
  /\ IF wanted # 0
     THEN IF Loads(wanted) THEN key' = wanted /\ Chosen
          ELSE End(IF Crashes(wanted) THEN "crashed" ELSE "failed") /\ UNCHANGED key
     ELSE IF Crashing THEN End("crashed") /\ UNCHANGED key
     ELSE IF Accounts # {}
     THEN \/ \E k \in Accounts : key' = k /\ Chosen
          \/ Cardinality(Accounts) > 1 /\ End("failed") /\ UNCHANGED key
     ELSE Fresh # {} /\ key' = (CHOOSE k \in Fresh : \A j \in Fresh : k <= j) /\ Goto("register")
NoKeyLeft ==                               \* the bound, not the code
  pc = "determine" /\ ~ Crashing /\ Accounts = {} /\ Fresh = {} /\ End("failed")
  /\ UNCHANGED <<ca, disk, verb, key, mail, counts>>

(* client.register *)

\* An answer that is lost leaves the CA as it is after the request.
Lost == trouble < MaxTrouble /\ trouble' = trouble + 1 /\ End("failed")
Answered == UNCHANGED trouble

\* perform_registration: an address the CA refuses is asked for again.
AskAgain(m) ==
  /\ pc = "register" /\ mail \in BadMails /\ mail' = m
  /\ UNCHANGED <<ca, disk, verb, key, toSave, opened, pc, counts, ended>>
GiveUp == /\ pc = "register" /\ mail \in BadMails /\ End("failed")    \* --non-interactive
          /\ UNCHANGED <<ca, disk, verb, key, mail, counts>>
Register ==
  /\ pc = "register" /\ mail \notin BadMails
  /\ ca' = [ca EXCEPT ![key] = [st |-> "open", mail |-> mail, agreed |-> FALSE]]
  /\ (Goto("agree") /\ Answered) \/ Lost
  /\ UNCHANGED <<disk, verb, key, mail, commands>>

\* The user agrees to the terms of service, and the CA is told.
AgreeToTos ==
  /\ pc = "agree" /\ UNCHANGED <<disk, verb, key, mail, commands>>
  /\ \/ /\ ca' = [ca EXCEPT ![key].agreed = TRUE]
        /\ (Save(<<"regr", "key", "meta">>) /\ Answered) \/ Lost
     \/ UNCHANGED <<ca, trouble>> /\ End("failed")

\* _save: open(..., "w") empties a file, its contents are there when it is closed.
OpenFile ==
  /\ pc = "save" /\ ~ opened /\ opened' = TRUE
  /\ file' = [file EXCEPT ![key][Head(toSave)] = "torn"]
  /\ UNCHANGED <<ca, contact, verb, key, mail, toSave, pc, counts, ended>>
\* account.regr is what the CA has answered to the last request.
AnsweredRegr == ca[key].mail
OldRegr == IF contact[key] = NoMail THEN mail ELSE contact[key]   \* mutant: the one it had
Regr == AnsweredRegr
CloseFile ==
  /\ pc = "save" /\ opened /\ opened' = FALSE /\ toSave' = Tail(toSave)
  /\ file' = [file EXCEPT ![key][Head(toSave)] = "full"]
  /\ contact' = IF Head(toSave) = "regr" THEN [contact EXCEPT ![key] = Regr] ELSE contact
  /\ pc' = IF Tail(toSave) = <<>> THEN "eff" ELSE "save"
  /\ UNCHANGED <<ca, verb, key, mail, counts, ended>>

\* handle_subscription; requests.post may raise, which nobody catches.
Subscribe(reached) ==
  /\ pc = "eff" /\ End(IF ~ reached THEN "failed" ELSE IF verb = "update" THEN "updated" ELSE "used")
  /\ UNCHANGED <<ca, disk, verb, key, mail, counts>>

(* register --update-registration; unregister *)

\* The CA refuses bad addresses and closed accounts.
UpdateRegistration ==
  /\ pc = "update" /\ UNCHANGED <<disk, verb, key, mail, commands>>
  /\ IF mail \in BadMails \/ ca[key].st = "closed" THEN End("failed") /\ UNCHANGED <<ca, trouble>>
     ELSE ca' = [ca EXCEPT ![key].mail = mail] /\ ((Save(<<"regr">>) /\ Answered) \/ Lost)

Refused == End("failed")
Ignored == Goto("delete")                  \* mutant: the files are deleted whatever the CA says
NotDeactivated == Refused
DeactivateRegistration ==
  /\ pc = "close" /\ UNCHANGED <<disk, verb, key, mail, commands>>
  /\ \/ ca[key].st = "open" /\ ca' = [ca EXCEPT ![key].st = "closed"]
        /\ ((Goto("delete") /\ Answered) \/ Lost)
     \/ NotDeactivated /\ UNCHANGED <<ca, trouble>>

\* shutil.rmtree, one file after the other.
Remains == {f \in Files : file[key][f] # "none"}
Removal == \E f \in Remains :
             /\ file' = [file EXCEPT ![key][f] = "none"]
             /\ contact' = IF f = "regr" THEN [contact EXCEPT ![key] = NoMail] ELSE contact
             /\ IF Remains = {f} THEN End("closed") ELSE UNCHANGED <<pc, toSave, opened, ended>>
Delete == pc = "delete" /\ Removal /\ UNCHANGED <<ca, verb, key, mail, counts>>

Kill == /\ pc # "idle" /\ trouble < MaxTrouble /\ trouble' = trouble + 1 /\ End("failed")
        /\ UNCHANGED <<ca, disk, verb, key, mail, commands>>

Step == \/ \E k \in Keys \cup {0} : Determine(k)
        \/ NoKeyLeft \/ GiveUp \/ Register \/ AgreeToTos \/ OpenFile \/ CloseFile
        \/ \E m \in Mails : AskAgain(m)
        \/ \E reached \in BOOLEAN : Subscribe(reached)
        \/ UpdateRegistration \/ DeactivateRegistration \/ Delete
Over == pc = "idle" /\ commands = MaxCommands /\ UNCHANGED vars
Next == \/ \E v \in {"use", "register", "update", "unregister"}, m \in Mails, sure \in BOOLEAN : Start(v, m, sure)
        \/ Step \/ Kill \/ Over
Spec == Init /\ [][Next]_vars

-----------------------------------------------------------------------------
(* Properties. *)

\* The key of an account, without which it can be used no more, leaves the disk
\* only after the CA has closed the account; and a machine that has an account
\* gets no second one from any command.
KeyKept ==
  [][\A k \in Keys :
       /\ file[k]["key"] = "full" /\ file'[k]["key"] # "full" => ca[k].st = "closed"
       /\ file[k]["key"] # "full" /\ file'[k]["key"] = "full" => Loadable = {}]_vars

\* What is on the disk can be used: its holder has agreed to the terms of
\* service, as far as the CA knows.
Agreed == \A k \in Loadable : ca[k].agreed

\* While no answer was lost and nothing killed, the disk and the CA agree on
\* which accounts are open and on their addresses, and nothing is left of the
\* others.
Synchronous ==
  trouble = 0 /\ pc = "idle" =>
    \A k \in Keys : IF Loads(k) THEN ca[k].st = "open" /\ contact[k] = ca[k].mail
                   ELSE \A f \in Files : file[k][f] = "none"

\* The disk and the CA agree, as far as no answer was lost and nothing killed;
\* the terms of service have been agreed to in any case.
InStep == Synchronous /\ Agreed
=============================================================================
