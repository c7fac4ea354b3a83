----------------------------- MODULE DnsRecords -----------------------------
(***************************************************************************)
(* The authenticators that answer a dns-01 challenge through the interface *)
(* of a DNS provider: find the zone a name is in, add the TXT record, wait *)
(* for it, and delete it again.  Several clients work for the same name at *)
(* the same provider, each with a validation (record content) of its own;  *)
(* an earlier run of client 1 may have left its record behind, since the   *)
(* CA hands out a pending authorization again.                             *)
(*                                                                         *)
(* A call of the provider may fail, before or after it took effect.        *)
(***************************************************************************)
EXTENDS Naturals, FiniteSets, FiniteSetsExt

CONSTANTS Clients,   \* concurrent runs of certbot for the name
          Guesses,   \* base_domain_name_guesses: 1 is the name itself, 2 its parent, ...
          MaxWait    \* polls for a change to spread (120 in the code)

VARIABLES
  prov,     \* the provider
  zones,    \* the guesses that are zones
  hidden,   \* those of somebody else, or (at route53) of a private network
  rec,      \* rec[z][c]: how many records with the content of c zone z has
  start,    \* rec at the beginning
  guess,    \* the guess a client is at
  zid,      \* the zone a client found, 0: none
  polls,    \* how often a client asked whether its change has spread
  attempt,  \* _attempt_cleanup
  trouble,  \* clients for which the provider failed during cleanup
  raised,   \* clients whose cleanup raised
  pc

vars == <<prov, zones, hidden, rec, start, guess, zid, polls, attempt, trouble, raised, pc>>

-----------------------------------------------------------------------------
(* The providers: the credentials that have to be set, the answers to a    *)
(* wrong guess, and those after which the next guess is tried.             *)

Cloudflare == [keys |-> {"email", "api-key"}, wrong |-> {"empty"}, skips |-> {"empty"}]
Digitalocean == [keys |-> {"token"}, wrong |-> {"empty"}, skips |-> {"empty"}]
Google == [keys |-> {}, wrong |-> {"empty"}, skips |-> {"empty"}]
Rfc2136 == [keys |-> {"name", "secret", "server"}, wrong |-> {"empty"}, skips |-> {"empty"}]
Route53 == [keys |-> {}, wrong |-> {"empty"}, skips |-> {"empty"}]
\* The Lexicon clients see exceptions; _handle_general_error lets "No domain
\* found" pass, and _handle_http_error of some what stands for it there.
Cloudxns == [keys |-> {"api-key", "secret-key"}, wrong |-> {"No domain"}, skips |-> {"No domain"}]
Dnsimple == [keys |-> {"token"}, wrong |-> {"No domain"}, skips |-> {"No domain"}]
Dnsmadeeasy == [keys |-> {"api-key", "secret-key"}, wrong |-> {"404"}, skips |-> {"No domain", "404"}]
Luadns == [keys |-> {"email", "token"}, wrong |-> {"No domain"}, skips |-> {"No domain"}]
Nsone == [keys |-> {"api-key"}, wrong |-> {"404", "400"}, skips |-> {"No domain", "404", "400"}]

Lexicon == {"cloudxns", "dnsimple", "dnsmadeeasy", "luadns", "nsone"}
Providers == Lexicon \cup {"cloudflare", "digitalocean", "google", "rfc2136", "route53"}
Provider == CASE prov = "cloudflare" -> Cloudflare [] prov = "digitalocean" -> Digitalocean
              [] prov = "google" -> Google [] prov = "rfc2136" -> Rfc2136
              [] prov = "route53" -> Route53 [] prov = "cloudxns" -> Cloudxns
              [] prov = "dnsimple" -> Dnsimple [] prov = "dnsmadeeasy" -> Dnsmadeeasy
              [] prov = "luadns" -> Luadns [] OTHER -> Nsone

\* The zones that the account can change and the world can see; there may be none.
Visible == zones \ hidden

None == [c \in Clients |-> 0]

TypeOK ==
  /\ prov \in Providers /\ zones \subseteq Guesses /\ hidden \subseteq zones
  /\ rec \in [Guesses -> [Clients -> 0..2]] /\ start \in [Guesses -> [Clients -> 0..1]]
  /\ guess \in [Clients -> 1..(Cardinality(Guesses) + 1)]
  /\ zid \in [Clients -> Guesses \cup {0}] /\ polls \in [Clients -> 0..MaxWait]
  /\ attempt \subseteq Clients /\ trouble \subseteq Clients /\ raised \subseteq Clients
  /\ pc \in [Clients -> {"setup", "find", "add", "wait", "ready", "failed", "cfind", "look", "del", "done"}]

Init ==
  /\ prov = "cloudflare" /\ zones = {} /\ hidden = {}
  /\ rec = [z \in Guesses |-> None] /\ start = rec
  /\ guess = [c \in Clients |-> 1] /\ zid = None /\ polls = None
  /\ attempt = {} /\ trouble = {} /\ raised = {}
  /\ pc = [c \in Clients |-> "setup"]

\* The world the clients find: fixed before any of them works.
Untouched == attempt = {} /\ \A c \in Clients : pc[c] = "setup"
Start ==
  /\ Untouched /\ zones = {}
  /\ prov' \in Providers
  /\ zones' \in SUBSET Guesses \ {{}} /\ hidden' \in SUBSET zones'
  /\ \E left \in {0, 1} :
       rec' = [z \in Guesses |-> [c \in Clients |->
                 IF c = 1 /\ Visible' # {} /\ z = Min(Visible') THEN left ELSE 0]]
  /\ start' = rec'
  /\ UNCHANGED <<guess, zid, polls, attempt, trouble, raised, pc>>

Goto(c, l) == pc' = [pc EXCEPT ![c] = l]

-----------------------------------------------------------------------------
(* perform *)

\* The credentials file: CredentialsConfiguration.require wants every key.
SetupCredentials(c) ==
  /\ pc[c] = "setup" /\ zones # {}
  /\ \E given \in {{}, Provider.keys} :
       IF Provider.keys \subseteq given
       THEN attempt' = attempt \cup {c} /\ Goto(c, "find")
       ELSE Goto(c, "failed") /\ UNCHANGED attempt
  /\ UNCHANGED <<prov, zones, hidden, rec, start, guess, zid, polls, trouble, raised>>

\* What the provider says of a guess.
Answers(g) == {"error"} \cup (IF g \in Visible THEN {"found"} ELSE Provider.wrong)

\* One guess of the search for the zone, from the name towards the root: a is
\* the answer, l where the client goes on, e what an error does.
Find(c, a, l, e) ==
  IF a = "found"
  THEN zid' = [zid EXCEPT ![c] = guess[c]] /\ Goto(c, l) /\ UNCHANGED <<guess, trouble, raised>>
  ELSE IF a \in Provider.skips /\ guess[c] < Cardinality(Guesses)
  THEN guess' = [guess EXCEPT ![c] = @ + 1] /\ UNCHANGED <<zid, pc, trouble, raised>>
  ELSE e /\ UNCHANGED <<guess, zid>>

FindZone(c) ==
  /\ pc[c] = "find"
  /\ \E a \in Answers(guess[c]) :
       Find(c, a, "add", Goto(c, "failed") /\ UNCHANGED <<trouble, raised>>)
  /\ UNCHANGED <<prov, zones, hidden, rec, start, polls, attempt>>

\* The records r of a zone after the content of c was added.
CloudflareAdd(r, c) == [r EXCEPT ![c] = @ + 1]
DigitaloceanAdd(r, c) == [r EXCEPT ![c] = @ + 1]
LexiconAdd(r, c) == [r EXCEPT ![c] = @ + 1]
Rfc2136Add(r, c) == [r EXCEPT ![c] = 1]               \* records of a name are a set
GoogleAdd(r, c) == IF r = None THEN [r EXCEPT ![c] = 1] ELSE r     \* it is there already: an error
Route53Add(r, c) == [None EXCEPT ![c] = 1]            \* UPSERT replaces all records of the name

Add(r, c) == CASE prov = "cloudflare" -> CloudflareAdd(r, c)
               [] prov = "digitalocean" -> DigitaloceanAdd(r, c)
               [] prov = "rfc2136" -> Rfc2136Add(r, c)
               [] prov = "google" -> GoogleAdd(r, c)
               [] prov = "route53" -> Route53Add(r, c)
               [] OTHER -> LexiconAdd(r, c)

AddTxtRecord(c) ==
  /\ pc[c] = "add"
  /\ \E done, ok \in BOOLEAN :
       /\ ok => done /\ (prov = "google" => rec[zid[c]] = None)
       /\ rec' = IF done THEN [rec EXCEPT ![zid[c]] = Add(@, c)] ELSE rec
       /\ Goto(c, IF ~ ok THEN "failed" ELSE IF prov \in {"google", "route53"} THEN "wait" ELSE "ready")
  /\ UNCHANGED <<prov, zones, hidden, start, guess, zid, polls, attempt, trouble, raised>>

\* _wait_for_change gives up in the end; the loop of google does not.
WaitForChange(c) ==
  /\ pc[c] = "wait"
  /\ \/ Goto(c, "ready") /\ UNCHANGED polls
     \/ Goto(c, "failed") /\ UNCHANGED polls
     \/ /\ prov = "route53" /\ polls[c] < MaxWait
        /\ polls' = [polls EXCEPT ![c] = @ + 1]
        /\ IF polls'[c] = MaxWait THEN Goto(c, "failed") ELSE UNCHANGED pc
     \/ prov = "google" /\ UNCHANGED <<polls, pc>>
  /\ UNCHANGED <<prov, zones, hidden, rec, start, guess, zid, attempt, trouble, raised>>

-----------------------------------------------------------------------------
(* cleanup: called when the CA has decided, or when perform raised. *)

CleanupOfReady(c) ==      \* mutant: what perform raised for is not cleaned up
  /\ pc[c] \in {"ready", "failed"}
  /\ Goto(c, IF pc[c] = "ready" THEN "cfind" ELSE "done")
  /\ guess' = [guess EXCEPT ![c] = 1] /\ zid' = [zid EXCEPT ![c] = 0]
  /\ UNCHANGED <<prov, zones, hidden, rec, start, polls, attempt, trouble, raised>>

Cleanup(c) ==
  /\ pc[c] \in {"ready", "failed"}
  /\ Goto(c, IF c \in attempt THEN "cfind" ELSE "done")
  /\ guess' = [guess EXCEPT ![c] = 1] /\ zid' = [zid EXCEPT ![c] = 0]
  /\ UNCHANGED <<prov, zones, hidden, rec, start, polls, attempt, trouble, raised>>

\* The error of a search ends the cleanup.  Where it comes out: rfc2136 catches
\* none; digitalocean and route53 catch those of the interface, but not the
\* PluginError that there is no zone for the name.
CleanupRaises(a) == \/ prov = "rfc2136"
                    \/ prov \in {"digitalocean", "route53"} /\ a # "error"

FindAgain(c) ==
  /\ pc[c] = "cfind"
  /\ \E a \in Answers(guess[c]) :
       Find(c, a, IF prov \in {"cloudflare", "digitalocean"} THEN "look" ELSE "del",
            /\ Goto(c, "done") /\ trouble' = trouble \cup {c}
            /\ raised' = raised \cup {x \in {c} : CleanupRaises(a)})
  /\ UNCHANGED <<prov, zones, hidden, rec, start, polls, attempt>>

\* _find_txt_record_id, domain.get_records: by name and content.
LookUp(c) ==
  /\ pc[c] = "look"
  /\ \/ Goto(c, IF rec[zid[c]][c] > 0 THEN "del" ELSE "done") /\ UNCHANGED trouble
     \/ Goto(c, "done") /\ trouble' = trouble \cup {c}
  /\ UNCHANGED <<prov, zones, hidden, rec, start, guess, zid, polls, attempt, raised>>

\* The records r of a zone after the deletion.
CloudflareDelete(r, c) == [r EXCEPT ![c] = IF @ > 0 THEN @ - 1 ELSE 0]    \* one id
DigitaloceanDelete(r, c) == [r EXCEPT ![c] = 0]                          \* all that match
LexiconDelete(r, c) == [r EXCEPT ![c] = 0]
Rfc2136Delete(r, c) == [r EXCEPT ![c] = 0]
\* The whole set of records has to be as given, or the change is refused.
GoogleDelete(r, c) == IF r = [None EXCEPT ![c] = 1] THEN None ELSE r
Route53Delete(r, c) == IF r = [None EXCEPT ![c] = 1] THEN None ELSE r

DeleteByName(r, c) == None                  \* mutant: the content is not looked at

Delete(r, c) == CASE prov = "cloudflare" -> CloudflareDelete(r, c)
                  [] prov = "digitalocean" -> DigitaloceanDelete(r, c)
                  [] prov = "rfc2136" -> Rfc2136Delete(r, c)
                  [] prov = "google" -> GoogleDelete(r, c)
                  [] prov = "route53" -> Route53Delete(r, c)
                  [] OTHER -> LexiconDelete(r, c)

DelTxtRecord(c) ==
  /\ pc[c] = "del" /\ Goto(c, "done")
  /\ \E ok \in BOOLEAN :
       /\ rec' \in {IF ok THEN [rec EXCEPT ![zid[c]] = Delete(@, c)] ELSE rec}
       /\ trouble' = IF ok THEN trouble ELSE trouble \cup {c}
       /\ raised' = IF ~ ok /\ prov = "rfc2136" THEN raised \cup {c} ELSE raised
  /\ UNCHANGED <<prov, zones, hidden, start, guess, zid, polls, attempt>>

Step(c) == \/ SetupCredentials(c) \/ FindZone(c) \/ AddTxtRecord(c) \/ WaitForChange(c)
           \/ Cleanup(c) \/ FindAgain(c) \/ LookUp(c) \/ DelTxtRecord(c)

Over == (\A c \in Clients : pc[c] = "done") /\ UNCHANGED vars
Next == Start \/ (\E c \in Clients : Step(c)) \/ Over

-----------------------------------------------------------------------------
(* While the CA is looking, the record of a client is there, whatever other *)
(* clients of the name do: they neither replace nor delete it.  (route53    *)
(* is excepted: its UPSERT replaces the records of all clients.)            *)
RecordStays ==
  \A c \in Clients : pc[c] = "ready" /\ prov # "route53" => rec[zid[c]][c] > 0

(* When everybody is done, a zone has no record that it had not before,     *)
(* unless the provider failed during the cleanup that owns the record.      *)
Restored ==
  (\A c \in Clients : pc[c] = "done") =>
     \A z \in Guesses, c \in Clients : rec[z][c] <= start[z][c] \/ c \in trouble

(* The record goes to the most specific zone of the account: a parent that  *)
(* delegates the name would not be asked for it.                            *)
ClosestZone == \A c \in Clients : zid[c] # 0 => zid[c] = Min(Visible)

(* "Failures are logged, but not raised": the del_txt_record of cloudflare  *)
(* and of digitalocean.  Violated by digitalocean, where an account without *)
(* a zone for the name ends the cleanup of the batch; no run checks it.     *)
Quiet == prov \in {"cloudflare", "digitalocean"} => raised = {}

(* Every client is done in the end, if changes of google do not stay        *)
(* pending for ever.                                                        *)
EveryoneEnds == <>(\A c \in Clients : pc[c] = "done")
=============================================================================
