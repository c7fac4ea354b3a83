--------------------------- MODULE Authorization ---------------------------
(***************************************************************************)
(* Obtaining a certificate: AuthHandler asks the CA for one authorization  *)
(* per domain, chooses challenges, lets an authenticator plugin expose the *)
(* answers to the world, tells the CA to look, polls a bounded number of   *)
(* rounds, takes everything down again; Client then asks for a certificate *)
(* for the domains that were authorized.                                   *)
(*                                                                         *)
(* The CA runs beside the client: it decides a challenge at any time after *)
(* it was answered, and can only find valid what is exposed when it looks. *)
(* Network requests, plugins and their cleanup may fail at any call.       *)
(***************************************************************************)
EXTENDS Naturals, Sequences, SequencesExt, FiniteSets

CONSTANTS NDomains,   \* domains of the certificate, 1 .. NDomains
          MaxRounds,  \* polling rounds (15 in the code)
          Outsiders   \* may another client of the account spoil an authorization?

Domain == 1..NDomains
Type == {"http", "sni", "dns"}
Chall == Domain \X Type          \* at most one challenge of a type per domain

\* What the plugins can do, in their order of preference.
Pref == [standalone |-> <<"sni", "http">>, webroot |-> <<"http">>,
         manual |-> <<"http", "dns", "sni">>, dns |-> <<"dns">>,
         nginx |-> <<"sni", "http">>, other |-> <<"http">>]

\* What the CA may offer for a domain: types, and which of them together
\* suffice (positions; none at all: every challenge has to be solved).
Offers == {[types |-> <<"http", "dns", "sni">>, combos |-> <<<<1>>, <<2>>, <<3>>>>],
           [types |-> <<"sni", "http">>, combos |-> <<<<1, 2>>>>],
           [types |-> <<"http">>, combos |-> <<>>]}

VARIABLES
  opts,      \* plugin, best_effort, preferred challenges
  offer,     \* [Domain -> Offers]
  status,    \* the CA's view of each authorization
  verdict,   \* the CA's view of each challenge
  answered,  \* challenges the CA was told to look at
  authzr,    \* AuthHandler.authzr: the status last seen for each domain
  chosen,    \* how many domains _choose_challenges is through with
  achalls,   \* AuthHandler.achalls
  resp,      \* the positions in achalls for which the plugin has a response
  sent,      \* how many entries of achalls _send_responses is through with
  update,    \* chall_update: per domain, the answered challenges still open
  toCheck, left, comp, failed, rounds,   \* of _poll_challenges
  exposed,   \* challenges whose answer the world can see
  owned,     \* what the plugin has on record (served, full_roots, env)
  trouble,   \* failures of the surroundings that excuse something left exposed
  names,     \* the domains of the certificate request
  tries,     \* fetches of the chain that failed
  why,       \* the exception under way, "" if none
  pc

handler == <<authzr, chosen, achalls, resp, sent, update, toCheck, left, comp, failed, rounds>>
caVars == <<status, verdict, answered>>
world == <<exposed, owned, trouble>>
issue == <<names, tries>>
vars == <<opts, offer, handler, caVars, world, issue, why, pc>>

Undecided == [c \in Chall |-> "pending"]
Decision == {"pending", "valid", "invalid"}

TypeOK ==
  /\ opts \in [plugin : DOMAIN Pref, best : BOOLEAN, pref : {<<>>, <<"sni">>, <<"dns", "http">>}]
  /\ offer \in [Domain -> Offers]
  /\ status \in [Domain -> Decision] /\ verdict \in [Chall -> Decision]
  /\ authzr \in [Domain -> Decision \cup {"none"}]
  /\ chosen \in 0..NDomains /\ ToSet(achalls) \subseteq Chall /\ IsInjective(achalls)
  /\ resp \subseteq 1..Cardinality(Chall) /\ sent \in 0..Cardinality(Chall)
  /\ update \in [Domain -> SUBSET Chall]
  /\ comp \subseteq Domain /\ left \subseteq toCheck /\ toCheck \subseteq Domain
  /\ failed \subseteq answered /\ answered \subseteq Chall
  /\ rounds \in 0..MaxRounds /\ tries \in 0..2
  /\ exposed \subseteq Chall /\ owned \subseteq Chall
  /\ trouble \subseteq {"send", "cleanup"} /\ names \subseteq Domain

Init ==
  /\ opts = [plugin |-> "webroot", best |-> FALSE, pref |-> <<>>]
  /\ offer = [d \in Domain |-> CHOOSE o \in Offers : o.combos = <<>>]
  /\ status = [d \in Domain |-> "pending"] /\ verdict = Undecided /\ answered = {}
  /\ authzr = [d \in Domain |-> "none"] /\ chosen = 0 /\ achalls = <<>> /\ resp = {} /\ sent = 0
  /\ update = [d \in Domain |-> {}]
  /\ toCheck = {} /\ left = {} /\ comp = {} /\ failed = {} /\ rounds = 0
  /\ exposed = {} /\ owned = {} /\ trouble = {} /\ names = {} /\ tries = 0
  /\ why = "" /\ pc = "start"

\* An exception reaches the caller of the whole procedure.
Fail(w) == why' = w /\ pc' = "done"

\* The command line; some authorizations may be left from an earlier run.
Start ==
  /\ pc = "start" /\ pc' = "request"
  /\ opts' \in [plugin : DOMAIN Pref, best : BOOLEAN,
                pref : {<<>>, <<"sni">>, <<"dns", "http">>}]
  /\ offer' \in [Domain -> Offers]
  /\ opts'.plugin = "manual" => \A d \in Domain : offer'[d].combos # <<<<1, 2>>>>
  /\ \E old \in {{}, {1}} : status' = [d \in Domain |-> IF d \in old THEN "valid" ELSE "pending"]
  /\ UNCHANGED <<handler, verdict, answered, world, issue, why>>

-----------------------------------------------------------------------------
(* Choosing challenges. *)

\* The user's preferences, if any, else the plugin's; only those of the plugin count.
Order == IF opts.pref = <<>> THEN Pref[opts.plugin] ELSE opts.pref
Usable == ToSet(Order) \cap ToSet(Pref[opts.plugin])
Index(t) == CHOOSE i \in DOMAIN Order : Order[i] = t

NoPath == <<0>>

\* The cost of a type is its place among the usable ones; combinations are of one
\* or two challenges.
MaxCost(n) == 1 + (n * (n - 1)) \div 2
Cost(t) == IF t \in Usable THEN Cardinality({u \in Usable : Index(u) < Index(t)})
           ELSE MaxCost(Cardinality(Usable))
Total(types, combo) ==
  Cost(types[combo[1]]) + (IF Len(combo) = 1 THEN 0 ELSE Cost(types[combo[2]]))
FindSmartPath(types, combos) ==
  LET total == [k \in DOMAIN combos |-> Total(types, combos[k])]
      best == {k \in DOMAIN combos : /\ total[k] < MaxCost(Cardinality(Usable))
                                     /\ \A l \in DOMAIN combos : total[k] <= total[l]}
  IN  IF best = {} THEN NoPath ELSE combos[CHOOSE k \in best : \A l \in best : k <= l]

FindDumbPath(types) ==
  IF ToSet(types) \subseteq Usable THEN [i \in DOMAIN types |-> i] ELSE NoPath

GenChallengePath(d) ==
  IF offer[d].combos # <<>> THEN FindSmartPath(offer[d].types, offer[d].combos)
  ELSE FindDumbPath(offer[d].types)

\* The challenges of a path, annotated with their domain.
ChallengeFactory(d, path) == [i \in DOMAIN path |-> <<d, offer[d].types[path[i]]>>]

\* new-authz for every domain: the answer must be for the domain asked for.
RequestChallenges ==
  /\ pc = "request"
  /\ \/ authzr' = status /\ pc' = "choose" /\ UNCHANGED why
     \/ UNCHANGED authzr /\ Fail("request failed")
  /\ UNCHANGED <<opts, offer, chosen, achalls, resp, sent, update, toCheck, left, comp, failed,
                 rounds, caVars, world, issue>>

\* One domain after the other, until one cannot be solved.
ChooseChallenges ==
  /\ pc = "choose"
  /\ \/ /\ chosen = NDomains /\ pc' = "more"
        /\ UNCHANGED <<chosen, achalls, why>>
     \/ /\ chosen < NDomains /\ chosen' = chosen + 1
        /\ LET path == GenChallengePath(chosen')
           IN IF Usable = {} \/ path = NoPath
              THEN Fail("no path") /\ UNCHANGED achalls
              ELSE achalls' = achalls \o ChallengeFactory(chosen', path) /\ UNCHANGED <<why, pc>>
  /\ UNCHANGED <<opts, offer, authzr, resp, sent, update, toCheck, left, comp, failed, rounds,
                 caVars, world, issue>>

-----------------------------------------------------------------------------
(* The authenticators: what perform(achalls) can leave behind, and what    *)
(* cleanup(batch) can.  A result has exposed, owned and ok (no exception). *)

First(k) == {achalls[i] : i \in 1..k}
All == ToSet(achalls)
Result(e, o, ok) == [exposed |-> e, owned |-> o, ok |-> ok]
Done(n) == n = Len(achalls)

\* A listener is opened (or shared) for each challenge; a port may be taken.
StandalonePerform == {Result(First(k), First(k), Done(k)) : k \in 0..Len(achalls)}

\* All the directories come first, then the files, one by one.
WebrootPerform == {Result({}, {}, FALSE)}
                    \cup {Result(First(k), All, Done(k)) : k \in 0..Len(achalls)}

\* The hook runs once per challenge; its environment is kept by domain.
ManualPerform == {Result(First(k), First(k), Done(k)) : k \in 0..Len(achalls)}

\* Records are added one by one; credentials may be missing altogether.
DnsPerform == {Result({}, {}, FALSE)}
                \cup {Result(First(k), All, Done(k)) : k \in 0..Len(achalls)}

\* The files of all challenges are saved under one temporary checkpoint, and
\* the server is restarted last.
NginxPerform == {Result({}, All, FALSE), Result(All, All, FALSE), Result(All, All, TRUE)}

\* A third-party plugin that keeps to IAuthenticator.
OtherPerform == {Result(First(k), All, Done(k)) : k \in 0..Len(achalls)}

PerformResults ==
  CASE opts.plugin = "standalone" -> StandalonePerform
    [] opts.plugin = "webroot" -> WebrootPerform
    [] opts.plugin = "manual" -> ManualPerform
    [] opts.plugin = "dns" -> DnsPerform
    [] opts.plugin = "nginx" -> NginxPerform
    [] opts.plugin = "other" -> OtherPerform

\* The loop of a cleanup ends at the first entry of batch that is bad.
UpTo(batch, bad) ==
  {Result(exposed \ {batch[i] : i \in {j \in DOMAIN batch : \A l \in 1..j : ~ bad[l]}}, owned,
          \A i \in DOMAIN batch : ~ bad[i])}

\* Challenges are taken off every listener; an idle listener is closed.
StandaloneCleanup(batch) == {Result(exposed \ ToSet(batch), owned \ ToSet(batch), TRUE)}

\* os.remove of a file that is not there raises.
WebrootCleanup(batch) ==
  IF owned = {} THEN {Result(exposed, owned, TRUE)}
  ELSE UpTo(batch, [i \in DOMAIN batch |-> batch[i] \notin exposed])

\* The environment of a domain is popped: missing, or popped before, raises.
ManualCleanup(batch) ==
  UpTo(batch, [i \in DOMAIN batch |-> \/ \A c \in owned : c[1] # batch[i][1]
                                      \/ \E j \in 1..(i - 1) : batch[j][1] = batch[i][1]])

\* A provider that cannot be reached leaves its record; some raise then.
DnsCleanup(batch) ==
  IF owned = {} THEN {Result(exposed, owned, TRUE)}
  ELSE {Result(exposed \ gone, owned, ok) : gone \in SUBSET ToSet(batch), ok \in BOOLEAN}

\* The temporary checkpoint is reverted, then the server restarted.
NginxCleanup(batch) == {Result({}, {}, TRUE), Result({}, {}, FALSE), Result(exposed, owned, FALSE)}

OtherCleanup(batch) == {Result(exposed \ ToSet(batch), owned \ ToSet(batch), TRUE)}

CleanupResults(batch) ==
  CASE opts.plugin = "standalone" -> StandaloneCleanup(batch)
    [] opts.plugin = "webroot" -> WebrootCleanup(batch)
    [] opts.plugin = "manual" -> ManualCleanup(batch)
    [] opts.plugin = "dns" -> DnsCleanup(batch)
    [] opts.plugin = "nginx" -> NginxCleanup(batch)
    [] opts.plugin = "other" -> OtherCleanup(batch)

\* Only what the surroundings do to a cleanup excuses what it leaves.
Excuse(r) == IF opts.plugin \in {"dns", "nginx"} /\ r.exposed # {}
             THEN {"cleanup"} ELSE {}

-----------------------------------------------------------------------------
(* Performing, answering, polling, cleaning up. *)

\* The loop of get_authorizations: anything left to solve?
More == /\ pc = "more"
        /\ pc' = IF achalls = <<>> THEN "verify" ELSE "solve"
        /\ UNCHANGED <<opts, offer, handler, caVars, world, issue, why>>

\* self.achalls.remove(achall) for each of the batch, which is a copy of
\* self.achalls or (aliased) that list itself: the loop then skips every other entry.
RemovedNone(aliased) == achalls            \* mutant: a copy is emptied
Removed(aliased) ==
  IF aliased THEN [i \in 1..(Len(achalls) \div 2) |-> achalls[2 * i]] ELSE <<>>

\* _cleanup_challenges after the plugin performed r.
CleanupChallenges(aliased, r) ==
  /\ exposed' = r.exposed /\ owned' = r.owned
  /\ trouble' = trouble \cup Excuse(r)
  /\ achalls' = IF r.ok THEN Removed(aliased) ELSE achalls

\* The plugin performs; what it leaves behind when it raises is cleaned up by
\* the error handler, which swallows what the cleanup raises.
SolveChallengesBare ==      \* mutant: without the error handler
  /\ pc = "solve"
  /\ \E r \in PerformResults :
       /\ exposed' = r.exposed /\ owned' = r.owned
       /\ IF r.ok THEN pc' = "send" /\ resp' = DOMAIN achalls /\ UNCHANGED why
          ELSE Fail("perform failed") /\ UNCHANGED resp
  /\ sent' = 0 /\ update' = [d \in Domain |-> {}]
  /\ UNCHANGED <<opts, offer, authzr, chosen, achalls, toCheck, left, comp, failed, rounds, caVars,
                 trouble, issue>>

SolveChallenges ==
  /\ pc = "solve"
  /\ \E r \in PerformResults :
       /\ exposed' = r.exposed /\ owned' = r.owned
       /\ IF r.ok THEN /\ resp' \in {DOMAIN achalls} \cup
                                      (IF opts.plugin = "other" THEN SUBSET DOMAIN achalls ELSE {})
                       /\ pc' = "send" /\ UNCHANGED why
          ELSE pc' = "undo" /\ why' = "perform failed" /\ UNCHANGED resp
  /\ sent' = 0 /\ update' = [d \in Domain |-> {}]
  /\ UNCHANGED <<opts, offer, authzr, chosen, achalls, toCheck, left, comp, failed, rounds, caVars,
                 trouble, issue>>

UndoPerform ==
  /\ pc = "undo" /\ pc' = "done"
  /\ \E r \in CleanupResults(achalls) : CleanupChallenges(TRUE, r)
  /\ UNCHANGED <<opts, offer, authzr, chosen, resp, sent, update, toCheck, left, comp, failed, rounds,
                 caVars, issue, why>>

\* _send_responses, outside of any handler: the challenges stay exposed when
\* the CA does not take an answer.
SendResponse ==
  /\ pc = "send" /\ sent < Len(achalls)
  /\ LET c == achalls[sent + 1] IN
     \/ /\ sent' = sent + 1
        /\ IF sent + 1 \in resp
           THEN /\ answered' = answered \cup {c}
                /\ update' = [update EXCEPT ![c[1]] = @ \cup {c}]
           ELSE UNCHANGED <<answered, update>>
        /\ UNCHANGED <<trouble, why, pc>>
     \/ /\ sent + 1 \in resp
        /\ Fail("answer failed") /\ trouble' = trouble \cup {"send"}
        /\ UNCHANGED <<sent, answered, update>>
  /\ UNCHANGED <<opts, offer, authzr, chosen, achalls, resp, toCheck, left, comp, failed, rounds,
                 status, verdict, exposed, owned, issue>>

StartPolling ==
  /\ pc = "send" /\ sent = Len(achalls)
  /\ toCheck' = {d \in Domain : update[d] # {}} /\ left' = toCheck'
  /\ comp' = {} /\ failed' = {} /\ rounds' = 0
  /\ pc' = IF toCheck' = {} THEN "cleanup" ELSE "poll"
  /\ UNCHANGED <<opts, offer, authzr, chosen, achalls, resp, sent, update, caVars, world, issue, why>>

\* _handle_check: a valid authorization completes all challenges of d.
Completed(d) == IF status[d] = "valid" THEN update[d]
                ELSE {c \in update[d] : verdict[c] = "valid"}
Spoiled(d) == IF status[d] = "valid" THEN {} ELSE {c \in update[d] : verdict[c] = "invalid"}

PollDomainEager(d) ==      \* mutant: what has not failed is taken for done
  /\ pc = "poll" /\ d \in left
  /\ authzr' = [authzr EXCEPT ![d] = status[d]] /\ left' = left \ {d}
  /\ IF Spoiled(d) = {} \/ opts.best THEN comp' = comp \cup {d} /\ UNCHANGED failed
     ELSE failed' = failed \cup Spoiled(d) /\ UNCHANGED comp
  /\ UNCHANGED <<opts, offer, chosen, achalls, resp, sent, update, toCheck, rounds, caVars, world, issue,
                 why, pc>>

\* One domain of a polling round, in the order of a set.
PollDomain(d) ==
  /\ pc = "poll" /\ d \in left
  /\ authzr' = [authzr EXCEPT ![d] = status[d]]
  /\ left' = left \ {d}
  /\ IF Completed(d) = update[d] THEN comp' = comp \cup {d} /\ UNCHANGED <<update, failed>>
     ELSE IF Spoiled(d) = {}
     THEN update' = [update EXCEPT ![d] = @ \ Completed(d)] /\ UNCHANGED <<comp, failed>>
     ELSE IF opts.best THEN comp' = comp \cup {d} /\ UNCHANGED <<update, failed>>
     ELSE failed' = failed \cup Spoiled(d) /\ UNCHANGED <<update, comp>>
  /\ UNCHANGED <<opts, offer, chosen, achalls, resp, sent, toCheck, rounds, caVars, world, issue, why, pc>>

\* The CA cannot be reached, or answers for something else.
PollFails ==
  /\ pc = "poll" /\ left # {}
  /\ why' = "poll failed" /\ pc' = "cleanup"
  /\ UNCHANGED <<opts, offer, handler, caVars, world, issue>>

EndRoundDeaf ==            \* mutant: failures are reported but not raised
  /\ pc = "poll" /\ left = {}
  /\ toCheck' = toCheck \ comp /\ comp' = {} /\ rounds' = rounds + 1
  /\ left' = toCheck' /\ pc' = IF toCheck' = {} \/ rounds' = MaxRounds THEN "cleanup" ELSE pc
  /\ UNCHANGED <<opts, offer, authzr, chosen, achalls, resp, sent, update, failed, caVars, world, issue, why>>

EndRound ==
  /\ pc = "poll" /\ left = {}
  /\ IF failed # {} THEN /\ why' = "challenge failed" /\ pc' = "cleanup"
                         /\ UNCHANGED <<toCheck, left, comp, rounds>>
     ELSE /\ toCheck' = toCheck \ comp /\ comp' = {} /\ rounds' = rounds + 1
          /\ IF toCheck' = {} \/ rounds' = MaxRounds
             THEN pc' = "cleanup" /\ UNCHANGED left
             ELSE left' = toCheck' /\ UNCHANGED pc
          /\ UNCHANGED why
  /\ UNCHANGED <<opts, offer, authzr, chosen, achalls, resp, sent, update, failed, caVars, world, issue>>

\* The finally clause of _respond, over active_achalls: all that were performed.
CleanUp ==
  /\ pc = "cleanup"
  /\ \E r \in IF achalls = <<>> THEN {Result(exposed, owned, TRUE)} ELSE CleanupResults(achalls) :
       /\ CleanupChallenges(FALSE, r)
       /\ why' = IF r.ok THEN why ELSE "cleanup failed"
       /\ pc' = IF why' = "" THEN "more" ELSE "done"
  /\ UNCHANGED <<opts, offer, authzr, chosen, resp, sent, update, toCheck, left, comp, failed, rounds,
                 caVars, issue>>

\* verify_authzr_complete and the list that get_authorizations returns; the
\* client keeps the domains of it, in their order.

VerifyComplete ==
  /\ pc = "verify"
  /\ IF \E d \in Domain : authzr[d] \notin {"valid", "invalid"}
     THEN Fail("incomplete") /\ UNCHANGED names
     ELSE /\ names' = {d \in Domain : authzr[d] = "valid"}
          /\ IF names' = {} THEN Fail("all failed") ELSE pc' = "issue" /\ UNCHANGED why
  /\ UNCHANGED <<opts, offer, handler, caVars, world, tries>>

-----------------------------------------------------------------------------
(* The certificate. *)

\* The CA issues for authorized names only.
RequestIssuance ==
  /\ pc = "issue"
  /\ \/ names \subseteq {d \in Domain : status[d] = "valid"} /\ pc' = "chain" /\ UNCHANGED why
     \/ Fail("issuance failed")
  /\ UNCHANGED <<opts, offer, handler, caVars, world, issue>>

\* A second fetch, after the user was told; then the certificate is given up.
FetchChain ==
  /\ pc = "chain"
  /\ \/ pc' = "enroll" /\ UNCHANGED <<tries, why>>
     \/ /\ tries' = tries + 1
        /\ IF tries' > 1 THEN Fail("no chain") ELSE UNCHANGED <<why, pc>>
  /\ UNCHANGED <<opts, offer, handler, caVars, world, names>>

\* With --dry-run nothing is stored.
Enroll == /\ pc = "enroll"
          /\ Fail("enrolled") \/ Fail("dry run")
          /\ UNCHANGED <<opts, offer, handler, caVars, world, issue>>

Client == \/ RequestChallenges \/ ChooseChallenges \/ More \/ SolveChallenges \/ UndoPerform
          \/ SendResponse \/ StartPolling \/ (\E d \in Domain : PollDomain(d)) \/ PollFails
          \/ EndRound \/ CleanUp \/ VerifyComplete \/ RequestIssuance \/ FetchChain \/ Enroll

-----------------------------------------------------------------------------
(* The CA. *)

Suffices(d, won) ==
  IF offer[d].combos = <<>> THEN \A t \in ToSet(offer[d].types) : <<d, t>> \in won
  ELSE \E k \in DOMAIN offer[d].combos :
         \A i \in ToSet(offer[d].combos[k]) : <<d, offer[d].types[i]>> \in won

Validate(c) ==
  /\ c \in answered /\ verdict[c] = "pending" /\ status[c[1]] = "pending"
  /\ verdict' \in {[verdict EXCEPT ![c] = v] : v \in {"invalid"} \cup
                     (IF c \in exposed THEN {"valid"} ELSE {})}
  /\ status' = [status EXCEPT ![c[1]] =
                  IF verdict'[c] = "invalid" THEN "invalid"
                  ELSE IF Suffices(c[1], {e \in Chall : verdict'[e] = "valid"}) THEN "valid" ELSE @]
  /\ UNCHANGED <<opts, offer, handler, answered, world, issue, why, pc>>

\* The pending authorization is shared with another client, whose attempt at
\* another challenge of it fails.
Outsider(d) ==
  /\ Outsiders /\ status[d] = "pending" /\ pc = "poll"
  /\ status' = [status EXCEPT ![d] = "invalid"]
  /\ UNCHANGED <<opts, offer, handler, verdict, answered, world, issue, why, pc>>

Over == pc = "done" /\ UNCHANGED vars

Next == \/ Start \/ Client \/ Over
        \/ \E c \in Chall : Validate(c)
        \/ \E d \in Domain : Outsider(d)

\* The client is one thread that never waits for ever: requests time out.
Spec == Init /\ [][Next]_vars /\ WF_vars(Start \/ Client)

-----------------------------------------------------------------------------
(* Whatever happened on the way, nothing stays exposed when the procedure   *)
(* is over, unless the CA did not take an answer (nothing is cleaned up     *)
(* then, see _respond) or a server or DNS provider failed during cleanup.   *)
NothingLeftBehind == pc = "done" => exposed = {} \/ trouble # {}

(* A certificate is asked for, and got, only for domains that the CA holds  *)
(* valid authorizations for.                                                *)
CertIsAuthorized ==
  pc \in {"issue", "chain", "enroll"} => names # {} /\ \A d \in names : status[d] = "valid"

(* Without --allow-subset-of-names it is all the domains or no certificate. *)
AllOrNothing == why = "enrolled" /\ ~ opts.best => names = Domain

(* The path chosen for a domain can be solved by the plugin, respects what  *)
(* the user prefers, and suffices for the CA.                               *)
PathSuffices ==
  pc = "solve" => \A d \in Domain :
    LET mine == {c \in ToSet(achalls) : c[1] = d}
    IN  Suffices(d, mine) /\ \A c \in mine : c[2] \in Usable

(* A challenge that the CA was told to look at is not taken down before its *)
(* authorization was seen decided, unless the rounds are used up or the     *)
(* whole procedure fails.                                                   *)
KeptStep ==
  \A c \in answered : c \in exposed /\ c \notin exposed' =>
    \/ authzr[c[1]] # "pending" \/ rounds = MaxRounds \/ why' # "" \/ verdict[c] # "pending"
KeptUntilDecided == [][KeptStep]_vars

(* However the CA and the plugin behave, the procedure comes to an end. *)
Ends == <>(pc = "done")
=============================================================================
