----------------------------- MODULE MCIssuance -----------------------------
(***************************************************************************)
(* Model checking of what a certificate takes: the authorization of its    *)
(* domains, the records of dns-01 challenges, the requests to the CA       *)
(* (AcmeNetwork).  The three specifications share no state; `part` picks   *)
(* the one that runs, so that one run explores each of them by itself.     *)
(***************************************************************************)
EXTENDS AcmeNetwork

CONSTANTS NDomains, MaxRounds, Outsiders,                 \* Authorization
          Clients, Guesses, MaxWait                       \* DnsRecords

VARIABLES part,
  opts, offer, status, verdict, answered, authzr, chosen, achalls, resp, asent, update, toCheck, left,
  comp, failed, rounds, exposed, owned, trouble, names, tries, why, apc,
  prov, zones, hidden, rec, start, guess, zid, polls, attempt, dtrouble, raised, dpc

A == INSTANCE Authorization WITH sent <- asent, pc <- apc
D == INSTANCE DnsRecords WITH trouble <- dtrouble, pc <- dpc

ASSUME AuthorizationAssumption == NDomains \in Nat
ASSUME NetworkAssumption == RetryBelowDay /\ Trips \subseteq Nat
ASSUME DnsAssumption == Guesses \subseteq Nat \ {0}

aVars == <<opts, offer, status, verdict, answered, authzr, chosen, achalls, resp, asent, update, toCheck,
           left, comp, failed, rounds, exposed, owned, trouble, names, tries, why, apc>>
dVars == <<prov, zones, hidden, rec, start, guess, zid, polls, attempt, dtrouble, raised, dpc>>
mcVars == <<part, aVars, dVars, vars>>

MCInit == part \in {"authorization", "dns", "network"} /\ A!Init /\ D!Init /\ Init

ANext == part = "authorization" /\ A!Next /\ UNCHANGED <<part, dVars, vars>>
DNext == part = "dns" /\ D!Next /\ UNCHANGED <<part, aVars, vars>>
NNext == part = "network" /\ Next /\ UNCHANGED <<part, aVars, dVars>>
MCNext == ANext \/ DNext \/ NNext

\* The client of each part goes on as long as it can; the CA, the provider and
\* the server owe nothing but the answers within the client's steps.
Fairness ==
  /\ WF_mcVars(part = "authorization" /\ (A!Start \/ A!Client) /\ UNCHANGED <<part, dVars, vars>>)
  /\ WF_mcVars(DNext)
  /\ WF_mcVars(part = "network" /\ Client /\ UNCHANGED <<part, aVars, dVars>>)

MCSpec == MCInit /\ [][MCNext]_mcVars /\ Fairness

\* The types of the three parts.
TypesOK == A!TypeOK /\ D!TypeOK /\ TypeOK

\* What is issued: a certificate for domains that the CA holds valid
\* authorizations for, for all of them unless a subset was allowed, each won by
\* challenges that suffice and that the user prefers.
IssuedAsAsked == A!CertIsAuthorized /\ A!AllOrNothing /\ A!PathSuffices

\* Whatever fails on the way, no challenge stays exposed at the end; none is
\* taken down before its authorization was seen decided (Authorization).
NothingLeftBehind == A!NothingLeftBehind
KeptUntilDecided == [][A!KeptStep]_mcVars

\* A client's record stays until it removes it itself, whoever else works for
\* the name (DnsRecords).
RecordStays == D!RecordStays

\* After the clean-up the zone, which is the closest one of the account, is as it
\* was, whether or not errors came out of the clean-up.
Restored == D!Restored /\ D!ClosestZone

\* "Failures are logged, but not raised" (DnsRecords): violated at digitalocean.
Quiet == D!Quiet

\* (OnceAndWhole and RespectsRetryAfter are those of AcmeNetwork.)

\* Each part comes to an end: the authorization, every client of the DNS
\* provider, the session with the CA.
Ends == /\ part = "authorization" => A!Ends
        /\ part = "dns" => D!EveryoneEnds
        /\ part = "network" => SessionEnds
=============================================================================
