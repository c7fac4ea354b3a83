---------------------------- MODULE AcmeNetwork ----------------------------
(***************************************************************************)
(* The ACME client library: requests are signed with a nonce that the      *)
(* server handed out, every response brings the next one, and a request    *)
(* that is refused for its nonce is sent again, once.  A client registers, *)
(* agrees to the terms, asks for an authorization, answers a challenge,    *)
(* polls its authorizations, each not before the time the server named,    *)
(* asks for the certificate and follows the links of its chain.            *)
(*                                                                         *)
(* Requests and responses may be lost; the server may forget nonces, and   *)
(* leave headers out.                                                      *)
(***************************************************************************)
EXTENDS Integers, Sequences, FiniteSets, FiniteSetsExt

CONSTANTS Authzrs,      \* authorizations polled, 1 .. n
          MaxAttempts,  \* max_attempts of poll_and_request_issuance
          MinTime,      \* mintime: the default of Retry-After
          Delays,       \* what Retry-After may say, in seconds
          Trips,        \* how long a request and its response may take, in microseconds
          UtcOffset,    \* seconds that the machine's local time is ahead of GMT
          Day,          \* seconds of a day: (when - now).seconds drops the days
          MaxLength     \* max_length of fetch_chain

VARIABLES
  pool,      \* ClientNetwork._nonces
  sent,      \* the nonces requests were signed with, in order
  live,      \* the nonces the server accepts
  made,      \* how many nonces the server has handed out
  job,       \* the request under way, an index of Jobs
  retried,   \* it is sent for the second time
  done,      \* how often the server carried out each request
  now, wake, \* local time; when each authorization is to be polled again
  named,     \* when the server allowed it
  asked,     \* when the last poll was sent
  heap,      \* the authorizations in `waiting`
  attempts, exhausted, updated,
  chain,     \* how many certificates of the chain were fetched
  more,      \* the last one names another issuer
  pc

net == <<pool, sent, live, made>>
poll == <<now, wake, named, asked, heap, attempts, exhausted, updated>>
links == <<chain, more>>
vars == <<net, job, retried, done, poll, links, pc>>

Jobs == <<"new-reg", "agree", "new-authz", "challenge", "new-cert">>
LastPosted == 4           \* polling comes before the last request
Decided == {"valid", "invalid"}
MaxNonces == 3 * Len(Jobs)

TypeOK ==
  /\ pool \subseteq 1..MaxNonces /\ live \subseteq 1..MaxNonces /\ made \in 0..MaxNonces
  /\ Len(sent) <= 2 * Len(Jobs) /\ job \in DOMAIN Jobs /\ retried \in BOOLEAN
  /\ done \in [DOMAIN Jobs -> 0..2]
  /\ heap \subseteq Authzrs /\ exhausted \subseteq Authzrs \ heap
  /\ attempts \in [Authzrs -> 0..MaxAttempts]
  /\ updated \in [Authzrs -> Decided \cup {"pending"}]
  /\ chain \in 0..MaxLength /\ more \in BOOLEAN
  /\ pc \in {"post", "poll", "polled", "chain", "done", "failed"}

Init ==
  /\ pool = {} /\ sent = <<>> /\ live = {} /\ made = 0
  /\ job = 1 /\ retried = FALSE /\ done = [j \in DOMAIN Jobs |-> 0]
  /\ now = 0 /\ wake = [a \in Authzrs |-> 0] /\ named = wake /\ asked = 0 /\ heap = Authzrs
  /\ attempts = [a \in Authzrs |-> 0] /\ exhausted = {}
  /\ updated = [a \in Authzrs |-> "pending"]
  /\ chain = 0 /\ more = FALSE /\ pc = "post"

-----------------------------------------------------------------------------
(* Nonces and requests. *)

\* The server puts a fresh nonce into a response, or no usable one at all.
Fresh == made + 1

\* A HEAD request for a nonce when there is none left.
GetNonce ==
  /\ pc = "post" /\ pool = {}
  /\ \/ made' = Fresh /\ pool' = {Fresh} /\ live' = live \cup {Fresh} /\ UNCHANGED pc
     \/ pc' = "failed" /\ UNCHANGED <<pool, live, made>>
  /\ UNCHANGED <<sent, job, retried, done, poll, links>>

Forget == /\ pc = "post" /\ \E n \in live : live' = live \ {n}
          /\ UNCHANGED <<pool, sent, made, job, retried, done, poll, links, pc>>

\* The server looks at the nonce first; what it answers then is anything.
Answers(n) == IF n \in live THEN {"ok", "conflict", "problem", "not JSON"} ELSE {"badNonce"}

\* _check_response: which responses come back to the caller of the request.
CheckResponse(code) == code = "ok"

\* The statement after the retry of post(), for what was raised as messages.Error.
Retries(code, back) == ~ retried /\ code = "badNonce" /\ back = "with nonce"

\* What a successful response is checked for: status, links, identifiers.
Fits == BOOLEAN

Advance == /\ retried' = FALSE
           /\ job' = IF job < Len(Jobs) THEN job + 1 ELSE job
           /\ pc' = IF job = LastPosted THEN "poll" ELSE IF job = Len(Jobs) THEN "chain" ELSE pc

\* _post_once with the nonce n: sent, perhaps lost, perhaps carried out; the
\* response may be lost or come without a nonce, which ends the request as
\* well, whatever its status.
PostOnceKeeping(n) ==             \* mutant: the nonce stays in the pool
  /\ pc = "post" /\ n \in pool
  /\ sent' = Append(sent, n)
  /\ pool' = IF made < MaxNonces THEN pool \cup {Fresh} ELSE pool
  /\ live' = (live \ {n}) \cup pool' /\ made' = Max({made} \cup pool')
  /\ done' = [done EXCEPT ![job] = IF n \in live THEN @ + 1 ELSE @]
  /\ IF n \in live THEN Advance ELSE pc' = "failed" /\ UNCHANGED <<job, retried>>
  /\ UNCHANGED <<poll, links>>

PostOnce(n) ==
  /\ pc = "post" /\ n \in pool
  /\ sent' = Append(sent, n)
  /\ \E code \in Answers(n) \cup {"lost"}, back \in {"with nonce", "without", "none"}, fits \in Fits :
       LET took == code = "ok" \/ (code = "lost" /\ fits /\ n \in live)
       IN
       /\ code = "lost" <=> back = "none"
       /\ done' = [done EXCEPT ![job] = IF took THEN @ + 1 ELSE @]
       /\ IF back = "with nonce"
          THEN made' = Fresh /\ pool' = (pool \ {n}) \cup {Fresh} /\ live' = (live \ {n}) \cup {Fresh}
          ELSE pool' = pool \ {n} /\ live' = live \ {n} /\ UNCHANGED made
       /\ IF back = "with nonce" /\ CheckResponse(code) /\ fits THEN Advance
          ELSE IF Retries(code, back) THEN retried' = TRUE /\ UNCHANGED <<job, pc>>
          ELSE pc' = "failed" /\ UNCHANGED <<job, retried>>
  /\ UNCHANGED <<poll, links>>

-----------------------------------------------------------------------------
(* poll_and_request_issuance *)

\* The top of the heap: the earliest, then the first.
Earliest(a) == a \in heap /\ \A b \in heap : wake[a] < wake[b] \/ (wake[a] = wake[b] /\ a <= b)

\* Times are in microseconds.  time.sleep((when - now).seconds): neither the days
\* of the difference nor its fraction of a second.
Second == 1000000
Whole(t) == t \div Second
Wakeful(a) == now                                \* mutant: no sleep
Sleep(a) == IF wake[a] > now THEN now + (Whole(wake[a] - now) % Day) * Second ELSE now

\* Retry-After in a response of the time t: the time named and the time taken for
\* it.  A number, or the default when the header is absent or not readable, counts
\* from now; a date, which HTTP gives in GMT, is taken for local time.
RetryAfter(t) ==
  LET seconds == {t + s * Second : s \in Delays \cup {MinTime}}
      dates == {(Whole(t) + s) * Second : s \in Delays}
  IN {[named |-> w, wake |-> w] : w \in seconds}
     \cup {[named |-> w, wake |-> w - UtcOffset * Second] : w \in dates}

Poll(a) ==
  /\ pc = "poll" /\ Earliest(a)
  /\ asked' = Sleep(a) /\ \E d \in Trips : now' = asked' + d
  /\ \E s \in Decided \cup {"pending"} :
       /\ updated' = [updated EXCEPT ![a] = s]
       /\ attempts' = [attempts EXCEPT ![a] = @ + 1]
       /\ IF s \in Decided
          THEN heap' = heap \ {a} /\ UNCHANGED <<wake, named, exhausted>>
          ELSE IF attempts'[a] < MaxAttempts
          THEN \E r \in RetryAfter(now') :
                 /\ wake' = [wake EXCEPT ![a] = r.wake] /\ named' = [named EXCEPT ![a] = r.named]
                 /\ UNCHANGED <<heap, exhausted>>
          ELSE heap' = heap \ {a} /\ exhausted' = exhausted \cup {a} /\ UNCHANGED <<wake, named>>
  /\ UNCHANGED <<net, job, retried, done, links, pc>>

\* The poll raises: the network, or an authorization for something else.
PollRaises == /\ pc = "poll" /\ heap # {} /\ pc' = "failed"
              /\ UNCHANGED <<net, job, retried, done, poll, links>>

PollError ==
  /\ pc = "poll" /\ heap = {}
  /\ pc' = IF exhausted # {} \/ \E a \in Authzrs : updated[a] = "invalid" THEN "failed" ELSE "post"
  /\ UNCHANGED <<net, job, retried, done, poll, links>>

-----------------------------------------------------------------------------
(* fetch_chain: from the certificate's link "up" to one without. *)

FetchChain ==
  /\ pc = "chain"
  /\ \/ (chain = 0 \/ more) /\ chain < MaxLength
        /\ chain' = chain + 1 /\ more' \in BOOLEAN /\ UNCHANGED pc
     \/ ~ more /\ pc' = "done" /\ UNCHANGED links         \* at once, without a link
     \/ more /\ chain = MaxLength /\ pc' = "failed" /\ UNCHANGED links
     \/ more /\ chain < MaxLength /\ pc' = "failed" /\ UNCHANGED links   \* _get_cert raises
  /\ UNCHANGED <<net, job, retried, done, poll>>

Over == pc \in {"done", "failed"} /\ UNCHANGED vars

Client == \/ GetNonce \/ (\E n \in pool : PostOnce(n)) \/ (\E a \in heap : Poll(a))
          \/ PollRaises \/ PollError \/ FetchChain
Next == Client \/ Forget \/ Over

Spec == Init /\ [][Next]_vars

(* What RespectsRetryAfter needs: Retry-After is below a day, and dates are  *)
(* named only to machines whose local time is GMT.                          *)
RetryBelowDay == Day \in Nat \ {0} /\ Delays \cup {MinTime} \subseteq 0..(Day - 1)
AtGreenwich == UtcOffset = 0

-----------------------------------------------------------------------------
(* No nonce is used for two requests: the server would take the second for  *)
(* a replay.                                                                *)
NonceOnce == \A i, j \in DOMAIN sent : sent[i] = sent[j] => i = j

(* The retry of a request never makes the server carry it out twice, be it  *)
(* lost, refused or answered; and what post() returns for was carried out.  *)
CarriedOutOnce ==
  /\ \A j \in DOMAIN Jobs : done[j] <= 1
  /\ \A j \in 1..(job - 1) : done[j] = 1

(* The certificate is asked for only when every authorization was seen      *)
(* valid, also those that were polled out of turn or given up on.           *)
IssuedWhenAllValid == done[Len(Jobs)] > 0 => \A a \in Authzrs : updated[a] = "valid"

(* An authorization is polled not even a second earlier than its last       *)
(* response allowed: what the code drops of the time to sleep is the        *)
(* fraction of a second.                                                    *)
RespectsRetryAfter ==
  [][\A a \in Authzrs : attempts'[a] # attempts[a] => asked' > named[a] - Second]_vars

(* ... not earlier at all.  Violated, by less than a second; no run checks it. *)
NeverEarly == [][\A a \in Authzrs : attempts'[a] # attempts[a] => asked' >= named[a]]_vars

(* A chain that is returned leads to its end.                               *)
ChainIsWhole == pc = "done" => ~ more

(* However messages are lost and nonces refused, a request is carried out   *)
(* once and no nonce used twice; a certificate is asked for when all        *)
(* authorizations are valid, and its chain fetched to the end.              *)
OnceAndWhole == NonceOnce /\ CarriedOutOnce /\ IssuedWhenAllValid /\ ChainIsWhole

(* A session ends, however long the server says "pending" and whatever it   *)
(* links to.                                                                *)
SessionEnds == <>(pc \in {"done", "failed"})
=============================================================================
