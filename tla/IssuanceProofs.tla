--------------------------- MODULE IssuanceProofs --------------------------
(***************************************************************************)
(* What a session with the CA keeps to, for any number of authorizations,  *)
(* attempts and links, and whatever is lost, refused or delayed; what the  *)
(* DNS plugins do to the records of a zone that others write too, for any  *)
(* domains, zones and records; and what AuthHandler exposes and asks for,  *)
(* for any number of domains and polling rounds.                           *)
(***************************************************************************)
EXTENDS MCIssuance, TLAPS, FiniteSetTheorems

-----------------------------------------------------------------------------
(***************************************************************************)
(* The inductive invariant.                                                *)
(***************************************************************************)

\* The types the argument needs.
Types ==
  /\ made \in Nat /\ pool \subseteq 1..made
  /\ sent \in Seq(Nat) /\ \A i \in DOMAIN sent : sent[i] <= made
  /\ job \in DOMAIN Jobs
  /\ done \in [DOMAIN Jobs -> Nat]
  /\ updated \in [Authzrs -> Decided \cup {"pending"}]
  /\ attempts \in [Authzrs -> Nat]
  /\ heap \subseteq Authzrs
  /\ pc \in {"post", "poll", "chain", "done", "failed"}

\* A nonce in the pool has signed nothing yet, and each other one request.
NoncesUnused == NonceOnce /\ \A i \in DOMAIN sent : sent[i] \notin pool

\* The requests before the one under way were carried out once; that one was
\* not as long as it may still be sent, and no later one was.
InOrder ==
  /\ CarriedOutOnce
  /\ \A j \in DOMAIN Jobs : j > job => done[j] = 0
  /\ pc \in {"post", "poll"} => done[job] = 0
  /\ pc \in {"poll", "chain", "done"} => job = Len(Jobs)

\* What has left the heap is decided or was given up on, and the session went on
\* from polling only if all authorizations are valid.
Polled ==
  /\ \A a \in Authzrs \ heap : updated[a] \in Decided \/ a \in exhausted
  /\ \/ pc \in {"post", "chain", "done"} /\ job = Len(Jobs)
     \/ done[Len(Jobs)] > 0
     => \A a \in Authzrs : updated[a] = "valid"

IInv == Types /\ NoncesUnused /\ InOrder /\ Polled /\ ChainIsWhole

\* No authorization sleeps for as long as a day, and none up to another time than
\* the server named.
WithinDay == /\ now \in Nat /\ wake \in [Authzrs -> Nat] /\ named = wake
             /\ \A a \in Authzrs : wake[a] < now + Day * Second

-----------------------------------------------------------------------------
(***************************************************************************)
(* The invariant is inductive.                                             *)
(***************************************************************************)

LEMMA FiveJobs == Len(Jobs) = 5 /\ DOMAIN Jobs = 1..5 /\ LastPosted = 4
BY DEF Jobs, LastPosted

LEMMA InitInv == Init => IInv
<1> SUFFICES ASSUME Init PROVE IInv
  OBVIOUS
<1>1. /\ pool = {} /\ sent = <<>> /\ made = 0 /\ job = 1 /\ pc = "post" /\ heap = Authzrs
      /\ done = [j \in 1..5 |-> 0] /\ updated = [a \in Authzrs |-> "pending"]
      /\ attempts = [a \in Authzrs |-> 0]
  BY FiveJobs DEF Init
<1>2. DOMAIN sent = {} /\ sent \in Seq(Nat)
  BY <1>1
<1>3. Types
  BY <1>1, <1>2, FiveJobs DEF Types
<1>4. QED
  BY <1>1, <1>2, <1>3, FiveJobs
     DEF IInv, NoncesUnused, NonceOnce, InOrder, CarriedOutOnce, Polled, ChainIsWhole

\* Steps that send nothing and poll nothing: a HEAD request, the server's memory,
\* the end of polling, the chain.
LEMMA GetNonceStep ==
  ASSUME IInv, GetNonce
  PROVE  IInv'
<1>1. pc = "post" /\ UNCHANGED <<sent, job, retried, done, poll, links>>
  BY DEF GetNonce
<1>2. \/ made' = made + 1 /\ pool' = {made + 1} /\ pc' = pc
      \/ pc' = "failed" /\ made' = made /\ pool' = pool
  BY DEF GetNonce, Fresh
<1>3. made \in Nat /\ \A i \in DOMAIN sent : sent[i] \in Nat /\ sent[i] <= made
  BY DEF IInv, Types
<1>4. made' \in Nat /\ pool' \subseteq 1..made' /\ \A i \in DOMAIN sent : sent[i] <= made'
  <2>1. \A m \in pool : m \in 1..made'
    BY <1>2, <1>3 DEF IInv, Types
  <2>2. made' \in Nat /\ pool' \subseteq 1..made'
    BY <1>2, <1>3, <2>1
  <2>3. QED
    BY <1>2, <1>3, <2>2
<1>5. Types'
  BY <1>1, <1>2, <1>4 DEF IInv, Types, poll
<1>6. NoncesUnused'
  BY <1>1, <1>2, <1>3 DEF IInv, NoncesUnused, NonceOnce
<1>7. InOrder' /\ Polled' /\ ChainIsWhole'
  BY <1>1, <1>2 DEF IInv, InOrder, CarriedOutOnce, Polled, ChainIsWhole, poll, links
<1>8. QED
  BY <1>5, <1>6, <1>7 DEF IInv

LEMMA RestStep ==
  ASSUME IInv, Forget \/ PollRaises \/ PollError \/ FetchChain \/ Over \/ UNCHANGED vars
  PROVE  IInv'
<1>1. UNCHANGED <<pool, sent, made, job, done, poll>>
  BY DEF Forget, PollRaises, PollError, FetchChain, Over, vars, net, poll
<1>2. /\ pc' \in {"post", "poll", "chain", "done", "failed"}
      /\ pc' \in {"post", "poll"} => pc \in {"post", "poll"}
      /\ pc' = "poll" => pc = "poll"
      /\ pc' \in {"chain", "done"} => pc \in {"chain", "done"}
      /\ pc' = "done" => ~ more'
  BY DEF Forget, PollRaises, PollError, FetchChain, Over, vars, links, IInv, Types,
         ChainIsWhole
<1>3. Types' /\ NoncesUnused'
  BY <1>1, <1>2 DEF IInv, Types, NoncesUnused, NonceOnce, poll
<1>4. InOrder' /\ ChainIsWhole'
  BY <1>1, <1>2 DEF IInv, InOrder, CarriedOutOnce, ChainIsWhole
<1>5. Polled'
  <2>1. CASE PollError
    <3>1. heap = {} /\ job = Len(Jobs) /\ done[Len(Jobs)] = 0
      BY <2>1 DEF PollError, IInv, InOrder
    <3>2. pc' = "post" => \A a \in Authzrs : updated[a] = "valid"
      BY <2>1, <3>1 DEF PollError, IInv, Polled, Decided
    <3>3. pc' \in {"post", "failed"}
      BY <2>1 DEF PollError
    <3>4. QED
      BY <1>1, <3>1, <3>2, <3>3, FiveJobs DEF IInv, Polled, poll
  <2>2. CASE ~PollError
    <3>1. pc' = "post" => pc = "post"
      BY <2>2 DEF Forget, PollRaises, FetchChain, Over, vars
    <3>2. QED
      BY <1>1, <1>2, <3>1 DEF IInv, Polled, poll
  <2>3. QED
    BY <2>1, <2>2
<1>6. QED
  BY <1>3, <1>4, <1>5 DEF IInv

\* A request is signed with a nonce of the pool, which then leaves it.
LEMMA PostNonces ==
  ASSUME IInv, NEW n \in pool, PostOnce(n)
  PROVE  /\ made' \in Nat /\ pool' \subseteq 1..made'
         /\ sent' \in Seq(Nat) /\ \A i \in DOMAIN sent' : sent'[i] <= made'
         /\ NoncesUnused'
<1>1. /\ made \in Nat /\ sent \in Seq(Nat) /\ n \in Nat /\ n <= made
      /\ \A i \in DOMAIN sent : sent[i] \in Nat /\ sent[i] <= made /\ sent[i] # n
  BY DEF IInv, Types, NoncesUnused
<1>2. /\ sent' = Append(sent, n)
      /\ \/ made' = made + 1 /\ pool' = (pool \ {n}) \cup {made + 1}
         \/ made' = made /\ pool' = pool \ {n}
  BY DEF PostOnce, Fresh
<1>3. /\ sent' \in Seq(Nat) /\ Len(sent') = Len(sent) + 1 /\ Len(sent) \in Nat
      /\ DOMAIN sent = 1..Len(sent) /\ DOMAIN sent' = 1..(Len(sent) + 1)
      /\ sent'[Len(sent) + 1] = n
      /\ \A i \in DOMAIN sent : sent'[i] = sent[i]
  BY <1>1, <1>2
<1>4. \A i \in DOMAIN sent' : i \in DOMAIN sent \/ i = Len(sent) + 1
  BY <1>3
<1>5. made' \in Nat /\ pool' \subseteq 1..made'
  <2>1. \A m \in pool : m \in Nat /\ 1 <= m /\ m <= made
    BY DEF IInv, Types
  <2>2. made' \in Nat /\ made <= made' /\ \A m \in pool' : m \in pool \/ (m = made' /\ 1 <= made')
    BY <1>1, <1>2
  <2>3. \A m \in pool' : m \in 1..made'
    <3>1. TAKE m \in pool'
    <3>2. CASE m \in pool
      BY <1>1, <2>1, <2>2, <3>2
    <3>3. CASE m = made' /\ 1 <= made'
      BY <2>2, <3>3
    <3>4. QED
      BY <2>2, <3>2, <3>3
  <2>4. QED
    BY <2>2, <2>3
<1>6. \A i \in DOMAIN sent' : sent'[i] <= made'
  BY <1>1, <1>2, <1>3, <1>4
<1>7. NonceOnce'
  BY <1>1, <1>3, <1>4 DEF IInv, NoncesUnused, NonceOnce
<1>8. \A i \in DOMAIN sent' : sent'[i] \notin pool'
  <2>1. \A i \in DOMAIN sent : sent[i] \notin pool'
    BY <1>1, <1>2 DEF IInv, NoncesUnused
  <2>2. n \notin pool'
    BY <1>1, <1>2
  <2>3. QED
    BY <1>3, <1>4, <2>1, <2>2
<1>9. QED
  BY <1>3, <1>5, <1>6, <1>7, <1>8 DEF NoncesUnused

\* What the client does after a request: it goes on only when the request was
\* carried out, and sends it again only when it was not.
LEMMA PostOutcome ==
  ASSUME IInv, NEW n \in pool, PostOnce(n)
  PROVE  /\ pc = "post" /\ UNCHANGED <<poll, links>>
         /\ \/ done' = [done EXCEPT ![job] = @ + 1] /\ Advance
            \/ UNCHANGED <<done, job, pc>>
            \/ /\ done' \in {done, [done EXCEPT ![job] = @ + 1]}
               /\ pc' = "failed" /\ UNCHANGED job
<1>1. PICK code \in Answers(n) \cup {"lost"}, back \in {"with nonce", "without", "none"},
           fits \in Fits :
        LET took == code = "ok" \/ (code = "lost" /\ fits /\ n \in live)
        IN  /\ code = "lost" <=> back = "none"
            /\ done' = [done EXCEPT ![job] = IF took THEN @ + 1 ELSE @]
            /\ IF back = "with nonce" /\ CheckResponse(code) /\ fits THEN Advance
               ELSE IF Retries(code, back) THEN retried' = TRUE /\ UNCHANGED <<job, pc>>
               ELSE pc' = "failed" /\ UNCHANGED <<job, retried>>
  BY DEF PostOnce
<1>2. [done EXCEPT ![job] = @] = done
  BY DEF IInv, Types
<1>3. pc = "post" /\ UNCHANGED <<poll, links>>
  BY DEF PostOnce
<1>4. QED
  BY <1>1, <1>2, <1>3 DEF CheckResponse, Retries

LEMMA PostStep ==
  ASSUME IInv, NEW n \in pool, PostOnce(n)
  PROVE  IInv'
<1>1. pc = "post" /\ UNCHANGED <<poll, links>>
  BY PostOutcome
<1>2. /\ job \in 1..5 /\ done \in [1..5 -> Nat] /\ done[job] = 0
      /\ \A j \in 1..5 : done[j] <= 1 /\ (j > job => done[j] = 0) /\ (j < job => done[j] = 1)
  BY <1>1, FiveJobs DEF IInv, Types, InOrder, CarriedOutOnce
<1>3. CASE done' = [done EXCEPT ![job] = @ + 1] /\ Advance
  <2>1. /\ job' = IF job < 5 THEN job + 1 ELSE job
        /\ pc' = IF job = 4 THEN "poll" ELSE IF job = 5 THEN "chain" ELSE "post"
    BY <1>1, <1>3, FiveJobs DEF Advance
  <2>2. /\ done' \in [1..5 -> Nat]
        /\ \A j \in 1..5 : done'[j] = IF j = job THEN 1 ELSE done[j]
    BY <1>2, <1>3
  <2>3. Types'
    <3>1. job' \in 1..5 /\ pc' \in {"post", "poll", "chain", "done", "failed"}
      BY <1>2, <2>1
    <3>2. QED
      BY <1>1, <2>2, <3>1, PostNonces, FiveJobs DEF IInv, Types, poll
  <2>4. InOrder'
    BY <1>2, <2>1, <2>2, FiveJobs DEF InOrder, CarriedOutOnce
  <2>5. Polled'
    <3>1. \A a \in Authzrs \ heap : updated[a] \in Decided \/ a \in exhausted
      BY DEF IInv, Polled
    <3>2. CASE job = 5
      BY <1>1, <3>1, <3>2, FiveJobs DEF IInv, Polled, poll
    <3>3. CASE job # 5
      <4>1. done'[5] = 0
        BY <1>2, <2>2, <3>3
      <4>2. ~(pc' \in {"post", "chain", "done"} /\ job' = 5)
        BY <1>2, <2>1, <3>3
      <4>3. QED
        BY <1>1, <3>1, <4>1, <4>2, FiveJobs DEF Polled, poll
    <3>4. QED
      BY <3>2, <3>3
  <2>6. ChainIsWhole'
    BY <2>1 DEF ChainIsWhole
  <2>7. QED
    BY <2>3, <2>4, <2>5, <2>6, PostNonces DEF IInv
<1>4. CASE UNCHANGED <<done, job, pc>>
  <2>1. Types' /\ NoncesUnused'
    BY <1>1, <1>4, PostNonces DEF IInv, Types, poll
  <2>2. InOrder' /\ Polled' /\ ChainIsWhole'
    BY <1>1, <1>4 DEF IInv, InOrder, CarriedOutOnce, Polled, ChainIsWhole, poll, links
  <2>3. QED
    BY <2>1, <2>2 DEF IInv
<1>5. CASE /\ done' \in {done, [done EXCEPT ![job] = @ + 1]}
           /\ pc' = "failed" /\ UNCHANGED job
  <2>1. /\ done' \in [1..5 -> Nat]
        /\ \A j \in 1..5 : done'[j] = done[j] \/ (j = job /\ done'[j] = 1)
    BY <1>2, <1>5
  <2>2. Types'
    BY <1>1, <1>5, <2>1, PostNonces, FiveJobs DEF IInv, Types, poll
  <2>3. InOrder'
    BY <1>2, <1>5, <2>1, FiveJobs DEF InOrder, CarriedOutOnce
  <2>4. Polled'
    <3>1. done'[5] > 0 => job = 5 \/ done[5] > 0
      BY <2>1
    <3>2. QED
      BY <1>1, <1>5, <3>1, FiveJobs DEF IInv, Polled, poll
  <2>5. QED
    BY <1>5, <2>2, <2>3, <2>4, PostNonces DEF IInv, ChainIsWhole
<1>6. QED
  BY <1>3, <1>4, <1>5, PostOutcome

\* One authorization is polled, and decided, put back, or given up on.
LEMMA PollStep ==
  ASSUME IInv, NEW a \in heap, Poll(a)
  PROVE  IInv'
<1>1. /\ pc = "poll" /\ UNCHANGED <<net, job, retried, done, links, pc>> /\ a \in Authzrs
      /\ job = Len(Jobs) /\ done[Len(Jobs)] = 0
  BY DEF Poll, IInv, Types, InOrder
<1>2. PICK s \in Decided \cup {"pending"} :
        /\ updated' = [updated EXCEPT ![a] = s]
        /\ attempts' = [attempts EXCEPT ![a] = @ + 1]
        /\ \/ s \in Decided /\ heap' = heap \ {a} /\ UNCHANGED exhausted
           \/ UNCHANGED <<heap, exhausted>>
           \/ heap' = heap \ {a} /\ exhausted' = exhausted \cup {a}
  BY DEF Poll
<1>3. Types'
  BY <1>1, <1>2 DEF IInv, Types, net
<1>4. NoncesUnused' /\ InOrder' /\ ChainIsWhole'
  BY <1>1 DEF IInv, NoncesUnused, NonceOnce, InOrder, CarriedOutOnce, ChainIsWhole, net,
              links
<1>5. Polled'
  <2>1. \A b \in Authzrs \ heap' : updated'[b] \in Decided \/ b \in exhausted'
    BY <1>1, <1>2 DEF IInv, Types, Polled
  <2>2. QED
    BY <1>1, <2>1 DEF Polled
<1>6. QED
  BY <1>3, <1>4, <1>5 DEF IInv

LEMMA StepInv == IInv /\ [Next]_vars => IInv'
<1> SUFFICES ASSUME IInv, [Next]_vars
             PROVE  IInv'
  OBVIOUS
<1>1. CASE GetNonce
  BY <1>1, GetNonceStep
<1>2. CASE \E n \in pool : PostOnce(n)
  BY <1>2, PostStep
<1>3. CASE \E a \in heap : Poll(a)
  BY <1>3, PollStep
<1>4. CASE Forget \/ PollRaises \/ PollError \/ FetchChain \/ Over \/ UNCHANGED vars
  BY <1>4, RestStep
<1>5. QED
  BY <1>1, <1>2, <1>3, <1>4 DEF Next, Client

LEMMA SessionInvariant == Spec => []IInv
BY InitInv, StepInv, PTL DEF Spec

\* However messages are lost and nonces refused, a nonce signs one request, the
\* server carries each request out once and in order, and a certificate is asked
\* for when all authorizations are valid, for any number of them.
THEOREM CarriedOut == Spec => []OnceAndWhole
<1>1. IInv => OnceAndWhole
  <2> SUFFICES ASSUME IInv PROVE OnceAndWhole
    OBVIOUS
  <2>1. IssuedWhenAllValid
    BY DEF IInv, Polled, IssuedWhenAllValid
  <2>2. QED
    BY <2>1 DEF IInv, NoncesUnused, InOrder, OnceAndWhole
<1>2. QED
  BY <1>1, SessionInvariant, PTL

-----------------------------------------------------------------------------
(***************************************************************************)
(* The clock.                                                              *)
(***************************************************************************)

\* The seconds of a span of less than a day are the whole span.
LEMMA SecondsOfADay ==
  ASSUME NEW d \in Nat \ {0}, NEW n \in 0..(d - 1)
  PROVE  n % d = n
OBVIOUS

\* The whole seconds of a time.
LEMMA WholeSeconds ==
  ASSUME NEW t \in Nat
  PROVE  Whole(t) \in Nat /\ Whole(t) * Second <= t /\ t < Whole(t) * Second + Second
BY DEF Whole, Second

\* time.sleep sleeps until less than a second before the authorization may be
\* polled, and not backwards.
LEMMA SleepsLongEnough ==
  ASSUME RetryBelowDay, WithinDay, NEW a \in Authzrs
  PROVE  Sleep(a) \in Nat /\ Sleep(a) > wake[a] - Second /\ Sleep(a) >= now
<1>1. now \in Nat /\ wake[a] \in Nat /\ Day \in Nat \ {0} /\ wake[a] < now + Day * Second
  BY DEF RetryBelowDay, WithinDay
<1>2. CASE wake[a] > now
  <2> DEFINE w == Whole(wake[a] - now)
  <2>1. w \in Nat /\ w * Second <= wake[a] - now /\ wake[a] - now < w * Second + Second
    BY <1>1, <1>2, WholeSeconds
  <2> HIDE DEF w
  <2>2. w \in 0..(Day - 1)
    BY <1>1, <1>2, <2>1 DEF Second
  <2>3. w % Day = w
    BY <1>1, <2>2, SecondsOfADay
  <2>4. Sleep(a) = now + w * Second
    BY <1>2, <2>3 DEF Sleep, w
  <2>5. QED
    BY <1>1, <1>2, <2>1, <2>4 DEF Second
<1>3. CASE ~(wake[a] > now)
  BY <1>1, <1>3 DEF Sleep, Second
<1>4. QED
  BY <1>2, <1>3

\* What a response names is less than a day ahead, be it a number or a date.
LEMMA NamedWithinDay ==
  ASSUME RetryBelowDay, AtGreenwich, NEW t \in Nat, NEW r \in RetryAfter(t)
  PROVE  r.named = r.wake /\ r.wake \in Nat /\ r.wake < t + Day * Second
<1>1. PICK s \in Delays \cup {MinTime} :
        \/ r = [named |-> t + s * Second, wake |-> t + s * Second]
        \/ r = [named |-> (Whole(t) + s) * Second,
                wake |-> (Whole(t) + s) * Second - UtcOffset * Second]
  BY DEF RetryAfter
<1>2. s \in Nat /\ s < Day /\ Day \in Nat
  BY DEF RetryBelowDay
<1>3. Whole(t) \in Nat /\ Whole(t) * Second <= t
  BY WholeSeconds
<1>4. /\ t + s * Second \in Nat /\ t + s * Second < t + Day * Second
      /\ (Whole(t) + s) * Second \in Nat /\ (Whole(t) + s) * Second < t + Day * Second
      /\ (Whole(t) + s) * Second - UtcOffset * Second = (Whole(t) + s) * Second
  BY <1>2, <1>3 DEF Second, AtGreenwich
<1>5. QED
  BY <1>1, <1>4

LEMMA WithinDayStep ==
  ASSUME RetryBelowDay, AtGreenwich, IInv, WithinDay, [Next]_vars
  PROVE  WithinDay'
<1>1. CASE \E a \in heap : Poll(a) /\ a \in Authzrs
  <2>1. PICK a \in Authzrs : Poll(a)
    BY <1>1
  <2>2. now' \in Nat /\ now' >= now
    <3>1. Sleep(a) \in Nat /\ Sleep(a) >= now /\ now \in Nat
      BY SleepsLongEnough DEF WithinDay
    <3>2. PICK d \in Trips : now' = Sleep(a) + d
      BY <2>1 DEF Poll
    <3>3. d \in Nat
      BY NetworkAssumption
    <3>4. QED
      BY <3>1, <3>2, <3>3
  <2>3. \A b \in Authzrs : wake[b] \in Nat /\ wake[b] < now' + Day * Second
    BY <2>2 DEF WithinDay, RetryBelowDay, Second
  <2>4. CASE UNCHANGED <<wake, named>>
    BY <2>2, <2>3, <2>4 DEF WithinDay
  <2>5. CASE \E r \in RetryAfter(now') : /\ wake' = [wake EXCEPT ![a] = r.wake]
                                         /\ named' = [named EXCEPT ![a] = r.named]
    <3>1. PICK r \in RetryAfter(now') : /\ wake' = [wake EXCEPT ![a] = r.wake]
                                        /\ named' = [named EXCEPT ![a] = r.named]
      BY <2>5
    <3>2. r.named = r.wake /\ r.wake \in Nat /\ r.wake < now' + Day * Second
      BY <2>2, NamedWithinDay
    <3>3. wake' \in [Authzrs -> Nat] /\ named' = wake'
      BY <3>1, <3>2 DEF WithinDay
    <3>4. \A b \in Authzrs : wake'[b] = IF b = a THEN r.wake ELSE wake[b]
      BY <3>1 DEF WithinDay
    <3>5. QED
      BY <2>2, <2>3, <3>2, <3>3, <3>4 DEF WithinDay
  <2>6. QED
    BY <2>1, <2>4, <2>5 DEF Poll
<1>2. CASE UNCHANGED <<now, wake, named>>
  BY <1>2 DEF WithinDay
<1>3. (\E a \in heap : Poll(a)) \/ UNCHANGED <<now, wake, named>>
  BY DEF Next, Client, GetNonce, PostOnce, PollRaises, PollError, FetchChain, Forget,
         Over, vars, poll
<1>4. QED
  BY <1>1, <1>2, <1>3 DEF IInv, Types

\* An authorization is polled not a second earlier than the server allowed when it
\* answered last, however many sleep and however long requests take, as long as it
\* asks for less than a day and, where it names dates, the machine's time is GMT.
THEOREM RetryAfterIsKept ==
  ASSUME RetryBelowDay, AtGreenwich
  PROVE  Spec => RespectsRetryAfter
<1>1. Init => WithinDay
  BY DEF Init, WithinDay, RetryBelowDay, Second
<1>2. IInv /\ WithinDay /\ [Next]_vars => WithinDay'
  BY WithinDayStep
<1>3. ASSUME IInv, WithinDay, [Next]_vars
      PROVE  [\A a \in Authzrs : attempts'[a] # attempts[a] => asked' > named[a] - Second]_vars
  <2>1. SUFFICES ASSUME NEW a \in Authzrs, attempts'[a] # attempts[a], Next
                 PROVE  asked' > named[a] - Second
    BY <1>3
  <2>2. \E b \in heap : Poll(b)
    BY <2>1 DEF Next, Client, GetNonce, PostOnce, PollRaises, PollError, FetchChain, Forget,
                Over, vars, poll
  <2>3. PICK b \in heap : Poll(b)
    BY <2>2
  <2>4. b = a /\ asked' = Sleep(a)
    BY <1>3, <2>1, <2>3 DEF Poll, IInv, Types
  <2>5. QED
    BY <1>3, <2>4, SleepsLongEnough DEF WithinDay
<1>4. QED
  BY <1>1, <1>2, <1>3, SessionInvariant, PTL DEF Spec, RespectsRetryAfter

-----------------------------------------------------------------------------
(***************************************************************************)
(* The records of dns-01 challenges, for any clients and zones.            *)
(***************************************************************************)

\* The zone that is closest to the name.
Home(z) == z \in D!Visible /\ \A y \in D!Visible : z <= y

DnsLabels ==
  {"setup", "find", "add", "wait", "ready", "failed", "cfind", "look", "del", "done"}

DnsTypes ==
  /\ prov \in D!Providers
  /\ zones \subseteq Guesses /\ hidden \subseteq zones
  /\ rec \in [Guesses -> [Clients -> Nat]]
  /\ start \in [Guesses -> [Clients -> Nat]]
  /\ guess \in [Clients -> Nat]
  /\ zid \in [Clients -> Guesses \cup {0}]
  /\ attempt \subseteq Clients
  /\ dpc \in [Clients -> DnsLabels]

\* No client has passed the zone by, and the one it found is the closest.
Search ==
  \A c \in Clients :
    /\ \A z \in D!Visible : guess[c] <= z
    /\ zid[c] # 0 => Home(zid[c])
    /\ dpc[c] = "setup" => guess[c] = 1 /\ zid[c] = 0
    /\ dpc[c] \in {"add", "wait", "ready", "look", "del"} => zid[c] # 0
    /\ dpc[c] \in {"find", "add"} => c \in attempt

\* From the call that added it to the clean-up a client's record is there.
Held ==
  \A c \in Clients :
    dpc[c] \in {"wait", "ready"} /\ prov # "route53" => rec[zid[c]][c] > 0

\* Where the clients add and delete all records of the name at once.
WholeSet == {"google", "route53"}

\* A record too many is in the closest zone, and its client is still to clean
\* up or was in trouble when it did.  A provider that deletes whole sets of
\* records finds the set as the client made it.
Owed ==
  \A z \in Guesses, c \in Clients :
    /\ rec[z][c] <= start[z][c] + 1
    /\ dpc[c] \in {"setup", "find", "add"} => rec[z][c] <= start[z][c]
    /\ rec[z][c] > start[z][c] =>
         /\ Home(z)
         /\ c \in attempt
         /\ dpc[c] = "done" => c \in dtrouble
         /\ prov \in WholeSet => rec[z] = [D!None EXCEPT ![c] = 1]

DnsInv == DnsTypes /\ Search /\ Held /\ Owed

LEMMA OneHome ==
  ASSUME DnsTypes, NEW y, NEW z, Home(y), Home(z)
  PROVE  y = z
<1>1. y \in Nat /\ z \in Nat /\ y <= z /\ z <= y
  BY DnsAssumption DEF Home, DnsTypes, D!Visible
<1>2. QED
  BY <1>1

LEMMA DnsInit == D!Init => DnsInv
BY DnsAssumption
   DEF D!Init, DnsLabels, D!None, D!Providers, D!Lexicon, D!Visible, DnsInv, DnsTypes, Search, Held,
       Owed, Home

\* What a provider says is never both an answer and something else.
LEMMA Answered ==
  ASSUME prov \in D!Providers
  PROVE  /\ "error" \notin D!Provider.skips
         /\ "found" \notin D!Provider.wrong
<1> USE DEF D!Provider
<1>1. CASE prov = "cloudflare"
  BY <1>1 DEF D!Cloudflare
<1>2. CASE prov = "digitalocean"
  BY <1>2 DEF D!Digitalocean
<1>3. CASE prov = "google"
  BY <1>3 DEF D!Google
<1>4. CASE prov = "rfc2136"
  BY <1>4 DEF D!Rfc2136
<1>5. CASE prov = "route53"
  BY <1>5 DEF D!Route53
<1>6. CASE prov = "cloudxns"
  BY <1>6 DEF D!Cloudxns
<1>7. CASE prov = "dnsimple"
  BY <1>7 DEF D!Dnsimple
<1>8. CASE prov = "dnsmadeeasy"
  BY <1>8 DEF D!Dnsmadeeasy
<1>9. CASE prov = "luadns"
  BY <1>9 DEF D!Luadns
<1>10. CASE prov = "nsone"
  BY <1>10 DEF D!Nsone
<1>11. QED
  BY <1>1, <1>2, <1>3, <1>4, <1>5, <1>6, <1>7, <1>8, <1>9, <1>10
     DEF D!Providers, D!Lexicon

LEMMA DnsStart ==
  ASSUME DnsInv, D!Start
  PROVE  DnsInv'
<1>1. /\ \A c \in Clients : dpc[c] = "setup"
      /\ prov' \in D!Providers
      /\ zones' \subseteq Guesses /\ hidden' \subseteq zones'
      /\ start' = rec'
      /\ UNCHANGED <<guess, zid, attempt, dtrouble, dpc>>
  BY DEF D!Start, D!Untouched
<1>2. \E l \in {0, 1} :
        rec' = [z \in Guesses |->
                  [c \in Clients |-> IF z = D!Min(D!Visible') /\ c = 1 THEN l ELSE 0]]
  BY DEF D!Start
<1>3. /\ rec' \in [Guesses -> [Clients -> Nat]]
      /\ \A z \in Guesses, c \in Clients : rec'[z][c] \in Nat
  BY <1>2
<1>4. DnsTypes'
  BY <1>1, <1>3 DEF DnsInv, DnsTypes
<1>5. Search'
  <2>1. D!Visible' \subseteq Nat \ {0}
    BY <1>1, DnsAssumption DEF D!Visible
  <2>2. QED
    BY <1>1, <2>1 DEF DnsInv, Search
<1>6. Held' /\ Owed'
  BY <1>1, <1>3 DEF Held, Owed
<1>7. QED
  BY <1>4, <1>5, <1>6 DEF DnsInv

\* The search stops at the closest zone and passes no zone by.
LEMMA GuessAnswered ==
  ASSUME DnsInv, NEW c \in Clients, NEW a \in D!Answers(guess[c])
  PROVE  /\ a = "found" => Home(guess[c]) /\ guess[c] \in Guesses /\ guess[c] # 0
         /\ a # "found" /\ a \in D!Provider.skips =>
              guess[c] + 1 \in Nat /\ \A z \in D!Visible : guess[c] + 1 <= z
<1> USE DnsAssumption DEF DnsInv
<1>1. D!Visible \subseteq Guesses
  BY DEF DnsTypes, D!Visible
<1>2. \A z \in D!Visible : guess[c] <= z /\ z \in Nat \ {0}
  BY <1>1 DEF Search
<1>3. guess[c] \in Nat
  BY DEF DnsTypes
<1>4. ASSUME a = "found"
      PROVE  guess[c] \in D!Visible
  BY <1>4, Answered DEF DnsTypes, D!Answers
<1>5. ASSUME a # "found", a \in D!Provider.skips
      PROVE  guess[c] \notin D!Visible
  BY <1>5, Answered DEF DnsTypes, D!Answers
<1>6. ASSUME a # "found", a \in D!Provider.skips, NEW z \in D!Visible
      PROVE  guess[c] + 1 <= z
  BY <1>2, <1>3, <1>5, <1>6
<1>7. a = "found" => Home(guess[c]) /\ guess[c] \in Guesses /\ guess[c] # 0
  BY <1>1, <1>2, <1>4 DEF Home
<1>8. a # "found" /\ a \in D!Provider.skips =>
        guess[c] + 1 \in Nat /\ \A z \in D!Visible : guess[c] + 1 <= z
  <2>1. guess[c] + 1 \in Nat
    BY <1>3
  <2>2. QED
    BY <2>1, <1>6
<1>9. QED
  BY <1>7, <1>8

\* Of a client's step that changes no record: what is left to show.
LEMMA DnsMove ==
  ASSUME DnsInv, NEW c \in Clients,
         UNCHANGED <<prov, zones, hidden, rec, start>>,
         NEW l \in DnsLabels,
         dpc' = [dpc EXCEPT ![c] = l],
         dpc[c] # "done", l # "setup",
         NEW g \in Nat, guess' = [guess EXCEPT ![c] = g], \A z \in D!Visible : g <= z,
         NEW y \in Guesses \cup {0}, zid' = [zid EXCEPT ![c] = y], y # 0 => Home(y),
         l \in {"add", "wait", "ready", "look", "del"} => y # 0,
         attempt \subseteq attempt', attempt' \subseteq Clients,
         l \in {"find", "add"} => c \in attempt' /\ dpc[c] \in {"setup", "find", "add"},
         l \in {"wait", "ready"} => dpc[c] \in {"wait", "ready"} /\ y = zid[c],
         dtrouble \subseteq dtrouble',
         l = "done" =>
           \/ c \in dtrouble'
           \/ \A z \in Guesses : ~ (rec[z][c] > start[z][c])
  PROVE  DnsInv'
<1> USE DEF DnsInv
<1>1. D!Visible' = D!Visible /\ \A z : Home(z)' <=> Home(z)
  BY DEF D!Visible, Home
<1>2. /\ \A d \in Clients : dpc'[d] = IF d = c THEN l ELSE dpc[d]
      /\ \A d \in Clients : guess'[d] = IF d = c THEN g ELSE guess[d]
      /\ \A d \in Clients : zid'[d] = IF d = c THEN y ELSE zid[d]
  BY DEF DnsTypes
<1>3. DnsTypes'
  BY DEF DnsTypes
<1>4. Search'
  BY <1>1, <1>2 DEF Search
<1>5. Held'
  BY <1>2 DEF Held
<1>6. Owed'
  BY <1>1, <1>2 DEF Owed, D!None
<1>7. QED
  BY <1>3, <1>4, <1>5, <1>6

LEMMA DnsSetup ==
  ASSUME DnsInv, NEW c \in Clients, D!SetupCredentials(c)
  PROVE  DnsInv'
<1>1. PICK l \in {"find", "failed"} :
        /\ dpc' = [dpc EXCEPT ![c] = l]
        /\ attempt \subseteq attempt' /\ attempt' \subseteq Clients
        /\ l = "find" => c \in attempt'
  BY DEF D!SetupCredentials, D!Goto, DnsInv, DnsTypes
<1>2. /\ dpc[c] = "setup"
      /\ UNCHANGED <<prov, zones, hidden, rec, start, guess, zid, dtrouble>>
  BY DEF D!SetupCredentials
<1>3. /\ guess[c] \in Nat /\ zid[c] = 0
      /\ guess = [guess EXCEPT ![c] = guess[c]] /\ zid = [zid EXCEPT ![c] = zid[c]]
      /\ \A z \in D!Visible : guess[c] <= z
  BY <1>2 DEF DnsInv, DnsTypes, Search
<1>4. QED
  BY <1>1, <1>2, <1>3, DnsMove DEF DnsLabels

LEMMA DnsFind ==
  ASSUME DnsInv, NEW c \in Clients, D!FindZone(c) \/ D!FindAgain(c)
  PROVE  DnsInv'
<1> DEFINE l == IF dpc[c] = "find" THEN "add"
                ELSE IF prov \in {"cloudflare", "digitalocean"} THEN "look" ELSE "del"
<1>1. /\ dpc[c] \in {"find", "cfind"}
      /\ UNCHANGED <<prov, zones, hidden, rec, start, attempt>>
  BY DEF D!FindZone, D!FindAgain
<1>2. /\ guess[c] \in Nat /\ zid[c] \in Guesses \cup {0} /\ dpc[c] \in DnsLabels
      /\ guess = [guess EXCEPT ![c] = guess[c]] /\ zid = [zid EXCEPT ![c] = zid[c]]
      /\ dpc = [dpc EXCEPT ![c] = dpc[c]]
      /\ attempt \subseteq Clients
      /\ \A z \in D!Visible : guess[c] <= z
      /\ zid[c] # 0 => Home(zid[c])
      /\ dpc[c] = "find" => c \in attempt
  BY DEF DnsInv, DnsTypes, Search
<1>3. PICK a \in D!Answers(guess[c]) :
        \/ /\ a = "found"
           /\ zid' = [zid EXCEPT ![c] = guess[c]] /\ dpc' = [dpc EXCEPT ![c] = l]
           /\ UNCHANGED <<guess, dtrouble>>
        \/ /\ a # "found" /\ a \in D!Provider.skips
           /\ guess' = [guess EXCEPT ![c] = @ + 1]
           /\ UNCHANGED <<zid, dpc, dtrouble>>
        \/ /\ a # "found" /\ UNCHANGED <<guess, zid>>
           /\ dpc[c] = "find" /\ dpc' = [dpc EXCEPT ![c] = "failed"]
           /\ UNCHANGED dtrouble
        \/ /\ a # "found" /\ UNCHANGED <<guess, zid>>
           /\ dpc[c] = "cfind" /\ dpc' = [dpc EXCEPT ![c] = "done"]
           /\ dtrouble' = dtrouble \cup {c}
  BY <1>1 DEF D!FindZone, D!FindAgain, D!Find, D!Goto
<1>4. CASE a = "found"
  <2>1. /\ Home(guess[c]) /\ guess[c] \in Guesses /\ guess[c] # 0
        /\ zid' = [zid EXCEPT ![c] = guess[c]] /\ dpc' = [dpc EXCEPT ![c] = l]
        /\ UNCHANGED <<guess, dtrouble>>
    BY <1>3, <1>4, GuessAnswered
  <2>2. l \in {"add", "look", "del"} /\ (l = "add" => dpc[c] = "find")
    OBVIOUS
  <2> HIDE DEF l
  <2>3. QED
    BY <1>1, <1>2, <2>1, <2>2, DnsMove DEF DnsLabels
<1>5. ASSUME a # "found", a \in D!Provider.skips,
             guess' = [guess EXCEPT ![c] = @ + 1],
             UNCHANGED <<zid, dpc, dtrouble>>
      PROVE  DnsInv'
  <2>1. guess[c] + 1 \in Nat /\ \A z \in D!Visible : guess[c] + 1 <= z
    BY <1>5, GuessAnswered
  <2>2. guess' = [guess EXCEPT ![c] = guess[c] + 1]
    BY <1>5
  <2>3. QED
    BY <1>1, <1>2, <1>5, <2>1, <2>2, DnsMove
<1>6. ASSUME UNCHANGED <<guess, zid>>, dpc[c] = "find",
             dpc' = [dpc EXCEPT ![c] = "failed"],
             UNCHANGED dtrouble
      PROVE  DnsInv'
  BY <1>1, <1>2, <1>6, DnsMove DEF DnsLabels
<1>7. ASSUME UNCHANGED <<guess, zid>>, dpc[c] = "cfind",
             dpc' = [dpc EXCEPT ![c] = "done"],
             dtrouble' = dtrouble \cup {c}
      PROVE  DnsInv'
  BY <1>1, <1>2, <1>7, DnsMove DEF DnsLabels
<1>8. QED
  BY <1>3, <1>4, <1>5, <1>6, <1>7
LEMMA DnsWait ==
  ASSUME DnsInv, NEW c \in Clients, D!WaitForChange(c)
  PROVE  DnsInv'
<1>1. PICK l \in {"wait", "ready", "failed"} : dpc' = [dpc EXCEPT ![c] = l]
  BY DEF D!WaitForChange, D!Goto, DnsInv, DnsTypes
<1>2. /\ dpc[c] = "wait"
      /\ UNCHANGED <<prov, zones, hidden, rec, start, guess, zid, attempt, dtrouble>>
  BY DEF D!WaitForChange
<1>3. /\ guess[c] \in Nat /\ zid[c] \in Guesses \cup {0} /\ zid[c] # 0
      /\ guess = [guess EXCEPT ![c] = guess[c]] /\ zid = [zid EXCEPT ![c] = zid[c]]
      /\ \A z \in D!Visible : guess[c] <= z
      /\ Home(zid[c]) /\ attempt \subseteq Clients
  BY <1>2 DEF DnsInv, DnsTypes, Search
<1>4. QED
  BY <1>1, <1>2, <1>3, DnsMove DEF DnsLabels

LEMMA DnsCleanup ==
  ASSUME DnsInv, NEW c \in Clients, D!Cleanup(c)
  PROVE  DnsInv'
<1>1. /\ dpc[c] \in {"ready", "failed"}
      /\ dpc' = [dpc EXCEPT ![c] = IF c \in attempt THEN "cfind" ELSE "done"]
      /\ guess' = [guess EXCEPT ![c] = 1] /\ zid' = [zid EXCEPT ![c] = 0]
      /\ UNCHANGED <<prov, zones, hidden, rec, start, attempt, dtrouble>>
  BY DEF D!Cleanup, D!Goto
<1>2. \A z \in D!Visible : 1 <= z
  BY DnsAssumption DEF D!Visible, DnsInv, DnsTypes
<1>3. attempt \subseteq Clients
  BY DEF DnsInv, DnsTypes
<1>4. c \notin attempt => \A z \in Guesses : ~ (rec[z][c] > start[z][c])
  BY DEF DnsInv, Owed
<1>5. PICK l \in {"cfind", "done"} :
        dpc' = [dpc EXCEPT ![c] = l] /\ (l = "done" => c \notin attempt)
  BY <1>1
<1>6. QED
  BY <1>1, <1>2, <1>3, <1>4, <1>5, DnsMove DEF DnsLabels

\* Looking the record up finds it if it is there, for it is in the zone found.
LEMMA DnsLookUp ==
  ASSUME DnsInv, NEW c \in Clients, D!LookUp(c)
  PROVE  DnsInv'
<1>1. /\ dpc[c] = "look"
      /\ UNCHANGED <<prov, zones, hidden, rec, start, guess, zid, attempt>>
  BY DEF D!LookUp
<1>2. /\ guess[c] \in Nat /\ zid[c] \in Guesses /\ zid[c] # 0
      /\ guess = [guess EXCEPT ![c] = guess[c]] /\ zid = [zid EXCEPT ![c] = zid[c]]
      /\ \A z \in D!Visible : guess[c] <= z
      /\ Home(zid[c]) /\ attempt \subseteq Clients
  BY <1>1 DEF DnsInv, DnsTypes, Search
<1>3. PICK l \in {"del", "done"} :
        /\ dpc' = [dpc EXCEPT ![c] = l] /\ dtrouble \subseteq dtrouble'
        /\ l = "done" => c \in dtrouble' \/ ~ (rec[zid[c]][c] > 0)
  BY DEF D!LookUp, D!Goto
<1>4. ASSUME NEW z \in Guesses, ~ (rec[zid[c]][c] > 0)
      PROVE  ~ (rec[z][c] > start[z][c])
  <2>1. rec[z][c] > start[z][c] => z = zid[c]
    BY <1>2, OneHome DEF DnsInv, Owed
  <2>2. rec[zid[c]][c] \in Nat /\ start[zid[c]][c] \in Nat
    BY <1>2 DEF DnsInv, DnsTypes
  <2>3. QED
    BY <1>4, <2>1, <2>2
<1>5. QED
  BY <1>1, <1>2, <1>3, <1>4, DnsMove DEF DnsLabels

\* What an addition does to the records r of a zone.
LEMMA Adding ==
  ASSUME prov \in D!Providers, NEW r \in [Clients -> Nat], NEW c \in Clients
  PROVE  /\ D!Add(r, c) \in [Clients -> Nat]
         /\ D!Add(r, c)[c] <= r[c] + 1
         /\ prov # "google" \/ r = D!None => D!Add(r, c)[c] > 0
         /\ prov \notin WholeSet => \A d \in Clients : d # c => D!Add(r, c)[d] = r[d]
         /\ \A d \in Clients : d # c => D!Add(r, c)[d] <= r[d]
         /\ prov \in WholeSet =>
              D!Add(r, c) = r \/ D!Add(r, c) = [D!None EXCEPT ![c] = 1]
         /\ prov = "google" =>
              D!Add(r, c) = r \/ r = D!None
<1> USE DEF D!Add, D!None, WholeSet
<1>1. CASE prov = "cloudflare"
  BY <1>1 DEF D!CloudflareAdd
<1>2. CASE prov = "digitalocean"
  BY <1>2 DEF D!DigitaloceanAdd
<1>3. CASE prov = "google"
  <2>1. D!Add(r, c) = IF r = D!None THEN [r EXCEPT ![c] = 1] ELSE r
    BY <1>3 DEF D!GoogleAdd
  <2>2. CASE r = D!None
    BY <1>3, <2>1, <2>2
  <2>3. CASE r # D!None
    <3>1. D!Add(r, c) = r /\ r[c] \in Nat /\ \A d \in Clients : r[d] \in Nat
      BY <2>1, <2>3
    <3>2. QED
      BY ONLY <1>3, <2>3, <3>1, r \in [Clients -> Nat], c \in Clients DEF WholeSet
  <2>4. QED
    BY <2>2, <2>3
<1>4. CASE prov = "rfc2136"
  BY <1>4 DEF D!Rfc2136Add
<1>5. CASE prov = "route53"
  BY <1>5 DEF D!Route53Add
<1>6. CASE prov \in D!Lexicon
  BY <1>6 DEF D!LexiconAdd, D!Lexicon
<1>7. QED
  BY <1>1, <1>2, <1>3, <1>4, <1>5, <1>6 DEF D!Providers

LEMMA DnsAdd ==
  ASSUME DnsInv, NEW c \in Clients, D!AddTxtRecord(c)
  PROVE  DnsInv'
<1> USE DEF DnsInv
<1> DEFINE h == zid[c]
<1>1. /\ dpc[c] = "add"
      /\ UNCHANGED <<prov, zones, hidden, start, guess, zid, attempt, dtrouble>>
  BY DEF D!AddTxtRecord
<1>2. PICK added \in BOOLEAN, ok \in BOOLEAN :
        /\ ok => added /\ (prov = "google" => rec[h] = D!None)
        /\ rec' = IF added THEN [rec EXCEPT ![h] = D!Add(@, c)] ELSE rec
        /\ dpc' = [dpc EXCEPT ![c] =
                     IF ~ ok THEN "failed"
                     ELSE IF prov \in {"google", "route53"} THEN "wait" ELSE "ready"]
  BY DEF D!AddTxtRecord, D!Goto
<1>3. h \in Guesses /\ Home(h) /\ c \in attempt
  BY <1>1 DEF DnsTypes, Search
<1>4. /\ D!Visible' = D!Visible /\ \A z : Home(z)' <=> Home(z)
      /\ \A d \in Clients : d # c => dpc'[d] = dpc[d]
      /\ dpc'[c] \in {"failed", "wait", "ready"}
      /\ dpc'[c] \in {"wait", "ready"} <=> ok
  BY <1>1, <1>2 DEF D!Visible, Home, DnsTypes
<1>5. rec[h] \in [Clients -> Nat]
  BY <1>3 DEF DnsTypes
<1>6. \A z \in Guesses : z # h => rec'[z] = rec[z]
  BY <1>2 DEF DnsTypes
<1>7. rec'[h] = IF added THEN D!Add(rec[h], c) ELSE rec[h]
  BY <1>2, <1>3 DEF DnsTypes
<1>8. DnsTypes'
  <2>1. D!Add(rec[h], c) \in [Clients -> Nat]
    BY <1>5, Adding DEF DnsTypes
  <2>2. rec' \in [Guesses -> [Clients -> Nat]]
    BY <1>2, <1>3, <2>1 DEF DnsTypes
  <2>3. QED
    BY <1>1, <1>2, <2>2 DEF DnsTypes, DnsLabels
<1>9. Search'
  BY <1>1, <1>4 DEF Search
<1>10. Held'
  <2> SUFFICES ASSUME NEW d \in Clients, dpc'[d] \in {"wait", "ready"}, prov # "route53"
               PROVE  rec'[zid[d]][d] > 0
    BY <1>1 DEF Held
  <2>1. CASE d = c
    <3>1. rec'[h] = D!Add(rec[h], c) /\ (prov = "google" => rec[h] = D!None)
      BY <1>2, <1>4, <1>7, <2>1
    <3>2. prov # "google" \/ rec[h] = D!None => D!Add(rec[h], c)[c] > 0
      BY <1>5, Adding DEF DnsTypes
    <3>3. QED
      BY <2>1, <3>1, <3>2
  <2>2. CASE d # c
    <3>1. rec[zid[d]][d] > 0 /\ zid[d] = h
      BY <1>3, <1>4, <2>2, OneHome DEF Held, Search
    <3>2. prov = "google" /\ rec'[h] # rec[h] => rec[h] = D!None
      BY <1>5, <1>7, Adding DEF DnsTypes
    <3>3. rec[h] # D!None
      BY <3>1 DEF D!None
    <3>4. CASE prov = "google"
      BY <3>1, <3>2, <3>3, <3>4
    <3>5. CASE prov # "google"
      <4>1. prov \notin WholeSet
        BY <3>5 DEF WholeSet
      <4>2. rec'[h][d] = rec[h][d]
        BY <1>5, <1>7, <2>2, <4>1, Adding DEF DnsTypes
      <4>3. QED
        BY <3>1, <4>2
    <3>6. QED
      BY <3>4, <3>5
  <2>3. QED
    BY <2>1, <2>2
<1>11. Owed'
  <2> SUFFICES ASSUME NEW z \in Guesses, NEW d \in Clients
               PROVE  /\ rec'[z][d] <= start[z][d] + 1
                      /\ dpc'[d] \in {"setup", "find", "add"} => rec'[z][d] <= start[z][d]
                      /\ rec'[z][d] > start[z][d] =>
                           /\ Home(z)
                           /\ d \in attempt
                           /\ dpc'[d] = "done" => d \in dtrouble
                           /\ prov \in WholeSet => rec'[z] = [D!None EXCEPT ![d] = 1]
    BY <1>1, <1>4 DEF Owed, D!None
  <2>1. /\ rec[z][d] \in Nat /\ start[z][d] \in Nat /\ rec'[z][d] \in Nat
    BY <1>8 DEF DnsTypes
  <2>2. CASE z # h \/ ~ added
    <3>1. rec'[z] = rec[z]
      BY <1>6, <1>7, <2>2
    <3>2. QED
      BY <1>1, <1>4, <3>1 DEF Owed
  <2>3. CASE z = h /\ added /\ d = c
    <3>1. rec[z][c] <= start[z][c]
      BY <1>1, <2>3 DEF Owed
    <3>2. /\ rec'[z][c] <= rec[z][c] + 1
          /\ prov \in WholeSet =>
               rec'[z] = rec[z] \/ rec'[z] = [D!None EXCEPT ![c] = 1]
      BY <1>5, <1>7, <2>3, Adding DEF DnsTypes
    <3>3. rec'[z][c] > start[z][c] => rec'[z] # rec[z]
      BY <2>1, <2>3, <3>1
    <3>4. QED
      BY <1>3, <1>4, <2>1, <2>3, <3>1, <3>2, <3>3
  <2>4. CASE z = h /\ added /\ d # c
    <3>1. /\ rec'[z][d] <= rec[z][d]
          /\ prov \in WholeSet =>
               rec'[z] = rec[z] \/ rec'[z] = [D!None EXCEPT ![c] = 1]
      BY <1>5, <1>7, <2>4, Adding DEF DnsTypes
    <3>2. rec'[z] = [D!None EXCEPT ![c] = 1] => rec'[z][d] = 0
      BY <2>4 DEF D!None
    <3>3. rec'[z][d] > start[z][d] => rec[z][d] > start[z][d]
      BY <2>1, <3>1
    <3>4. dpc'[d] = dpc[d]
      BY <1>4, <2>4
    <3>5. ASSUME rec'[z][d] > start[z][d], prov \in WholeSet
          PROVE  rec'[z] = [D!None EXCEPT ![d] = 1]
      <4>1. rec'[z] = rec[z]
        BY <2>1, <3>1, <3>2, <3>5
      <4>2. QED
        BY <3>3, <3>5, <4>1 DEF Owed
    <3>6. rec[z][d] <= start[z][d] => rec'[z][d] <= start[z][d]
      BY <2>1, <3>1
    <3>7. rec'[z][d] <= start[z][d] + 1
      <4>1. rec[z][d] <= start[z][d] + 1
        BY DEF Owed
      <4>2. QED
        BY <2>1, <3>1, <4>1
    <3>8. QED
      BY <3>3, <3>4, <3>5, <3>6, <3>7 DEF Owed
  <2>5. QED
    BY <2>2, <2>3, <2>4
<1>12. QED
  BY <1>8, <1>9, <1>10, <1>11

\* What a deletion does to the records r of a zone.
LEMMA Deleting ==
  ASSUME prov \in D!Providers, NEW r \in [Clients -> Nat], NEW c \in Clients
  PROVE  /\ D!Delete(r, c) \in [Clients -> Nat]
         /\ \A d \in Clients : D!Delete(r, c)[d] <= r[d]
         /\ prov \notin WholeSet =>
              /\ \A d \in Clients : d # c => D!Delete(r, c)[d] = r[d]
              /\ r[c] > 0 => D!Delete(r, c)[c] < r[c]
         /\ prov \in WholeSet =>
              D!Delete(r, c) = IF r = [D!None EXCEPT ![c] = 1] THEN D!None ELSE r
<1> USE DEF D!Delete, D!None, WholeSet
<1>1. CASE prov = "cloudflare"
  BY <1>1 DEF D!CloudflareDelete
<1>2. CASE prov = "digitalocean"
  BY <1>2 DEF D!DigitaloceanDelete
<1>3. CASE prov = "google"
  BY <1>3 DEF D!GoogleDelete
<1>4. CASE prov = "rfc2136"
  BY <1>4 DEF D!Rfc2136Delete
<1>5. CASE prov = "route53"
  BY <1>5 DEF D!Route53Delete
<1>6. CASE prov \in D!Lexicon
  BY <1>6 DEF D!LexiconDelete, D!Lexicon
<1>7. QED
  BY <1>1, <1>2, <1>3, <1>4, <1>5, <1>6 DEF D!Providers

LEMMA DnsDelete ==
  ASSUME DnsInv, NEW c \in Clients, D!DelTxtRecord(c)
  PROVE  DnsInv'
<1> USE DEF DnsInv
<1> DEFINE h == zid[c]
<1>1. /\ dpc[c] = "del" /\ dpc' = [dpc EXCEPT ![c] = "done"]
      /\ UNCHANGED <<prov, zones, hidden, start, guess, zid, attempt>>
  BY DEF D!DelTxtRecord, D!Goto
<1>2. PICK ok \in BOOLEAN :
        /\ rec' = IF ok THEN [rec EXCEPT ![h] = D!Delete(@, c)] ELSE rec
        /\ dtrouble' = IF ok THEN dtrouble ELSE dtrouble \cup {c}
  BY DEF D!DelTxtRecord
<1>3. h \in Guesses /\ Home(h)
  BY <1>1 DEF DnsTypes, Search
<1>4. /\ D!Visible' = D!Visible /\ \A z : Home(z)' <=> Home(z)
      /\ \A d \in Clients : d # c => dpc'[d] = dpc[d]
      /\ dpc'[c] = "done"
  BY <1>1 DEF D!Visible, Home, DnsTypes
<1>5. rec[h] \in [Clients -> Nat]
  BY <1>3 DEF DnsTypes
<1>6. \A z \in Guesses : z # h => rec'[z] = rec[z]
  BY <1>2 DEF DnsTypes
<1>7. rec'[h] = IF ok THEN D!Delete(rec[h], c) ELSE rec[h]
  BY <1>2, <1>3 DEF DnsTypes
<1>8. DnsTypes'
  <2>1. D!Delete(rec[h], c) \in [Clients -> Nat]
    BY <1>5, Deleting DEF DnsTypes
  <2>2. rec' \in [Guesses -> [Clients -> Nat]]
    BY <1>2, <1>3, <2>1 DEF DnsTypes
  <2>3. QED
    BY <1>1, <1>2, <2>2 DEF DnsTypes, DnsLabels
<1>9. Search'
  BY <1>1, <1>4 DEF Search
<1>10. Held'
  <2> SUFFICES ASSUME NEW d \in Clients, dpc'[d] \in {"wait", "ready"}, prov # "route53"
               PROVE  rec'[zid[d]][d] > 0
    BY <1>1 DEF Held
  <2>1. d # c
    BY <1>4
  <2>2. rec[zid[d]][d] > 0 /\ zid[d] = h
    BY <1>3, <1>4, <2>1, OneHome DEF Held, Search
  <2>3. CASE prov \in WholeSet
    <3>1. rec[h] # [D!None EXCEPT ![c] = 1]
      BY <2>1, <2>2 DEF D!None
    <3>2. D!Delete(rec[h], c)
            = IF rec[h] = [D!None EXCEPT ![c] = 1] THEN D!None ELSE rec[h]
      BY <1>5, <2>3, Deleting DEF DnsTypes
    <3>3. rec'[h] = rec[h]
      BY <1>7, <3>1, <3>2
    <3>4. QED
      BY <2>2, <3>3
  <2>4. CASE prov \notin WholeSet
    <3>1. rec'[h][d] = rec[h][d]
      BY <1>5, <1>7, <2>1, <2>4, Deleting DEF DnsTypes
    <3>2. QED
      BY <2>2, <3>1
  <2>5. QED
    BY <2>3, <2>4
<1>11. Owed'
  <2> SUFFICES ASSUME NEW z \in Guesses, NEW d \in Clients
               PROVE  /\ rec'[z][d] <= start[z][d] + 1
                      /\ dpc'[d] \in {"setup", "find", "add"} => rec'[z][d] <= start[z][d]
                      /\ rec'[z][d] > start[z][d] =>
                           /\ Home(z)
                           /\ d \in attempt
                           /\ dpc'[d] = "done" => d \in dtrouble'
                           /\ prov \in WholeSet => rec'[z] = [D!None EXCEPT ![d] = 1]
    BY <1>1, <1>4 DEF Owed, D!None
  <2>1. rec[z][d] \in Nat /\ start[z][d] \in Nat /\ rec'[z][d] \in Nat
    BY <1>8, <1>1 DEF DnsTypes
  <2>2. rec'[z][d] <= rec[z][d]
    <3>1. CASE z = h
      BY <1>5, <1>7, <2>1, <3>1, Deleting DEF DnsTypes
    <3>2. CASE z # h
      BY <1>6, <2>1, <3>2
    <3>3. QED
      BY <3>1, <3>2
  <2>3. /\ rec[z][d] <= start[z][d] + 1
        /\ dpc[d] \in {"setup", "find", "add"} => rec[z][d] <= start[z][d]
        /\ rec[z][d] > start[z][d] =>
             /\ Home(z)
             /\ d \in attempt
             /\ dpc[d] = "done" => d \in dtrouble
             /\ prov \in WholeSet => rec[z] = [D!None EXCEPT ![d] = 1]
    BY DEF Owed
  <2>4. /\ rec'[z][d] <= start[z][d] + 1
        /\ dpc'[d] \in {"setup", "find", "add"} => rec'[z][d] <= start[z][d]
    BY <1>4, <2>1, <2>2, <2>3
  <2>5. ASSUME rec'[z][d] > start[z][d]
        PROVE  /\ Home(z)
               /\ d \in attempt
               /\ dpc'[d] = "done" => d \in dtrouble'
               /\ prov \in WholeSet => rec'[z] = [D!None EXCEPT ![d] = 1]
    <3>1. rec[z][d] > start[z][d] /\ rec[z][d] > 0
      BY <2>1, <2>2, <2>5
    <3>2. z = h
      BY <1>3, <2>3, <3>1, OneHome
    <3>3. CASE ~ ok
      BY <1>2, <1>4, <2>3, <3>1, <3>3
    <3>4. CASE ok /\ d = c
      <4>1. CASE prov \in WholeSet
        <5>1. rec'[h] = D!None
          BY <1>5, <1>7, <2>3, <3>1, <3>2, <3>4, <4>1, Deleting DEF DnsTypes
        <5>2. rec'[z][d] = 0
          BY <3>2, <5>1 DEF D!None
        <5>3. QED
          BY <2>1, <2>5, <5>2
      <4>2. CASE prov \notin WholeSet
        <5>1. rec'[h][c] < rec[h][c]
          BY <1>5, <1>7, <3>1, <3>2, <3>4, <4>2, Deleting DEF DnsTypes
        <5>2. QED
          BY <2>1, <2>3, <2>5, <3>2, <3>4, <5>1
      <4>3. QED
        BY <4>1, <4>2
    <3>5. CASE ok /\ d # c
      <4>1. prov \in WholeSet => rec[h] # [D!None EXCEPT ![c] = 1]
        BY <3>1, <3>2, <3>5 DEF D!None
      <4>2. prov \in WholeSet => rec'[h] = rec[h]
        BY <1>5, <1>7, <4>1, Deleting DEF DnsTypes
      <4>3. QED
        BY <1>2, <1>4, <2>3, <3>1, <3>2, <3>5, <4>2
    <3>6. QED
      BY <3>3, <3>4, <3>5
  <2>6. QED
    BY <2>4, <2>5
<1>12. QED
  BY <1>8, <1>9, <1>10, <1>11

LEMMA DnsStep ==
  ASSUME DnsInv, D!Next \/ UNCHANGED dVars
  PROVE  DnsInv'
<1>1. CASE UNCHANGED dVars
  BY <1>1
     DEF dVars, DnsInv, DnsTypes, Search, Held, Owed, D!Visible, Home, D!None
<1>2. CASE D!Over
  BY <1>2
     DEF D!Over, D!vars, DnsInv, DnsTypes, Search, Held, Owed, D!Visible, Home,
         D!None
<1>3. ASSUME NEW c \in Clients, D!Step(c)
      PROVE  DnsInv'
  BY <1>3, DnsSetup, DnsFind, DnsAdd, DnsWait, DnsCleanup, DnsLookUp, DnsDelete DEF D!Step
<1>4. QED
  BY <1>1, <1>2, <1>3, DnsStart DEF D!Next

LEMMA DnsInvariant == MCSpec => []DnsInv
<1>1. MCInit => DnsInv
  BY DnsInit DEF MCInit
<1>2. DnsInv /\ [MCNext]_mcVars => DnsInv'
  BY DnsStep DEF MCNext, ANext, DNext, NNext, mcVars
<1>3. QED
  BY <1>1, <1>2, PTL DEF MCSpec

\* While the CA is looking a client's record is there, for any number of
\* clients and zones, whoever adds and deletes records at the provider.
THEOREM RecordsStay == MCSpec => []RecordStays
<1>1. DnsInv => RecordStays
  BY DEF DnsInv, Held, RecordStays, D!RecordStays
<1>2. QED
  BY <1>1, DnsInvariant, PTL

\* When all are done the zone has no record too many but those of clients for
\* which the provider failed; and it is the closest zone of the account.
THEOREM RecordsGo == MCSpec => []Restored
<1>1. ASSUME DnsInv
      PROVE  D!Restored
  <2> SUFFICES ASSUME \A c \in Clients : dpc[c] = "done",
                      NEW z \in Guesses, NEW c \in Clients, ~ (c \in dtrouble)
               PROVE  rec[z][c] <= start[z][c]
    BY DEF D!Restored
  <2>1. rec[z][c] \in Nat /\ start[z][c] \in Nat /\ ~ (rec[z][c] > start[z][c])
    BY <1>1 DEF DnsInv, DnsTypes, Owed
  <2>2. QED
    BY <2>1
<1>2. ASSUME DnsInv
      PROVE  D!ClosestZone
  <2> SUFFICES ASSUME NEW c \in Clients, zid[c] # 0
               PROVE  zid[c] = D!Min(D!Visible)
    BY DEF D!ClosestZone
  <2>1. Home(zid[c])
    BY <1>2 DEF DnsInv, Search
  <2>2. Home(D!Min(D!Visible))
    BY <2>1 DEF Home, D!Min
  <2>3. QED
    BY <1>2, <2>1, <2>2, OneHome DEF DnsInv
<1>3. DnsInv => Restored
  BY <1>1, <1>2 DEF Restored
<1>4. QED
  BY <1>3, DnsInvariant, PTL

-----------------------------------------------------------------------------
(***************************************************************************)
(* Authorizations, for any number of domains and of polling rounds.        *)
(***************************************************************************)

Working == {"undo", "send", "poll", "cleanup"}

AuthTypes ==
  /\ opts.plugin \in DOMAIN A!Pref
  /\ offer \in [A!Domain -> A!Offers] /\ chosen \in 0..NDomains
  /\ achalls \in Seq(A!Chall) /\ asent \in Nat /\ (apc = "send" => asent <= Len(achalls))
  /\ status \in [A!Domain -> A!Decision] /\ verdict \in [A!Chall -> A!Decision]
  /\ authzr \in [A!Domain -> A!Decision \cup {"none"}]
  /\ update \in [A!Domain -> SUBSET A!Chall] /\ answered \subseteq A!Chall
  /\ apc \in {"start", "request", "choose", "more", "solve", "verify", "issue", "chain", "enroll",
              "done"} \cup Working
  /\ apc \notin {"undo", "cleanup", "done"} => why = ""
  /\ apc \in {"undo", "done"} => why # ""

\* The challenges chosen so far: usable, sufficient for the domains treated, one
\* for each domain when the manual plugin is to solve them.
Mine(d) == {c \in A!ToSet(achalls) : c[1] = d}
Choice ==
  /\ apc \in {"start", "request"} => chosen = 0 /\ achalls = <<>>
  /\ apc # "done" =>
       \A i \in DOMAIN achalls : achalls[i][1] <= chosen /\ achalls[i][2] \in A!Usable
  /\ apc \in {"more", "solve"} \cup Working => chosen = NDomains
  /\ apc = "choose" \/ (apc \in {"more", "solve"} /\ achalls # <<>>) =>
       \A d \in 1..chosen : A!Suffices(d, Mine(d))
  /\ opts.plugin = "manual" /\ apc # "start" => \A d \in A!Domain : offer[d].combos # <<<<1, 2>>>>
  /\ opts.plugin = "manual" /\ apc # "done" =>
       \A i, j \in DOMAIN achalls : achalls[i][1] = achalls[j][1] => i = j

\* What is exposed between perform and the clean-up: some first of the challenges,
\* and the plugin knows of it.  Else nothing is, unless there was trouble.
Exposure ==
  /\ apc \in Working =>
       /\ \E k \in 0..Len(achalls) : exposed = A!First(k)
       /\ achalls # <<>> /\ (owned = {} => exposed = {})
       /\ opts.plugin = "manual" => owned = exposed
  /\ apc = "solve" => achalls # <<>>
  /\ apc \notin Working => exposed = {} \/ trouble # {}

\* A challenge answered is waited for until it is found valid; only the CA's
\* decisions on its challenges decide an authorization.
Asking ==
  /\ apc \in {"start", "request", "choose", "solve", "undo"} => answered = {}
  /\ apc = "more" /\ achalls # <<>> => answered = {}
  /\ apc = "start" => \A d \in A!Domain : authzr[d] = "none"
  /\ apc \notin {"start", "request", "done"} => \A d \in A!Domain : authzr[d] # "none"
  /\ \A c \in answered : c \in update[c[1]] \/ verdict[c] = "valid"
  /\ \A d \in A!Domain : \A c \in update[d] : c[1] = d
  /\ \A c \in A!Chall : verdict[c] = "invalid" => status[c[1]] = "invalid"
  /\ \A c \in A!Chall : verdict[c] # "pending" => c \in answered
  /\ \A d \in A!Domain : authzr[d] \in {"valid", "invalid"} => status[d] = authzr[d]

\* An answered challenge was seen decided, or its domain is still to check.
Seen(c) == verdict[c] # "pending" \/ authzr[c[1]] # "pending"
Checking ==
  /\ apc = "poll" => \A c \in answered : Seen(c) \/ c[1] \in toCheck \ comp
  /\ apc = "cleanup" /\ why = "" => rounds = MaxRounds \/ \A c \in answered : Seen(c)

\* An authorization seen invalid ends the procedure, if all of them are needed and nobody
\* else spoils any.
Failing ==
  ~ Outsiders =>
    /\ \A d \in A!Domain :
         status[d] = "invalid" => \E c \in answered : c[1] = d /\ verdict[c] = "invalid"
    /\ ~ opts.best /\ (\E d \in A!Domain : authzr[d] = "invalid") =>
         (apc = "poll" /\ failed # {}) \/ why # ""

\* The names of the request are the domains authorized.
Naming ==
  /\ apc \in {"issue", "chain", "enroll"} =>
       /\ names # {} /\ names = {d \in A!Domain : authzr[d] = "valid"}
       /\ \A d \in A!Domain : authzr[d] \in {"valid", "invalid"}
  /\ ~ Outsiders /\ why = "enrolled" /\ ~ opts.best => names = A!Domain
  /\ why = "enrolled" => apc = "done"

AuthInv == AuthTypes /\ Choice /\ Exposure /\ Asking /\ Checking /\ Failing /\ Naming

-----------------------------------------------------------------------------
LEMMA AuthBegins == A!Init => AuthInv
<1> SUFFICES ASSUME A!Init PROVE AuthInv
  OBVIOUS
<1>1. /\ opts = [plugin |-> "webroot", best |-> FALSE, pref |-> <<>>]
      /\ offer = [d \in A!Domain |-> CHOOSE o \in A!Offers : o.combos = <<>>]
      /\ status = [d \in A!Domain |-> "pending"] /\ verdict = A!Undecided /\ answered = {}
      /\ authzr = [d \in A!Domain |-> "none"] /\ chosen = 0 /\ achalls = <<>> /\ asent = 0
      /\ update = [d \in A!Domain |-> {}] /\ exposed = {} /\ why = "" /\ apc = "start"
  BY DEF A!Init
<1>0. achalls = <<>> /\ chosen = 0
  BY <1>1
<1>2. offer \in [A!Domain -> A!Offers]
  <2>1. [types |-> <<"http">>, combos |-> <<>>] \in A!Offers
    BY DEF A!Offers
  <2>2. (CHOOSE o \in A!Offers : o.combos = <<>>) \in A!Offers
    BY <2>1
  <2>3. QED
    BY <1>1, <2>2
<1>3. AuthTypes
  <2>1. opts.plugin \in DOMAIN A!Pref
    BY <1>1 DEF A!Pref
  <2>2. /\ status \in [A!Domain -> A!Decision] /\ verdict \in [A!Chall -> A!Decision]
        /\ authzr \in [A!Domain -> A!Decision \cup {"none"}]
        /\ update \in [A!Domain -> SUBSET A!Chall]
    BY <1>1 DEF A!Decision, A!Undecided
  <2>3. achalls \in Seq(A!Chall) /\ chosen \in 0..NDomains
    BY <1>0, AuthorizationAssumption
  <2>4. QED
    BY <1>1, <1>2, <2>1, <2>2, <2>3 DEF AuthTypes, Working
<1>4. Choice
  <2>1. DOMAIN achalls = {}
    BY <1>0
  <2>2. QED
    BY <1>1, <2>1 DEF Choice, Working
<1>5. Exposure /\ Checking /\ Naming
  BY <1>1 DEF Exposure, Checking, Naming, Working
<1>6. Asking
  BY <1>1 DEF Asking, A!Undecided
<1>7. Failing
  BY <1>1 DEF Failing
<1>8. QED
  BY <1>3, <1>4, <1>5, <1>6, <1>7 DEF AuthInv

LEMMA AuthStarts == ASSUME AuthInv, A!Start PROVE AuthInv'
<1>1. /\ apc = "start" /\ apc' = "request" /\ offer' \in [A!Domain -> A!Offers]
      /\ opts'.plugin = "manual" => \A d \in A!Domain : offer'[d].combos # <<<<1, 2>>>>
      /\ \A d \in A!Domain : status'[d] \in {"valid", "pending"}
      /\ status' \in [A!Domain -> A!Decision] /\ opts'.plugin \in DOMAIN A!Pref
      /\ UNCHANGED <<authzr, chosen, achalls, asent, update, toCheck, comp, failed, rounds,
                     verdict, answered, exposed, owned, trouble, names, why>>
  BY DEF A!Start, A!handler, A!world, A!issue, A!Decision
<1>2. achalls = <<>> /\ DOMAIN achalls = {} /\ chosen = 0 /\ answered = {}
  BY <1>1 DEF AuthInv, Choice, Working, Asking
<1>3. AuthTypes'
  BY <1>1 DEF AuthInv, AuthTypes, Working
<1>4. Choice'
  BY <1>1, <1>2 DEF AuthInv, Choice, Working
<1>5. Exposure' /\ Checking' /\ Naming'
  BY <1>1 DEF AuthInv, AuthTypes, Exposure, Checking, Naming, Working
<1>6. \A d \in A!Domain : authzr[d] = "none"
  BY <1>1 DEF AuthInv, Asking
<1>7. \A c \in A!Chall : verdict[c] # "invalid"
  BY <1>1, <1>2 DEF AuthInv, Asking
<1>8. Asking'
  BY <1>1, <1>2, <1>6, <1>7 DEF AuthInv, Asking
<1>9. Failing'
  BY <1>1, <1>6 DEF Failing
<1>10. QED
  BY <1>3, <1>4, <1>5, <1>8, <1>9 DEF AuthInv

LEMMA AuthCardinality ==
  ASSUME NEW S
  PROVE  A!Cardinality(S) = Cardinality(S) /\ (A!IsFiniteSet(S) <=> IsFiniteSet(S))
BY DEF A!Cardinality, Cardinality, A!IsFiniteSet, IsFiniteSet

LEMMA TypesFinite == IsFiniteSet(A!Type)
<1>1. IsFiniteSet({"http"}) /\ IsFiniteSet({"sni"}) /\ IsFiniteSet({"dns"})
  BY FS_Singleton
<1>2. A!Type = ({"http"} \cup {"sni"}) \cup {"dns"}
  BY DEF A!Type
<1>3. QED
  BY <1>1, <1>2, FS_Union

\* Places in the order of preference are numbers, and a type out of the question
\* costs more than all others together.
LEMMA Costs ==
  ASSUME opts.plugin \in DOMAIN A!Pref
  PROVE  /\ A!MaxCost(A!Cardinality(A!Usable)) \in Nat \ {0}
         /\ \A t \in A!Usable : A!Cost(t) \in Nat
         /\ \A t : t \notin A!Usable => A!Cost(t) = A!MaxCost(A!Cardinality(A!Usable))
<1>1. A!Usable \subseteq A!Type
  <2>1. \A p \in DOMAIN A!Pref : A!ToSet(A!Pref[p]) \subseteq A!Type
    BY DEF A!Pref, A!Type, A!ToSet
  <2>2. QED
    BY <2>1 DEF A!Usable
<1>2. \A S \in SUBSET A!Usable : A!Cardinality(S) \in Nat
  BY <1>1, TypesFinite, FS_Subset, FS_CardinalityType, AuthCardinality
<1>3. \A n \in Nat : A!MaxCost(n) \in Nat \ {0}
  <2> SUFFICES ASSUME NEW n \in Nat PROVE A!MaxCost(n) \in Nat \ {0}
    OBVIOUS
  <2>1. n * (n - 1) \in Nat
    <3>1. CASE n = 0
      BY <3>1
    <3>2. CASE n # 0
      BY <3>2
    <3>3. QED
      BY <3>1, <3>2
  <2>2. \A m \in Nat : 1 + m \div 2 \in Nat \ {0}
    OBVIOUS
  <2>3. QED
    BY <2>1, <2>2 DEF A!MaxCost
<1>4. A!MaxCost(A!Cardinality(A!Usable)) \in Nat \ {0}
  BY <1>2, <1>3
<1>5. \A t \in A!Usable : A!Cost(t) \in Nat
  <2> SUFFICES ASSUME NEW t \in A!Usable PROVE A!Cost(t) \in Nat
    OBVIOUS
  <2>1. A!Cost(t) = A!Cardinality({u \in A!Usable : A!Index(u) < A!Index(t)})
    BY DEF A!Cost
  <2>2. QED
    BY <1>2, <2>1
<1>6. \A t : t \notin A!Usable => A!Cost(t) = A!MaxCost(A!Cardinality(A!Usable))
  BY DEF A!Cost
<1>7. QED
  BY <1>4, <1>5, <1>6

\* The challenges of a domain: the plugin can solve them, and they suffice.
IsPath(d, path) ==
  /\ path \in Seq(Nat) /\ Len(path) \in 1..2
  /\ \A i \in DOMAIN path : /\ path[i] \in DOMAIN offer[d].types
                            /\ offer[d].types[path[i]] \in A!Type
                            /\ offer[d].types[path[i]] \in A!Usable
  /\ offer[d].combos # <<<<1, 2>>>> => Len(path) = 1
  /\ Len(path) = 2 => offer[d].types[path[1]] # offer[d].types[path[2]]
  /\ \A S : (\A i \in DOMAIN path : <<d, offer[d].types[path[i]]>> \in S) => A!Suffices(d, S)

LEMMA Paths ==
  ASSUME AuthTypes, NEW d \in A!Domain, A!GenChallengePath(d) # A!NoPath
  PROVE  IsPath(d, A!GenChallengePath(d))
<1> DEFINE o == offer[d]
           M == A!MaxCost(A!Cardinality(A!Usable))
<1>1. /\ M \in Nat \ {0} /\ \A t \in A!Usable : A!Cost(t) \in Nat
      /\ \A t : t \notin A!Usable => A!Cost(t) = M
  BY Costs DEF AuthTypes
<1> HIDE DEF M
<1>2. CASE o = [types |-> <<"http", "dns", "sni">>, combos |-> <<<<1>>, <<2>>, <<3>>>>]
  <2>1. /\ DOMAIN o.combos = 1..3 /\ DOMAIN o.types = 1..3
        /\ \A k \in 1..3 : o.combos[k] = <<k>> /\ o.types[k] \in A!Type
    BY <1>2 DEF A!Type
  <2> DEFINE total == [k \in DOMAIN o.combos |-> A!Total(o.types, o.combos[k])]
             best == {k \in DOMAIN o.combos : /\ total[k] < M
                                              /\ \A l \in DOMAIN o.combos : total[k] <= total[l]}
             kk == CHOOSE k \in best : \A l \in best : k <= l
  <2>2. A!GenChallengePath(d) = IF best = {} THEN A!NoPath ELSE o.combos[kk]
    BY <1>2 DEF A!GenChallengePath, A!FindSmartPath, M
  <2>3. \A k \in 1..3 : total[k] = A!Cost(o.types[k])
    <3> SUFFICES ASSUME NEW k \in 1..3 PROVE total[k] = A!Cost(o.types[k])
      OBVIOUS
    <3>1. o.combos[k] = <<k>> /\ Len(<<k>>) = 1 /\ <<k>>[1] = k
      BY <2>1
    <3>2. A!Total(o.types, <<k>>) = A!Cost(o.types[k]) + 0
      BY <3>1 DEF A!Total
    <3>3. A!Cost(o.types[k]) \in Nat
      BY <1>1
    <3>4. total[k] = A!Total(o.types, <<k>>)
      BY <2>1, <3>1
    <3>5. QED
      BY <3>2, <3>3, <3>4
  <2>4. best \subseteq 1..3 /\ \A k \in best : total[k] < M
    BY <2>1
  <2>5. best # {} => kk \in best
    <3> HIDE DEF best
    <3>1. best # {} => \E k \in best : \A l \in best : k <= l
      <4>1. \A l \in best : l = 1 \/ l = 2 \/ l = 3
        BY <2>4
      <4>2. 1 \in best => \A l \in best : 1 <= l
        BY <4>1
      <4>3. 1 \notin best /\ 2 \in best => \A l \in best : 2 <= l
        BY <4>1
      <4>4. 1 \notin best /\ 2 \notin best => \A l \in best : 3 <= l /\ l = 3
        BY <4>1
      <4>5. QED
        BY <4>2, <4>3, <4>4
    <3>2. QED
      BY <3>1
  <2>6. best # {}
    BY <2>2
  <2> HIDE DEF best, kk
  <2>7. kk \in 1..3 /\ o.types[kk] \in A!Usable
    <3>1. kk \in 1..3 /\ total[kk] < M
      BY <2>4, <2>5, <2>6
    <3>2. QED
      BY <1>1, <2>3, <3>1
  <2>8. A!GenChallengePath(d) = <<kk>>
    BY <2>1, <2>2, <2>6, <2>7
  <2>9. \A S : <<d, o.types[kk]>> \in S => A!Suffices(d, S)
    <3> SUFFICES ASSUME NEW S, <<d, o.types[kk]>> \in S PROVE A!Suffices(d, S)
      OBVIOUS
    <3>1. A!ToSet(o.combos[kk]) = {kk}
      BY <2>1, <2>7 DEF A!ToSet
    <3>2. o.combos # <<>> /\ kk \in DOMAIN o.combos
      BY <1>2, <2>1, <2>7
    <3>3. QED
      BY <3>1, <3>2 DEF A!Suffices
  <2>10. /\ <<kk>> \in Seq(Nat) /\ Len(<<kk>>) = 1 /\ DOMAIN <<kk>> = {1} /\ <<kk>>[1] = kk
    BY <2>7
  <2>11. QED
    BY <2>1, <2>7, <2>8, <2>9, <2>10 DEF IsPath
<1>3. CASE o = [types |-> <<"sni", "http">>, combos |-> <<<<1, 2>>>>]
  <2>1. /\ DOMAIN o.combos = {1} /\ DOMAIN o.types = {1, 2} /\ o.combos[1] = <<1, 2>>
        /\ o.types[1] = "sni" /\ o.types[2] = "http"
    BY <1>3
  <2> DEFINE total == [k \in DOMAIN o.combos |-> A!Total(o.types, o.combos[k])]
             best == {k \in DOMAIN o.combos : /\ total[k] < M
                                              /\ \A l \in DOMAIN o.combos : total[k] <= total[l]}
             kk == CHOOSE k \in best : \A l \in best : k <= l
  <2>2. A!GenChallengePath(d) = IF best = {} THEN A!NoPath ELSE o.combos[kk]
    BY <1>3 DEF A!GenChallengePath, A!FindSmartPath, M
  <2>3. total[1] = A!Cost("sni") + A!Cost("http")
    <3>1. Len(<<1, 2>>) = 2 /\ <<1, 2>>[1] = 1 /\ <<1, 2>>[2] = 2
      OBVIOUS
    <3>2. QED
      BY <2>1, <3>1 DEF A!Total
  <2>4. best # {} => best = {1} /\ total[1] < M
    BY <2>1
  <2>5. best = {1} => kk = 1
    <3> HIDE DEF best
    <3>1. best = {1} => \A k \in best : k = 1 /\ \A l \in best : k <= l
      OBVIOUS
    <3>2. QED
      BY <3>1
  <2>6. A!GenChallengePath(d) = <<1, 2>> /\ total[1] < M
    BY <2>1, <2>2, <2>4, <2>5
  <2>7. "sni" \in A!Usable /\ "http" \in A!Usable
    <3> HIDE DEF total
    <3>1. A!Cost("sni") \in Nat /\ A!Cost("http") \in Nat
      BY <1>1
    <3>2. A!Cost("sni") # M /\ A!Cost("http") # M
      BY <1>1, <2>3, <2>6, <3>1
    <3>3. QED
      BY <1>1, <3>2
  <2>8. \A S : <<d, "sni">> \in S /\ <<d, "http">> \in S => A!Suffices(d, S)
    <3> SUFFICES ASSUME NEW S, <<d, "sni">> \in S, <<d, "http">> \in S PROVE A!Suffices(d, S)
      OBVIOUS
    <3>1. A!ToSet(o.combos[1]) = {1, 2} /\ o.combos # <<>> /\ 1 \in DOMAIN o.combos
      BY <1>3, <2>1 DEF A!ToSet
    <3>2. QED
      BY <2>1, <3>1 DEF A!Suffices
  <2>9. /\ <<1, 2>> \in Seq(Nat) /\ Len(<<1, 2>>) = 2 /\ DOMAIN <<1, 2>> = {1, 2}
        /\ <<1, 2>>[1] = 1 /\ <<1, 2>>[2] = 2
    OBVIOUS
  <2>10. o.combos = <<<<1, 2>>>>
    BY <1>3
  <2>11. QED
    BY <2>1, <2>6, <2>7, <2>8, <2>9, <2>10 DEF IsPath, A!Type
<1>4. CASE o = [types |-> <<"http">>, combos |-> <<>>]
  <2>1. DOMAIN o.types = {1} /\ o.types[1] = "http" /\ o.combos = <<>> /\ o.types = <<"http">>
    BY <1>4
  <2>2. A!ToSet(o.types) = {"http"}
    BY <2>1 DEF A!ToSet
  <2>3. A!GenChallengePath(d) = A!FindDumbPath(o.types)
    BY <2>1 DEF A!GenChallengePath
  <2>4. "http" \in A!Usable /\ A!GenChallengePath(d) = [i \in {1} |-> i]
    BY <2>1, <2>2, <2>3 DEF A!FindDumbPath
  <2>5. /\ [i \in {1} |-> i] = <<1>> /\ <<1>> \in Seq(Nat) /\ Len(<<1>>) = 1 /\ DOMAIN <<1>> = {1}
        /\ <<1>>[1] = 1
    OBVIOUS
  <2>6. \A S : <<d, "http">> \in S => A!Suffices(d, S)
    BY <2>1, <2>2 DEF A!Suffices
  <2>7. A!GenChallengePath(d) = <<1>> /\ "http" \in A!Type
    BY <2>4, <2>5 DEF A!Type
  <2>8. \A i \in DOMAIN <<1>> : <<1>>[i] = 1
    BY <2>5
  <2>9. \A i \in DOMAIN <<1>> : /\ <<1>>[i] \in DOMAIN o.types /\ o.types[<<1>>[i]] = "http"
    BY <2>1, <2>8
  <2>10. \A S : (\A i \in DOMAIN <<1>> : <<d, o.types[<<1>>[i]]>> \in S) => A!Suffices(d, S)
    <3>1. TAKE S
    <3>2. HAVE \A i \in DOMAIN <<1>> : <<d, o.types[<<1>>[i]]>> \in S
    <3>3. <<d, "http">> \in S
      BY <2>5, <2>9, <3>2
    <3>4. QED
      BY <2>6, <3>3
  <2> HIDE DEF o
  <2>11. <<1>> \in Seq(Nat) /\ Len(<<1>>) = 1 /\ Len(<<1>>) \in 1..2
    OBVIOUS
  <2>12. IsPath(d, <<1>>)
    BY <2>4, <2>7, <2>9, <2>10, <2>11 DEF IsPath, o
  <2>13. QED
    BY <2>7, <2>12
<1>5. QED
  BY <1>2, <1>3, <1>4 DEF AuthTypes, A!Offers

-----------------------------------------------------------------------------
LEMMA AuthRequests == ASSUME AuthInv, A!RequestChallenges PROVE AuthInv'
<1>1. /\ apc = "request" /\ why = ""
      /\ \/ authzr' = status /\ apc' = "choose" /\ why' = why
         \/ authzr' = authzr /\ why' = "request failed" /\ apc' = "done"
      /\ UNCHANGED <<opts, offer, chosen, achalls, asent, update, toCheck, comp, failed, rounds,
                     status, verdict, answered, exposed, owned, trouble, names>>
  <2>1. apc = "request" /\ UNCHANGED <<opts, offer, chosen, achalls, asent, update, toCheck, comp,
          failed, rounds, status, verdict, answered, exposed, owned, trouble, names>>
    BY DEF A!RequestChallenges, A!caVars, A!world, A!issue
  <2>2. why = ""
    BY <2>1 DEF AuthInv, AuthTypes, Working
  <2>3. QED
    BY <2>1, <2>2 DEF A!RequestChallenges, A!Fail
<1>2. achalls = <<>> /\ DOMAIN achalls = {} /\ chosen = 0 /\ answered = {}
  <2>1. achalls = <<>> /\ chosen = 0
    BY <1>1 DEF AuthInv, Choice, Working
  <2>2. answered = {}
    BY <1>1 DEF AuthInv, Asking
  <2>3. QED
    BY <2>1, <2>2
<1>3. AuthTypes'
  <2>1. authzr' \in [A!Domain -> A!Decision \cup {"none"}]
    BY <1>1 DEF AuthInv, AuthTypes
  <2>2. QED
    BY <1>1, <2>1 DEF AuthInv, AuthTypes, Working
<1>4. Choice'
  <2>1. \A d \in 1..chosen : FALSE
    BY <1>2
  <2>2. QED
    BY <1>1, <1>2, <2>1 DEF AuthInv, Choice, Working
<1>5. Exposure' /\ Checking' /\ Naming'
  BY <1>1 DEF AuthInv, AuthTypes, Exposure, Checking, Naming, Working
<1>6. Asking'
  BY <1>1, <1>2 DEF AuthInv, Asking, AuthTypes, A!Decision
<1>7. Failing'
  BY <1>1, <1>2 DEF AuthInv, Failing
<1>8. QED
  BY <1>3, <1>4, <1>5, <1>6, <1>7 DEF AuthInv

\* The loop over the domains adds a path for the next one.
LEMMA Extended ==
  ASSUME AuthInv, apc = "choose", chosen < NDomains, chosen' = chosen + 1,
         NEW path, path = A!GenChallengePath(chosen'), path # A!NoPath,
         achalls' = achalls \o A!ChallengeFactory(chosen', path), UNCHANGED <<opts, offer>>,
         apc' = "choose"
  PROVE  achalls' \in Seq(A!Chall) /\ Choice'
<1> DEFINE d == chosen + 1
           new == A!ChallengeFactory(d, path)
<1>1. /\ d \in A!Domain /\ d = chosen' /\ chosen \in 0..NDomains /\ chosen \in Nat
      /\ achalls \in Seq(A!Chall)
  <2>1. chosen \in 0..NDomains /\ achalls \in Seq(A!Chall)
    BY DEF AuthInv, AuthTypes
  <2>2. QED
    BY <2>1, AuthorizationAssumption DEF A!Domain
<1>2. IsPath(d, path)
  BY <1>1, Paths DEF AuthInv
<1>3. /\ new = [i \in DOMAIN path |-> <<d, offer[d].types[path[i]]>>]
      /\ DOMAIN path = 1..Len(path) /\ Len(path) \in 1..2 /\ path \in Seq(Nat)
      /\ \A i \in DOMAIN path : offer[d].types[path[i]] \in A!Type
  BY <1>2 DEF A!ChallengeFactory, IsPath
<1>4. /\ new \in Seq(A!Chall) /\ Len(new) = Len(path) /\ DOMAIN new = DOMAIN path
      /\ \A i \in DOMAIN path : new[i] = <<d, offer[d].types[path[i]]>>
  <2> DEFINE f == [i \in 1..Len(path) |-> <<d, offer[d].types[path[i]]>>]
  <2>1. \A i \in 1..Len(path) : <<d, offer[d].types[path[i]]>> \in A!Chall
    BY <1>1, <1>3 DEF A!Chall
  <2>2. f \in Seq(A!Chall) /\ Len(f) = Len(path) /\ DOMAIN f = 1..Len(path)
    BY <1>3, <2>1
  <2>3. new = f
    BY <1>3
  <2>4. QED
    BY <1>3, <2>2, <2>3
<1> HIDE DEF d, new
<1>5. /\ achalls' = achalls \o new /\ achalls' \in Seq(A!Chall)
      /\ DOMAIN achalls' = 1..(Len(achalls) + Len(new)) /\ DOMAIN achalls = 1..Len(achalls)
      /\ Len(achalls) \in Nat /\ Len(new) \in Nat
      /\ \A i \in DOMAIN achalls : achalls'[i] = achalls[i]
      /\ \A i \in 1..Len(new) : achalls'[Len(achalls) + i] = new[i]
  BY <1>1, <1>4 DEF d, new
<1>6. /\ \A i \in DOMAIN achalls' : i \notin DOMAIN achalls =>
           i - Len(achalls) \in DOMAIN path /\ achalls'[i] = new[i - Len(achalls)]
      /\ \A i \in DOMAIN path : Len(achalls) + i \in DOMAIN achalls'
                              /\ achalls'[Len(achalls) + i] = new[i]
  <2>1. \A i \in DOMAIN achalls' : i \notin DOMAIN achalls =>
          i - Len(achalls) \in 1..Len(new) /\ i = Len(achalls) + (i - Len(achalls))
    BY <1>5
  <2>2. 1..Len(new) = DOMAIN path
    BY <1>3, <1>4
  <2>3. ASSUME NEW i \in DOMAIN achalls', i \notin DOMAIN achalls
        PROVE  achalls'[i] = new[i - Len(achalls)]
    <3> DEFINE j == i - Len(achalls)
    <3>1. j \in 1..Len(new) /\ i = Len(achalls) + j
      BY <2>1, <2>3
    <3> HIDE DEF j
    <3>2. achalls'[Len(achalls) + j] = new[j]
      BY <1>5, <3>1
    <3>3. QED
      BY <3>1, <3>2 DEF j
  <2>4. \A i \in 1..Len(new) : Len(achalls) + i \in DOMAIN achalls'
    BY <1>5
  <2>5. QED
    BY <1>5, <2>1, <2>2, <2>3, <2>4
<1>7. A!Usable' = A!Usable
  BY DEF A!Usable, A!Order
<1>8. \A i \in DOMAIN achalls' : achalls'[i][1] <= chosen' /\ achalls'[i][2] \in A!Usable
  <2> SUFFICES ASSUME NEW i \in DOMAIN achalls'
               PROVE  achalls'[i][1] <= chosen' /\ achalls'[i][2] \in A!Usable
    OBVIOUS
  <2>1. CASE i \in DOMAIN achalls
    <3>1. achalls[i][1] <= chosen /\ achalls[i][2] \in A!Usable
      BY <2>1 DEF AuthInv, Choice, Working
    <3>2. achalls[i][1] \in Nat
      <4>1. achalls[i] \in A!Chall
        BY <1>1, <2>1
      <4>2. QED
        BY <4>1 DEF A!Chall, A!Domain
    <3>3. QED
      BY <1>1, <1>5, <2>1, <3>1, <3>2
  <2>2. CASE i \notin DOMAIN achalls
    <3> DEFINE j == i - Len(achalls)
    <3>1. j \in DOMAIN path /\ i = Len(achalls) + j
      BY <1>3, <1>4, <1>5, <1>6, <2>2
    <3>2. achalls'[i] = <<d, offer[d].types[path[j]]>>
      BY <1>4, <1>6, <2>2, <3>1
    <3>3. QED
      BY <1>1, <1>2, <3>1, <3>2 DEF IsPath, A!Domain
  <2>3. QED
    BY <2>1, <2>2
<1>9. \A e \in 1..chosen' : A!Suffices(e, Mine(e))'
  <2> SUFFICES ASSUME NEW e \in 1..chosen' PROVE A!Suffices(e, Mine(e))'
    OBVIOUS
  <2>1. \A S : A!Suffices(e, S)' <=> A!Suffices(e, S)
    BY DEF A!Suffices
  <2>2. CASE e = d
    <3>1. \A i \in DOMAIN path : <<d, offer[d].types[path[i]]>> \in Mine(e)'
      <4> SUFFICES ASSUME NEW i \in DOMAIN path
                   PROVE  <<d, offer[d].types[path[i]]>> \in Mine(e)'
        OBVIOUS
      <4>1. achalls'[Len(achalls) + i] = <<d, offer[d].types[path[i]]>>
            /\ Len(achalls) + i \in DOMAIN achalls'
        BY <1>4, <1>6
      <4>2. QED
        BY <2>2, <4>1 DEF Mine, A!ToSet
    <3>2. QED
      BY <1>2, <2>1, <2>2, <3>1 DEF IsPath
  <2>3. CASE e # d
    <3>1. e \in 1..chosen
      BY <1>1, <2>3
    <3>2. Mine(e)' = Mine(e)
      <4>1. Mine(e) \subseteq Mine(e)'
        BY <1>5 DEF Mine, A!ToSet
      <4>2. ASSUME NEW i \in DOMAIN achalls', achalls'[i][1] = e
            PROVE  achalls'[i] \in Mine(e)
        <5>1. CASE i \in DOMAIN achalls
          BY <1>5, <4>2, <5>1 DEF Mine, A!ToSet
        <5>2. CASE i \notin DOMAIN achalls
          <6> DEFINE j == i - Len(achalls)
          <6>1. j \in DOMAIN path /\ i = Len(achalls) + j
            BY <1>3, <1>4, <1>5, <1>6, <5>2
          <6>2. achalls'[i] = <<d, offer[d].types[path[j]]>>
            BY <1>4, <1>6, <5>2, <6>1
          <6>3. QED
            BY <2>3, <4>2, <6>2
        <5>3. QED
          BY <5>1, <5>2
      <4>3. QED
        BY <4>1, <4>2 DEF Mine, A!ToSet
    <3>3. A!Suffices(e, Mine(e))
      BY <3>1 DEF AuthInv, Choice, Working
    <3>4. QED
      BY <2>1, <3>2, <3>3
  <2>4. QED
    BY <2>2, <2>3
<1>10. ASSUME opts.plugin = "manual", NEW i \in DOMAIN achalls', NEW j \in DOMAIN achalls',
              achalls'[i][1] = achalls'[j][1]
       PROVE  i = j
  <2>1. Len(new) = 1
    <3>1. offer[d].combos # <<<<1, 2>>>>
      BY <1>1, <1>10 DEF AuthInv, Choice, Working
    <3>2. QED
      BY <1>2, <1>4, <3>1 DEF IsPath
  <2>2. \A k \in DOMAIN achalls' : IF k \in DOMAIN achalls THEN achalls'[k][1] # d
                                   ELSE k = Len(achalls) + 1 /\ achalls'[k][1] = d
    <3> SUFFICES ASSUME NEW k \in DOMAIN achalls'
                 PROVE  IF k \in DOMAIN achalls THEN achalls'[k][1] # d
                        ELSE k = Len(achalls) + 1 /\ achalls'[k][1] = d
      OBVIOUS
    <3>1. CASE k \in DOMAIN achalls
      <4>1. achalls[k][1] <= chosen /\ achalls[k] \in A!Chall
        BY <1>1, <3>1 DEF AuthInv, Choice, Working
      <4>2. achalls[k][1] \in Nat
        BY <4>1 DEF A!Chall, A!Domain
      <4>3. QED
        BY <1>1, <1>5, <3>1, <4>1, <4>2 DEF d
    <3>2. CASE k \notin DOMAIN achalls
      <4>1. k = Len(achalls) + 1
        BY <1>5, <2>1, <3>2
      <4>2. achalls'[k] = new[1] /\ 1 \in DOMAIN path
        <5>1. 1 \in DOMAIN path
          BY <1>3, <1>4, <2>1
        <5>2. QED
          BY <1>6, <4>1, <5>1
      <4>3. QED
        BY <1>4, <3>2, <4>1, <4>2
    <3>3. QED
      BY <3>1, <3>2
  <2>3. CASE i \in DOMAIN achalls /\ j \in DOMAIN achalls
    <3>1. achalls[i][1] = achalls[j][1]
      BY <1>5, <1>10, <2>3
    <3>2. QED
      BY <1>10, <2>3, <3>1 DEF AuthInv, Choice, Working
  <2>4. QED
    BY <1>10, <2>2, <2>3
<1>11. Choice'
  BY <1>7, <1>8, <1>9, <1>10 DEF AuthInv, Choice, Working
<1>12. QED
  BY <1>5, <1>11

LEMMA AuthChooses == ASSUME AuthInv, A!ChooseChallenges PROVE AuthInv'
<1>1. /\ apc = "choose" /\ why = ""
      /\ UNCHANGED <<opts, offer, authzr, asent, update, toCheck, comp, failed, rounds,
                     status, verdict, answered, exposed, owned, trouble, names>>
  <2>1. apc = "choose" /\ UNCHANGED <<opts, offer, authzr, asent, update, toCheck, comp, failed,
          rounds, status, verdict, answered, exposed, owned, trouble, names>>
    BY DEF A!ChooseChallenges, A!caVars, A!world, A!issue
  <2>2. why = ""
    BY <2>1 DEF AuthInv, AuthTypes, Working
  <2>3. QED
    BY <2>1, <2>2
<1>2. answered = {}
  BY <1>1 DEF AuthInv, Asking
<1>3. /\ chosen' \in 0..NDomains /\ achalls' \in Seq(A!Chall)
      /\ apc' \in {"choose", "more", "done"} /\ (why' = "" <=> apc' # "done")
      /\ why' \in {"", "no path"}
      /\ Choice'
  <2>1. CASE chosen = NDomains /\ apc' = "more" /\ UNCHANGED <<chosen, achalls, why>>
    <3>1. Choice'
      BY <1>1, <2>1 DEF AuthInv, Choice, Working, A!Usable, A!Order, A!Suffices, Mine
    <3>2. QED
      BY <1>1, <2>1, <3>1 DEF AuthInv, AuthTypes
  <2>2. CASE chosen < NDomains /\ chosen' = chosen + 1
    <3> DEFINE path == A!GenChallengePath(chosen')
    <3>0. chosen \in 0..NDomains
      BY DEF AuthInv, AuthTypes
    <3>1. chosen' \in 0..NDomains /\ chosen # NDomains
      BY <2>2, <3>0, AuthorizationAssumption
    <3>2. CASE A!Usable = {} \/ path = A!NoPath
      <4>1. why' = "no path" /\ apc' = "done" /\ achalls' = achalls
        BY <3>1, <3>2, <1>1 DEF A!ChooseChallenges, A!Fail
      <4>2. Choice'
        BY <1>1, <4>1 DEF AuthInv, Choice, Working
      <4>3. QED
        BY <3>1, <4>1, <4>2 DEF AuthInv, AuthTypes
    <3>3. CASE ~ (A!Usable = {} \/ path = A!NoPath)
      <4>1. /\ achalls' = achalls \o A!ChallengeFactory(chosen', path) /\ apc' = "choose"
            /\ why' = why
        BY <1>1, <3>1, <3>3 DEF A!ChooseChallenges
      <4>2. achalls' \in Seq(A!Chall) /\ Choice'
        BY <1>1, <2>2, <3>3, <4>1, Extended
      <4>3. QED
        BY <1>1, <3>1, <4>1, <4>2
    <3>4. QED
      BY <3>2, <3>3
  <2>3. QED
    BY <1>1, <2>1, <2>2 DEF A!ChooseChallenges
<1>4. AuthTypes'
  BY <1>1, <1>3 DEF AuthInv, AuthTypes, Working
<1>5. Exposure'
  BY <1>1, <1>3 DEF AuthInv, Exposure, Working
<1>6. Checking'
  BY <1>1, <1>3 DEF Checking
<1>7. Naming'
  BY <1>1, <1>3 DEF AuthInv, Naming
<1>8. Asking'
  BY <1>1, <1>2, <1>3 DEF AuthInv, Asking
<1>9. Failing'
  BY <1>1, <1>3 DEF AuthInv, Failing
<1>10. QED
  BY <1>3, <1>4, <1>5, <1>6, <1>7, <1>8, <1>9 DEF AuthInv

LEMMA AuthGoesOn == ASSUME AuthInv, A!More PROVE AuthInv'
<1>1. /\ apc = "more" /\ apc' = IF achalls = <<>> THEN "verify" ELSE "solve"
      /\ UNCHANGED <<opts, offer, chosen, achalls, authzr, asent, update, toCheck, comp, failed,
                     rounds, status, verdict, answered, exposed, owned, trouble, names, why>>
  BY DEF A!More, A!handler, A!caVars, A!world, A!issue
<1>2. AuthTypes'
  BY <1>1 DEF AuthInv, AuthTypes, Working
<1>3. Choice'
  BY <1>1 DEF AuthInv, Choice, Working, A!Usable, A!Order, A!Suffices, Mine
<1>4. Exposure' /\ Checking' /\ Naming'
  BY <1>1 DEF AuthInv, Exposure, Checking, Naming, Working
<1>5. Asking'
  <2>1. CASE achalls = <<>>
    BY <1>1, <2>1 DEF AuthInv, Asking
  <2>2. CASE achalls # <<>>
    BY <1>1, <2>2 DEF AuthInv, Asking
  <2>3. QED
    BY <2>1, <2>2
<1>6. Failing'
  BY <1>1 DEF AuthInv, Failing
<1>7. QED
  BY <1>2, <1>3, <1>4, <1>5, <1>6 DEF AuthInv

-----------------------------------------------------------------------------
\* What a perform can leave behind.
LEMMA Performed ==
  ASSUME AuthTypes, achalls # <<>>, NEW r \in A!PerformResults
  PROVE  /\ \E k \in 0..Len(achalls) : r.exposed = A!First(k)
         /\ r.owned = {} => r.exposed = {}
         /\ opts.plugin = "manual" => r.owned = r.exposed
<1>1. Len(achalls) \in Nat \ {0} /\ DOMAIN achalls = 1..Len(achalls)
  <2>1. achalls \in Seq(A!Chall)
    BY DEF AuthTypes
  <2>2. QED
    BY <2>1
<1>2. A!First(0) = {} /\ A!First(Len(achalls)) = A!All /\ A!All # {}
  <2>1. 1..0 = {} /\ 1 \in 1..Len(achalls)
    BY <1>1
  <2>2. QED
    BY <1>1, <2>1 DEF A!First, A!All, A!ToSet
<1>3. 0 \in 0..Len(achalls) /\ Len(achalls) \in 0..Len(achalls)
  BY <1>1
<1>4. opts.plugin \in {"standalone", "webroot", "manual", "dns", "nginx", "other"}
  BY DEF AuthTypes, A!Pref
<1>5. CASE opts.plugin \in {"standalone", "manual"}
  <2>1. \E k \in 0..Len(achalls) : r = A!Result(A!First(k), A!First(k), A!Done(k))
    BY <1>5 DEF A!PerformResults, A!StandalonePerform, A!ManualPerform
  <2>2. QED
    BY <2>1 DEF A!Result
<1>6. CASE opts.plugin \in {"webroot", "dns", "other"}
  <2>1. \/ r = A!Result({}, {}, FALSE)
        \/ \E k \in 0..Len(achalls) : r = A!Result(A!First(k), A!All, A!Done(k))
    BY <1>6 DEF A!PerformResults, A!WebrootPerform, A!DnsPerform, A!OtherPerform
  <2>2. CASE r = A!Result({}, {}, FALSE)
    <3>1. r.exposed = {} /\ r.owned = {}
      BY <2>2 DEF A!Result
    <3>2. QED
      BY <1>2, <1>3, <1>6, <3>1
  <2>3. ASSUME NEW k \in 0..Len(achalls), r = A!Result(A!First(k), A!All, A!Done(k))
        PROVE  r.exposed = A!First(k) /\ r.owned # {}
    BY <1>2, <2>3 DEF A!Result
  <2>4. QED
    BY <1>6, <2>1, <2>2, <2>3
<1>7. CASE opts.plugin = "nginx"
  <2>1. r \in {A!Result({}, A!All, FALSE), A!Result(A!All, A!All, FALSE), A!Result(A!All, A!All, TRUE)}
    BY <1>7 DEF A!PerformResults, A!NginxPerform
  <2>2. QED
    BY <1>2, <1>3, <1>7, <2>1 DEF A!Result
<1>8. QED
  BY <1>4, <1>5, <1>6, <1>7

\* What the clean-up of all challenges leaves: nothing, or the provider or the
\* server was in trouble.
LEMMA Cleaned ==
  ASSUME AuthTypes, Choice, Exposure, apc \in Working, NEW r \in A!CleanupResults(achalls)
  PROVE  r.exposed = {} \/ A!Excuse(r) # {}
<1>1. Len(achalls) \in Nat /\ DOMAIN achalls = 1..Len(achalls)
  <2>1. achalls \in Seq(A!Chall)
    BY DEF AuthTypes
  <2>2. QED
    BY <2>1
<1>2. PICK k \in 0..Len(achalls) : exposed = A!First(k)
  BY DEF Exposure
<1>3. exposed \subseteq A!ToSet(achalls) /\ \A i \in 1..k : i \in DOMAIN achalls /\ achalls[i] \in exposed
  BY <1>1, <1>2 DEF A!First, A!ToSet
<1>4. opts.plugin \in {"standalone", "webroot", "manual", "dns", "nginx", "other"}
  BY DEF AuthTypes, A!Pref
\* A loop that meets nothing bad among the exposed ones takes all of them down.
<1>5. ASSUME NEW bad, \A i \in 1..k : ~ bad[i], r \in A!UpTo(achalls, bad)
      PROVE  r.exposed = {}
  <2> DEFINE gone == {achalls[i] : i \in {j \in DOMAIN achalls : \A l \in 1..j : ~ bad[l]}}
  <2>1. \A i \in 1..k : achalls[i] \in gone
    <3> SUFFICES ASSUME NEW i \in 1..k PROVE achalls[i] \in gone
      OBVIOUS
    <3>1. \A l \in 1..i : l \in 1..k
      BY <1>1
    <3>2. QED
      BY <1>3, <1>5, <3>1
  <2>2. exposed \ gone = {}
    BY <1>2, <2>1 DEF A!First
  <2>3. r.exposed = exposed \ gone
    BY <1>5 DEF A!UpTo, A!Result
  <2>4. QED
    BY <2>2, <2>3
<1>6. CASE opts.plugin \in {"standalone", "other"}
  <2>1. r.exposed = exposed \ A!ToSet(achalls)
    BY <1>6 DEF A!CleanupResults, A!StandaloneCleanup, A!OtherCleanup, A!Result
  <2>2. QED
    BY <1>3, <2>1
<1>7. CASE opts.plugin = "webroot"
  <2>1. CASE owned = {}
    <3>1. r.exposed = exposed
      BY <1>7, <2>1 DEF A!CleanupResults, A!WebrootCleanup, A!Result
    <3>2. QED
      BY <2>1, <3>1 DEF Exposure
  <2>2. CASE owned # {}
    <3> DEFINE bad == [i \in DOMAIN achalls |-> achalls[i] \notin exposed]
    <3>1. r \in A!UpTo(achalls, bad)
      BY <1>7, <2>2 DEF A!CleanupResults, A!WebrootCleanup
    <3>2. \A i \in 1..k : ~ bad[i]
      BY <1>3
    <3>3. QED
      BY <1>5, <3>1, <3>2
  <2>3. QED
    BY <2>1, <2>2
<1>8. CASE opts.plugin = "manual"
  <2> DEFINE bad == [i \in DOMAIN achalls |->
                       \/ \A c \in owned : c[1] # achalls[i][1]
                       \/ \E j \in 1..(i - 1) : achalls[j][1] = achalls[i][1]]
  <2>1. r \in A!UpTo(achalls, bad)
    BY <1>8 DEF A!CleanupResults, A!ManualCleanup
  <2>2. owned = exposed
    BY <1>8 DEF Exposure
  <2>3. ASSUME NEW i \in 1..k
        PROVE  ~ bad[i]
    <3>1. achalls[i] \in owned /\ i \in DOMAIN achalls
      BY <1>3, <2>2, <2>3
    <3>2. \A j \in 1..(i - 1) : j \in DOMAIN achalls /\ j # i
      BY <1>1, <3>1
    <3>3. \A j \in 1..(i - 1) : achalls[j][1] # achalls[i][1]
      BY <1>8, <3>1, <3>2 DEF Choice, Working
    <3>4. QED
      BY <3>1, <3>3
  <2>4. QED
    BY <1>5, <2>1, <2>3
<1>9. CASE opts.plugin = "dns"
  BY <1>9 DEF A!Excuse
<1>10. CASE opts.plugin = "nginx"
  BY <1>10 DEF A!Excuse
<1>11. QED
  BY <1>4, <1>6, <1>7, <1>8, <1>9, <1>10

LEMMA AuthSolves == ASSUME AuthInv, A!SolveChallenges PROVE AuthInv'
<1>1. /\ apc = "solve" /\ asent' = 0 /\ update' = [d \in A!Domain |-> {}]
      /\ UNCHANGED <<opts, offer, chosen, achalls, authzr, toCheck, comp, failed,
                     rounds, status, verdict, answered, trouble, names>>
  BY DEF A!SolveChallenges, A!caVars, A!issue
<1>2. PICK r \in A!PerformResults :
        /\ exposed' = r.exposed /\ owned' = r.owned
        /\ \/ apc' = "send" /\ why' = why
           \/ apc' = "undo" /\ why' = "perform failed"
  BY DEF A!SolveChallenges
<1>3. achalls # <<>> /\ answered = {} /\ why = ""
  <2>1. achalls # <<>>
    BY <1>1 DEF AuthInv, Exposure
  <2>2. answered = {}
    BY <1>1 DEF AuthInv, Asking
  <2>3. why = ""
    BY <1>1 DEF AuthInv, AuthTypes, Working
  <2>4. QED
    BY <2>1, <2>2, <2>3
<1>4. AuthTypes'
  <2>1. achalls \in Seq(A!Chall)
    BY DEF AuthInv, AuthTypes
  <2>2. Len(achalls) \in Nat
    BY <2>1
  <2>3. asent' \in Nat /\ asent' <= Len(achalls')
    BY <1>1, <2>2
  <2>4. QED
    BY <1>1, <1>2, <1>3, <2>1, <2>3 DEF AuthInv, AuthTypes, Working
<1>5. Choice'
  BY <1>1, <1>2 DEF AuthInv, Choice, Working, A!Usable, A!Order
<1>6. Exposure'
  <2>1. /\ \E k \in 0..Len(achalls) : r.exposed = A!First(k)
        /\ r.owned = {} => r.exposed = {}
        /\ opts.plugin = "manual" => r.owned = r.exposed
    BY <1>3, Performed DEF AuthInv
  <2>2. \A k : A!First(k)' = A!First(k)
    BY <1>1 DEF A!First
  <2>3. QED
    BY <1>1, <1>2, <1>3, <2>1, <2>2 DEF Exposure, Working
<1>7. Asking'
  BY <1>1, <1>2, <1>3 DEF AuthInv, Asking
<1>8. Checking' /\ Naming'
  BY <1>1, <1>2 DEF AuthInv, Checking, Naming
<1>9. Failing'
  BY <1>1, <1>2, <1>3 DEF AuthInv, Failing
<1>10. QED
  BY <1>4, <1>5, <1>6, <1>7, <1>8, <1>9 DEF AuthInv

LEMMA Remaining == ASSUME AuthTypes, NEW b \in BOOLEAN PROVE A!Removed(b) \in Seq(A!Chall)
<1>1. achalls \in Seq(A!Chall)
  BY DEF AuthTypes
<1>2. Len(achalls) \in Nat /\ Len(achalls) \div 2 \in Nat
  BY <1>1
<1>3. \A n \in Nat : \A i \in 1..(n \div 2) : 2 * i \in 1..n
  OBVIOUS
<1>4. \A i \in 1..(Len(achalls) \div 2) : achalls[2 * i] \in A!Chall
  BY <1>1, <1>2, <1>3
<1>5. [i \in 1..(Len(achalls) \div 2) |-> achalls[2 * i]] \in Seq(A!Chall)
  BY <1>2, <1>4
<1>6. QED
  BY <1>5 DEF A!Removed

LEMMA AuthUndoes == ASSUME AuthInv, A!UndoPerform PROVE AuthInv'
<1>1. /\ apc = "undo" /\ apc' = "done"
      /\ UNCHANGED <<opts, offer, chosen, authzr, asent, update, toCheck, comp, failed,
                     rounds, status, verdict, answered, names, why>>
  BY DEF A!UndoPerform, A!caVars, A!issue
<1>2. PICK r \in A!CleanupResults(achalls) : A!CleanupChallenges(TRUE, r)
  BY DEF A!UndoPerform
<1>3. exposed' = r.exposed /\ trouble' = trouble \cup A!Excuse(r)
  BY <1>2 DEF A!CleanupChallenges
<1>4. achalls' \in Seq(A!Chall)
  <2>1. achalls' \in {A!Removed(TRUE), achalls}
    BY <1>2 DEF A!CleanupChallenges
  <2>2. QED
    BY <2>1, Remaining DEF AuthInv, AuthTypes
<1>5. AuthTypes'
  BY <1>1, <1>4 DEF AuthInv, AuthTypes, Working, Exposure, Choice
<1>6. Choice'
  BY <1>1 DEF AuthInv, Choice, Working
<1>7. Exposure'
  <2>1. r.exposed = {} \/ A!Excuse(r) # {}
    BY <1>1, Cleaned DEF AuthInv, Working
  <2>2. QED
    BY <1>1, <1>3, <2>1 DEF Exposure, Working
<1>8. Asking' /\ Checking' /\ Naming'
  BY <1>1 DEF AuthInv, Asking, Checking, Naming
<1>9. Failing'
  BY <1>1 DEF AuthInv, Failing
<1>10. QED
  BY <1>5, <1>6, <1>7, <1>8, <1>9 DEF AuthInv

LEMMA AuthCleansUp == ASSUME AuthInv, A!CleanUp PROVE AuthInv'
<1>1. /\ apc = "cleanup" /\ apc' = (IF why' = "" THEN "more" ELSE "done")
      /\ UNCHANGED <<opts, offer, chosen, authzr, asent, update, toCheck, comp, failed,
                     rounds, status, verdict, answered, names>>
  BY DEF A!CleanUp, A!caVars, A!issue
<1>2. achalls # <<>>
  BY <1>1 DEF AuthInv, Exposure, Working
<1>3. PICK r \in A!CleanupResults(achalls) :
        A!CleanupChallenges(FALSE, r) /\ why' = IF r.ok THEN why ELSE "cleanup failed"
  BY <1>2 DEF A!CleanUp
<1>4. exposed' = r.exposed /\ trouble' = trouble \cup A!Excuse(r)
  BY <1>3 DEF A!CleanupChallenges
<1>5. achalls' \in {<<>>, achalls} /\ (why' = "" => achalls' = <<>> /\ why = "")
  BY <1>3 DEF A!CleanupChallenges, A!Removed
<1>6. why' \in {why, "cleanup failed"} /\ (why' = "" <=> apc' = "more") /\ apc' \in {"more", "done"}
  BY <1>1, <1>3
<1>7. AuthTypes'
  <2>0. <<>> \in Seq(A!Chall)
    OBVIOUS
  <2>1. achalls' \in Seq(A!Chall)
    BY <1>5, <2>0 DEF AuthInv, AuthTypes
  <2>2. QED
    BY <1>1, <1>6, <2>1 DEF AuthInv, AuthTypes, Working
<1>8. Choice'
  <2>1. achalls' = <<>> => DOMAIN achalls' = {}
    OBVIOUS
  <2>2. CASE apc' = "more"
    <3>1. achalls' = <<>> /\ DOMAIN achalls' = {}
      BY <1>5, <1>6, <2>1, <2>2
    <3>2. QED
      BY <1>1, <2>2, <3>1 DEF AuthInv, Choice, Working
  <2>3. CASE apc' = "done"
    BY <1>1, <2>3 DEF AuthInv, Choice, Working
  <2>4. QED
    BY <1>6, <2>2, <2>3
<1>9. Exposure'
  <2>1. r.exposed = {} \/ A!Excuse(r) # {}
    BY <1>1, Cleaned DEF AuthInv, Working
  <2>2. QED
    BY <1>6, <1>4, <2>1 DEF Exposure, Working
<1>10. Asking'
  BY <1>1, <1>5, <1>6 DEF AuthInv, Asking
<1>11. Checking' /\ Naming'
  BY <1>1, <1>6 DEF AuthInv, Checking, Naming
<1>12. Failing'
  BY <1>1, <1>5, <1>6 DEF AuthInv, Failing
<1>13. QED
  BY <1>7, <1>8, <1>9, <1>10, <1>11, <1>12 DEF AuthInv

\* The challenges are answered one by one; the plugin may have none for some.
LEMMA AuthSends == ASSUME AuthInv, A!SendResponse PROVE AuthInv'
<1> DEFINE c == achalls[asent + 1]
<1>1. /\ apc = "send" /\ asent < Len(achalls)
      /\ UNCHANGED <<opts, offer, chosen, achalls, authzr, toCheck, comp, failed, rounds,
                     status, verdict, exposed, owned, names>>
  BY DEF A!SendResponse, A!issue
<1>2. why = "" /\ asent \in Nat /\ Len(achalls) \in Nat /\ achalls \in Seq(A!Chall)
  <2>1. achalls \in Seq(A!Chall)
    BY DEF AuthInv, AuthTypes
  <2>2. Len(achalls) \in Nat
    BY <2>1
  <2>3. why = "" /\ asent \in Nat
    BY <1>1 DEF AuthInv, AuthTypes, Working
  <2>4. QED
    BY <2>1, <2>2, <2>3
<1>3. c \in A!Chall /\ c[1] \in A!Domain
  <2>0. asent \in Nat /\ Len(achalls) \in Nat /\ asent < Len(achalls)
    BY <1>1, <1>2
  <2>1. asent + 1 \in 1..Len(achalls)
    BY <2>0
  <2>2. achalls \in Seq(A!Chall)
    BY <1>2
  <2>3. c \in A!Chall
    BY <2>1, <2>2
  <2>4. QED
    BY <2>3 DEF A!Chall
<1>4. \/ /\ apc' = "send" /\ why' = why /\ asent' = asent + 1 /\ trouble' = trouble
         /\ \/ answered' = answered \cup {c} /\ update' = [update EXCEPT ![c[1]] = @ \cup {c}]
            \/ answered' = answered /\ update' = update
      \/ /\ apc' = "done" /\ why' = "answer failed" /\ trouble' = trouble \cup {"send"}
         /\ asent' = asent /\ answered' = answered /\ update' = update
  BY <1>1 DEF A!SendResponse, A!Fail
<1> HIDE DEF c
<1>5. /\ update' \in [A!Domain -> SUBSET A!Chall] /\ answered' \subseteq A!Chall
      /\ \A d \in A!Domain : update[d] \subseteq update'[d] /\ \A e \in update'[d] : e[1] = d
      /\ \A e \in answered' : e \in answered \/ e \in update'[e[1]]
      /\ answered \subseteq answered'
  <2>1. /\ update \in [A!Domain -> SUBSET A!Chall] /\ answered \subseteq A!Chall
        /\ \A d \in A!Domain : \A e \in update[d] : e[1] = d
    BY DEF AuthInv, AuthTypes, Asking
  <2>2. CASE answered' = answered \cup {c} /\ update' = [update EXCEPT ![c[1]] = @ \cup {c}]
    <3>1. update'[c[1]] = update[c[1]] \cup {c} /\ \A d \in A!Domain : d # c[1] => update'[d] = update[d]
      BY <1>3, <2>1, <2>2
    <3>2. update' \in [A!Domain -> SUBSET A!Chall] /\ answered' \subseteq A!Chall
      BY <1>3, <2>1, <2>2
    <3>3. QED
      BY <1>3, <2>1, <2>2, <3>1, <3>2
  <2>3. CASE answered' = answered /\ update' = update
    BY <2>1, <2>3
  <2>4. QED
    BY <1>4, <2>2, <2>3
<1>6. AuthTypes'
  <2>1. asent' \in Nat /\ (apc' = "send" => asent' <= Len(achalls'))
    <3>1. asent' \in {asent, asent + 1} /\ Len(achalls') = Len(achalls)
      BY <1>1, <1>4
    <3>2. asent \in Nat /\ Len(achalls) \in Nat /\ asent < Len(achalls)
      BY <1>1, <1>2
    <3> HIDE DEF c
    <3>3. QED
      BY <3>1, <3>2
  <2>2. apc' \in {"send", "done"} /\ (why' = "" <=> apc' = "send")
    BY <1>2, <1>4
  <2>3. QED
    BY <1>1, <1>5, <2>1, <2>2 DEF AuthInv, AuthTypes, Working
<1>7. Choice'
  BY <1>1, <1>4 DEF AuthInv, Choice, Working, A!Usable, A!Order
<1>8. Exposure'
  <2>1. \A k : A!First(k)' = A!First(k)
    BY <1>1 DEF A!First
  <2>2. CASE apc' = "send"
    BY <1>1, <2>1, <2>2 DEF AuthInv, Exposure, Working
  <2>3. CASE apc' = "done"
    BY <1>4, <2>3 DEF Exposure, Working
  <2>4. QED
    BY <1>4, <2>2, <2>3
<1>9. Asking'
  <2>1. apc' \in {"send", "done"}
    BY <1>4
  <2>2. \A e \in answered' : e \in update'[e[1]] \/ verdict[e] = "valid"
    <3> SUFFICES ASSUME NEW e \in answered', e \notin update'[e[1]] PROVE verdict[e] = "valid"
      OBVIOUS
    <3>1. e \in answered /\ e[1] \in A!Domain
      BY <1>5 DEF A!Chall
    <3>2. e \notin update[e[1]]
      BY <1>5, <3>1
    <3>3. QED
      BY <3>1, <3>2 DEF AuthInv, Asking
  <2>3. \A e \in A!Chall : verdict[e] # "pending" => e \in answered'
    BY <1>5 DEF AuthInv, Asking
  <2>4. QED
    BY <1>1, <1>5, <2>1, <2>2, <2>3 DEF AuthInv, Asking
<1>10. Checking' /\ Naming'
  BY <1>1, <1>2, <1>4 DEF AuthInv, Checking, Naming
<1>11. Failing'
  <2>1. why' = why \/ why' # ""
    BY <1>4
  <2>2. answered \subseteq answered'
    BY <1>5
  <2>3. QED
    BY <1>1, <1>2, <2>1, <2>2 DEF AuthInv, Failing
<1>12. QED
  BY <1>6, <1>7, <1>8, <1>9, <1>10, <1>11 DEF AuthInv

\* Exposure and choice stay when nothing of them is touched.
LEMMA Untouched ==
  ASSUME AuthInv, apc \in Working, apc' \in Working,
         UNCHANGED <<opts, offer, chosen, achalls, exposed, owned, trouble>>
  PROVE  Choice' /\ Exposure'
<1>1. Choice'
  BY DEF AuthInv, Choice, Working, A!Usable, A!Order
<1>2. \A k : A!First(k)' = A!First(k)
  BY DEF A!First
<1>3. Exposure'
  BY <1>2 DEF AuthInv, Exposure, Working
<1>4. QED
  BY <1>1, <1>3

LEMMA AuthStartsPolling == ASSUME AuthInv, A!StartPolling PROVE AuthInv'
<1>1. /\ apc = "send" /\ toCheck' = {d \in A!Domain : update[d] # {}} /\ comp' = {} /\ failed' = {}
      /\ apc' = IF toCheck' = {} THEN "cleanup" ELSE "poll"
      /\ UNCHANGED <<opts, offer, chosen, achalls, authzr, asent, update, why,
                     status, verdict, answered, exposed, owned, trouble, names>>
  BY DEF A!StartPolling, A!caVars, A!world, A!issue
<1>2. why = "" /\ apc' \in {"cleanup", "poll"}
  BY <1>1 DEF AuthInv, AuthTypes, Working
<1>3. AuthTypes'
  BY <1>1, <1>2 DEF AuthInv, AuthTypes, Working
<1>4. Choice' /\ Exposure'
  BY <1>1, <1>2, Untouched DEF Working
<1>5. Asking'
  BY <1>1, <1>2 DEF AuthInv, Asking
<1>6. Checking'
  <2>1. \A c \in answered : c[1] \in A!Domain
    BY DEF AuthInv, AuthTypes, A!Chall
  <2>2. \A c \in answered : verdict[c] # "pending" \/ c[1] \in toCheck'
    BY <1>1, <2>1 DEF AuthInv, Asking
  <2>3. QED
    BY <1>1, <2>2 DEF Checking, Seen
<1>7. Failing'
  BY <1>1, <1>2 DEF AuthInv, Failing
<1>8. Naming'
  BY <1>1, <1>2 DEF AuthInv, Naming
<1>9. QED
  BY <1>3, <1>4, <1>5, <1>6, <1>7, <1>8 DEF AuthInv

LEMMA AuthPolls == ASSUME AuthInv, NEW d \in A!Domain, A!PollDomain(d) PROVE AuthInv'
<1>1. /\ apc = "poll" /\ apc' = "poll" /\ authzr' = [authzr EXCEPT ![d] = status[d]]
      /\ UNCHANGED <<opts, offer, chosen, achalls, asent, toCheck, rounds, why,
                     status, verdict, answered, exposed, owned, trouble, names>>
  BY DEF A!PollDomain, A!caVars, A!world, A!issue
<1>2. why = "" /\ status[d] \in A!Decision /\ authzr \in [A!Domain -> A!Decision \cup {"none"}]
      /\ update \in [A!Domain -> SUBSET A!Chall]
  BY <1>1 DEF AuthInv, AuthTypes, Working
<1>3. authzr'[d] = status[d] /\ \A e \in A!Domain : e # d => authzr'[e] = authzr[e]
  BY <1>1, <1>2
<1>4. \/ A!Completed(d) = update[d] /\ comp' = comp \cup {d} /\ UNCHANGED <<update, failed>>
      \/ /\ A!Completed(d) # update[d] /\ A!Spoiled(d) = {}
         /\ update' = [update EXCEPT ![d] = @ \ A!Completed(d)] /\ UNCHANGED <<comp, failed>>
      \/ A!Spoiled(d) # {} /\ opts.best /\ comp' = comp \cup {d} /\ UNCHANGED <<update, failed>>
      \/ A!Spoiled(d) # {} /\ failed' = failed \cup A!Spoiled(d) /\ UNCHANGED <<update, comp>>
  BY DEF A!PollDomain
<1>5. /\ status[d] = "valid" => A!Completed(d) = update[d]
      /\ status[d] # "valid" => \A c \in A!Completed(d) : verdict[c] = "valid"
      /\ \A c \in A!Spoiled(d) : c \in update[d] /\ verdict[c] = "invalid"
  BY DEF A!Completed, A!Spoiled
\* An authorization decided is seen so; one seen decided stays.
<1>6. \A c \in A!Chall : Seen(c) => Seen(c)'
  <2> SUFFICES ASSUME NEW c \in A!Chall, Seen(c), verdict[c] = "pending" PROVE authzr'[c[1]] # "pending"
    BY <1>1 DEF Seen
  <2>1. c[1] \in A!Domain /\ authzr[c[1]] # "none" /\ authzr[c[1]] # "pending"
    BY <1>1 DEF A!Chall, AuthInv, Asking, Seen
  <2>2. authzr[c[1]] \in {"valid", "invalid"}
    BY <1>2, <2>1 DEF A!Decision
  <2>3. status[c[1]] = authzr[c[1]]
    BY <2>1, <2>2 DEF AuthInv, Asking
  <2>4. QED
    BY <1>3, <2>1, <2>3
<1>7. \A c \in A!Spoiled(d) : status[d] = "invalid"
  <2> SUFFICES ASSUME NEW c \in A!Spoiled(d) PROVE status[d] = "invalid"
    OBVIOUS
  <2>1. c \in update[d] /\ verdict[c] = "invalid" /\ c \in A!Chall
    BY <1>2, <1>5
  <2>2. c[1] = d
    BY <2>1 DEF AuthInv, Asking
  <2>3. QED
    BY <2>1, <2>2 DEF AuthInv, Asking
<1>8. /\ update' \in [A!Domain -> SUBSET A!Chall]
      /\ \A e \in A!Domain : update'[e] \subseteq update[e]
      /\ \A e \in A!Domain : \A c \in update[e] : c \in update'[e] \/ verdict[c] = "valid"
  <2>1. CASE update' = update
    BY <1>2, <2>1
  <2>2. CASE /\ A!Completed(d) # update[d]
             /\ update' = [update EXCEPT ![d] = @ \ A!Completed(d)]
    <3>1. update'[d] = update[d] \ A!Completed(d) /\ \A e \in A!Domain : e # d => update'[e] = update[e]
      BY <1>2, <2>2
    <3>2. update' \in [A!Domain -> SUBSET A!Chall]
      BY <1>2, <2>2
    <3>3. QED
      BY <1>5, <2>2, <3>1, <3>2
  <2>3. QED
    BY <1>4, <2>1, <2>2
<1>9. AuthTypes'
  <2>1. authzr' \in [A!Domain -> A!Decision \cup {"none"}]
    BY <1>1, <1>2
  <2>2. QED
    BY <1>1, <1>8, <2>1 DEF AuthInv, AuthTypes, Working
<1>10. Choice' /\ Exposure'
  BY <1>1, Untouched DEF Working
<1>11. Asking'
  <2>1. \A e \in A!Domain : authzr'[e] # "none"
    BY <1>1, <1>2, <1>3 DEF AuthInv, Asking, A!Decision
  <2>2. \A c \in answered : c \in update'[c[1]] \/ verdict[c] = "valid"
    <3> SUFFICES ASSUME NEW c \in answered PROVE c \in update'[c[1]] \/ verdict[c] = "valid"
      OBVIOUS
    <3>1. c[1] \in A!Domain
      BY DEF AuthInv, AuthTypes, A!Chall
    <3>2. QED
      BY <1>8, <3>1 DEF AuthInv, Asking
  <2>3. \A e \in A!Domain : authzr'[e] \in {"valid", "invalid"} => status[e] = authzr'[e]
    BY <1>3 DEF AuthInv, Asking
  <2>4. \A e \in A!Domain : \A c \in update'[e] : c[1] = e
    BY <1>8 DEF AuthInv, Asking
  <2>5. QED
    BY <1>1, <2>1, <2>2, <2>3, <2>4 DEF AuthInv, Asking
<1>12. Checking'
  <2> SUFFICES ASSUME NEW c \in answered PROVE Seen(c)' \/ c[1] \in toCheck \ comp'
    BY <1>1 DEF Checking
  <2>1. c \in A!Chall /\ c[1] \in A!Domain
    BY DEF AuthInv, AuthTypes, A!Chall
  <2>2. Seen(c) \/ c[1] \in toCheck \ comp
    BY <1>1 DEF AuthInv, Checking
  <2>3. ASSUME c[1] = d, comp' # comp
        PROVE  Seen(c)'
    <3>1. CASE A!Completed(d) = update[d]
      <4>1. CASE status[d] = "valid"
        BY <1>3, <2>3, <4>1 DEF Seen
      <4>2. CASE status[d] # "valid"
        <5>1. c \in update[d] \/ verdict[c] = "valid"
          BY <2>3 DEF AuthInv, Asking
        <5>2. QED
          BY <1>1, <1>5, <3>1, <4>2, <5>1 DEF Seen
      <4>3. QED
        BY <4>1, <4>2
    <3>2. CASE A!Spoiled(d) # {}
      BY <1>3, <1>7, <2>3, <3>2 DEF Seen
    <3>3. QED
      BY <1>4, <2>3, <3>1, <3>2
  <2>4. comp' \subseteq comp \cup {d}
    BY <1>4
  <2>5. QED
    BY <1>6, <2>1, <2>2, <2>3, <2>4
<1>13. Failing'
  <2> SUFFICES ASSUME ~ Outsiders
               PROVE  /\ \A e \in A!Domain : status[e] = "invalid" =>
                           \E c \in answered : c[1] = e /\ verdict[c] = "invalid"
                      /\ ~ opts.best /\ (\E e \in A!Domain : authzr'[e] = "invalid") => failed' # {}
    BY <1>1 DEF Failing
  <2>1. \A e \in A!Domain : status[e] = "invalid" =>
          \E c \in answered : c[1] = e /\ verdict[c] = "invalid"
    BY DEF AuthInv, Failing
  <2>2. ASSUME ~ opts.best, NEW e \in A!Domain, authzr'[e] = "invalid"
        PROVE  failed' # {}
    <3>1. CASE authzr[e] = "invalid"
      <4>1. failed # {}
        BY <1>1, <1>2, <2>2, <3>1 DEF AuthInv, Failing
      <4>2. QED
        BY <1>4, <4>1
    <3>2. CASE authzr[e] # "invalid"
      <4>1. e = d /\ status[d] = "invalid"
        BY <1>3, <2>2, <3>2
      <4>2. PICK c \in answered : c[1] = d /\ verdict[c] = "invalid"
        BY <2>1, <4>1
      <4>3. c \in update[d]
        BY <4>2 DEF AuthInv, Asking
      <4>4. c \in A!Spoiled(d) /\ A!Completed(d) # update[d]
        BY <1>5, <4>1, <4>2, <4>3 DEF A!Spoiled
      <4>5. QED
        BY <1>4, <2>2, <4>4
    <3>3. QED
      BY <3>1, <3>2
  <2>3. QED
    BY <2>1, <2>2
<1>14. Naming'
  BY <1>1, <1>2 DEF AuthInv, Naming
<1>15. QED
  BY <1>9, <1>10, <1>11, <1>12, <1>13, <1>14 DEF AuthInv

LEMMA AuthPollFails == ASSUME AuthInv, A!PollFails PROVE AuthInv'
<1>1. /\ apc = "poll" /\ apc' = "cleanup" /\ why' = "poll failed"
      /\ UNCHANGED <<opts, offer, chosen, achalls, authzr, asent, update, toCheck, comp, failed,
                     rounds, status, verdict, answered, exposed, owned, trouble, names>>
  BY DEF A!PollFails, A!handler, A!caVars, A!world, A!issue
<1>2. AuthTypes'
  BY <1>1 DEF AuthInv, AuthTypes, Working
<1>3. Choice' /\ Exposure'
  BY <1>1, Untouched DEF Working
<1>4. Asking' /\ Checking' /\ Naming'
  BY <1>1 DEF AuthInv, Asking, Checking, Naming
<1>5. Failing'
  BY <1>1 DEF AuthInv, Failing
<1>6. QED
  BY <1>2, <1>3, <1>4, <1>5 DEF AuthInv

LEMMA AuthEndsRound == ASSUME AuthInv, A!EndRound PROVE AuthInv'
<1>1. /\ apc = "poll" /\ why = ""
      /\ UNCHANGED <<opts, offer, chosen, achalls, authzr, asent, update, failed,
                     status, verdict, answered, exposed, owned, trouble, names>>
  BY DEF A!EndRound, A!caVars, A!world, A!issue, AuthInv, AuthTypes, Working
<1>2. \/ failed # {} /\ why' = "challenge failed" /\ apc' = "cleanup"
      \/ /\ failed = {} /\ toCheck' = toCheck \ comp /\ comp' = {} /\ why' = why
         /\ apc' = "poll" \/ (apc' = "cleanup" /\ (toCheck' = {} \/ rounds' = MaxRounds))
  BY <1>1 DEF A!EndRound
<1>3. apc' \in {"poll", "cleanup"} /\ (apc' = "poll" => why' = "")
  BY <1>1, <1>2
<1>4. AuthTypes'
  BY <1>1, <1>3 DEF AuthInv, AuthTypes, Working
<1>5. Choice' /\ Exposure'
  BY <1>1, <1>3, Untouched DEF Working
<1>6. Asking'
  BY <1>1, <1>3 DEF AuthInv, Asking
<1>7. Checking'
  <2>1. \A c \in answered : Seen(c) \/ c[1] \in toCheck \ comp
    BY <1>1 DEF AuthInv, Checking
  <2>2. QED
    BY <1>1, <1>2, <2>1 DEF Checking, Seen
<1>8. Failing'
  BY <1>1, <1>2 DEF AuthInv, Failing
<1>9. Naming'
  BY <1>1, <1>2, <1>3 DEF AuthInv, Naming
<1>10. QED
  BY <1>4, <1>5, <1>6, <1>7, <1>8, <1>9 DEF AuthInv

\* From here on nothing is exposed, and nothing chosen any more.
LEMMA Afterwards ==
  ASSUME AuthInv, apc \in {"verify", "issue", "chain", "enroll"},
         apc' \in {"issue", "chain", "enroll", "done"}, apc' # "done" => why' = why,
         apc' = "done" => why' # "",
         UNCHANGED <<opts, offer, chosen, achalls, authzr, asent, update, toCheck, comp, failed,
                     rounds, status, verdict, answered, exposed, owned, trouble>>
  PROVE  AuthTypes' /\ Choice' /\ Exposure' /\ Asking' /\ Checking' /\ Failing' /\ why = ""
<1>1. why = ""
  BY DEF AuthInv, AuthTypes, Working
<1>2. AuthTypes'
  BY <1>1 DEF AuthInv, AuthTypes, Working
<1>3. Choice'
  BY DEF AuthInv, Choice, Working, A!Usable, A!Order
<1>4. Exposure' /\ Checking'
  BY DEF AuthInv, Exposure, Checking, Working
<1>5. Asking'
  BY DEF AuthInv, Asking
<1>6. Failing'
  BY <1>1 DEF AuthInv, Failing
<1>7. QED
  BY <1>1, <1>2, <1>3, <1>4, <1>5, <1>6

LEMMA AuthVerifies == ASSUME AuthInv, A!VerifyComplete PROVE AuthInv'
<1>1. /\ apc = "verify"
      /\ UNCHANGED <<opts, offer, chosen, achalls, authzr, asent, update, toCheck, comp, failed,
                     rounds, status, verdict, answered, exposed, owned, trouble>>
  BY DEF A!VerifyComplete, A!handler, A!caVars, A!world
<1>2. \/ apc' = "done" /\ why' \in {"incomplete", "all failed"}
      \/ /\ apc' = "issue" /\ why' = why /\ names' # {}
         /\ names' = {d \in A!Domain : authzr[d] = "valid"}
         /\ \A d \in A!Domain : authzr[d] \in {"valid", "invalid"}
  BY DEF A!VerifyComplete, A!Fail
<1>3. /\ AuthTypes' /\ Choice' /\ Exposure' /\ Asking' /\ Checking' /\ Failing' /\ why = ""
  BY <1>1, <1>2, Afterwards
<1>4. Naming'
  BY <1>1, <1>2, <1>3 DEF Naming
<1>5. QED
  BY <1>3, <1>4 DEF AuthInv

LEMMA AuthIssues ==
  ASSUME AuthInv, A!RequestIssuance \/ A!FetchChain \/ A!Enroll
  PROVE  AuthInv'
<1>1. /\ apc \in {"issue", "chain", "enroll"}
      /\ UNCHANGED <<opts, offer, chosen, achalls, authzr, asent, update, toCheck, comp, failed,
                     rounds, status, verdict, answered, exposed, owned, trouble, names>>
  BY DEF A!RequestIssuance, A!FetchChain, A!Enroll, A!handler, A!caVars, A!world, A!issue
<1>2. \/ apc' \in {"issue", "chain", "enroll"} /\ why' = why
      \/ apc' = "done" /\ why' \in {"issuance failed", "no chain", "enrolled", "dry run"}
  BY <1>1 DEF A!RequestIssuance, A!FetchChain, A!Enroll, A!Fail
<1>3. /\ AuthTypes' /\ Choice' /\ Exposure' /\ Asking' /\ Checking' /\ Failing' /\ why = ""
  BY <1>1, <1>2, Afterwards
<1>4. names = {d \in A!Domain : authzr[d] = "valid"}
      /\ \A d \in A!Domain : authzr[d] \in {"valid", "invalid"}
  BY <1>1 DEF AuthInv, Naming
<1>5. ~ Outsiders /\ ~ opts.best => names = A!Domain
  <2>1. ~ Outsiders /\ ~ opts.best => \A d \in A!Domain : authzr[d] # "invalid"
    BY <1>1, <1>3 DEF AuthInv, Failing
  <2>2. QED
    BY <1>4, <2>1
<1>6. Naming'
  BY <1>1, <1>2, <1>3, <1>5 DEF AuthInv, Naming
<1>7. QED
  BY <1>3, <1>6 DEF AuthInv

\* The CA decides a challenge, and with it perhaps an authorization.
LEMMA AuthValidates == ASSUME AuthInv, NEW c \in A!Chall, A!Validate(c) PROVE AuthInv'
<1>1. /\ c \in answered /\ verdict[c] = "pending" /\ status[c[1]] = "pending"
      /\ UNCHANGED <<opts, offer, chosen, achalls, authzr, asent, update, toCheck, comp, failed,
                     rounds, answered, exposed, owned, trouble, names, why, apc>>
  BY DEF A!Validate, A!handler, A!world, A!issue
<1>2. PICK v \in {"invalid", "valid"} : verdict' = [verdict EXCEPT ![c] = v]
  BY DEF A!Validate
<1>3. PICK w \in A!Decision : status' = [status EXCEPT ![c[1]] = w] /\ (w = "invalid" <=> verdict'[c] = "invalid")
  <2> DEFINE w == IF verdict'[c] = "invalid" THEN "invalid"
                  ELSE IF A!Suffices(c[1], {e \in A!Chall : verdict'[e] = "valid"}) THEN "valid"
                  ELSE status[c[1]]
  <2>1. status' = [status EXCEPT ![c[1]] = w]
    BY DEF A!Validate
  <2>2. w \in A!Decision /\ (w = "invalid" <=> verdict'[c] = "invalid")
    BY <1>1 DEF A!Decision
  <2>3. QED
    BY <2>1, <2>2
<1>4. c[1] \in A!Domain /\ status \in [A!Domain -> A!Decision] /\ verdict \in [A!Chall -> A!Decision]
  BY DEF A!Chall, AuthInv, AuthTypes
<1>5. /\ verdict'[c] = v /\ \A e \in A!Chall : e # c => verdict'[e] = verdict[e]
      /\ status'[c[1]] = w /\ \A d \in A!Domain : d # c[1] => status'[d] = status[d]
      /\ status' \in [A!Domain -> A!Decision] /\ verdict' \in [A!Chall -> A!Decision]
  BY <1>2, <1>3, <1>4 DEF A!Decision
<1>6. AuthTypes'
  BY <1>1, <1>5 DEF AuthInv, AuthTypes
<1>7. Choice'
  BY <1>1 DEF AuthInv, Choice, Working, A!Usable, A!Order, A!Suffices, Mine
<1>8. Exposure' /\ Naming'
  <2>1. \A k : A!First(k)' = A!First(k)
    BY <1>1 DEF A!First
  <2>2. QED
    BY <1>1, <2>1 DEF AuthInv, Exposure, Naming, Working
<1>9. Asking'
  <2>1. \A e \in answered : e \in update[e[1]] \/ verdict'[e] = "valid"
    <3> SUFFICES ASSUME NEW e \in answered, e \notin update[e[1]] PROVE verdict'[e] = "valid"
      OBVIOUS
    <3>1. verdict[e] = "valid" /\ e \in A!Chall
      BY DEF AuthInv, Asking, AuthTypes
    <3>2. QED
      BY <1>1, <1>5, <3>1
  <2>2. \A e \in A!Chall : verdict'[e] = "invalid" => status'[e[1]] = "invalid"
    <3> SUFFICES ASSUME NEW e \in A!Chall, verdict'[e] = "invalid" PROVE status'[e[1]] = "invalid"
      OBVIOUS
    <3>1. CASE e = c
      BY <1>3, <1>5, <3>1
    <3>2. CASE e # c
      <4>1. status[e[1]] = "invalid" /\ e[1] \in A!Domain
        BY <1>5, <3>2 DEF AuthInv, Asking, A!Chall
      <4>2. e[1] # c[1]
        BY <1>1, <4>1
      <4>3. QED
        BY <1>5, <4>1, <4>2
    <3>3. QED
      BY <3>1, <3>2
  <2>3. \A e \in A!Chall : verdict'[e] # "pending" => e \in answered
    BY <1>1, <1>5 DEF AuthInv, Asking
  <2>4. \A d \in A!Domain : authzr[d] \in {"valid", "invalid"} => status'[d] = authzr[d]
    <3> SUFFICES ASSUME NEW d \in A!Domain, authzr[d] \in {"valid", "invalid"} PROVE status'[d] = authzr[d]
      OBVIOUS
    <3>1. status[d] = authzr[d]
      BY DEF AuthInv, Asking
    <3>2. d # c[1]
      BY <1>1, <3>1
    <3>3. QED
      BY <1>5, <3>1, <3>2
  <2>5. QED
    BY <1>1, <2>1, <2>2, <2>3, <2>4 DEF AuthInv, Asking
<1>10. Checking'
  <2>1. \A e \in answered : Seen(e) => Seen(e)'
    <3> SUFFICES ASSUME NEW e \in answered, Seen(e) PROVE Seen(e)'
      OBVIOUS
    <3>1. e \in A!Chall
      BY DEF AuthInv, AuthTypes
    <3>2. QED
      BY <1>1, <1>2, <1>5, <3>1 DEF Seen
  <2>2. QED
    BY <1>1, <2>1 DEF AuthInv, Checking
<1>11. Failing'
  <2>1. ASSUME ~ Outsiders, NEW d \in A!Domain, status'[d] = "invalid"
        PROVE  \E e \in answered : e[1] = d /\ verdict'[e] = "invalid"
    <3>1. CASE d = c[1]
      BY <1>1, <1>3, <1>5, <2>1, <3>1
    <3>2. CASE d # c[1]
      <4>1. PICK e \in answered : e[1] = d /\ verdict[e] = "invalid"
        BY <1>5, <2>1, <3>2 DEF AuthInv, Failing
      <4>2. e \in A!Chall
        BY DEF AuthInv, AuthTypes
      <4>3. QED
        BY <1>5, <3>2, <4>1, <4>2
    <3>3. QED
      BY <3>1, <3>2
  <2>2. QED
    BY <1>1, <2>1 DEF AuthInv, Failing
<1>12. QED
  BY <1>6, <1>7, <1>8, <1>9, <1>10, <1>11 DEF AuthInv

LEMMA AuthSpoiled == ASSUME AuthInv, NEW d \in A!Domain, A!Outsider(d) PROVE AuthInv'
<1>1. /\ Outsiders /\ status[d] = "pending" /\ apc = "poll"
      /\ status' = [status EXCEPT ![d] = "invalid"]
      /\ UNCHANGED <<opts, offer, chosen, achalls, authzr, asent, update, toCheck, comp, failed,
                     rounds, verdict, answered, exposed, owned, trouble, names, why, apc>>
  BY DEF A!Outsider, A!handler, A!world, A!issue
<1>2. /\ status' \in [A!Domain -> A!Decision] /\ status'[d] = "invalid"
      /\ \A e \in A!Domain : e # d => status'[e] = status[e]
  BY <1>1 DEF AuthInv, AuthTypes, A!Decision
<1>3. AuthTypes'
  BY <1>1, <1>2 DEF AuthInv, AuthTypes
<1>4. Choice' /\ Exposure'
  BY <1>1, Untouched DEF Working
<1>5. Checking' /\ Naming' /\ Failing'
  BY <1>1 DEF AuthInv, Checking, Naming, Failing, Seen
<1>6. Asking'
  <2>1. \A c \in A!Chall : verdict[c] = "invalid" => status'[c[1]] = "invalid"
    <3> SUFFICES ASSUME NEW c \in A!Chall, verdict[c] = "invalid" PROVE status'[c[1]] = "invalid"
      OBVIOUS
    <3>1. c[1] \in A!Domain /\ status[c[1]] = "invalid"
      BY DEF A!Chall, AuthInv, Asking
    <3>2. QED
      BY <1>2, <3>1
  <2>2. \A e \in A!Domain : authzr[e] \in {"valid", "invalid"} => status'[e] = authzr[e]
    <3> SUFFICES ASSUME NEW e \in A!Domain, authzr[e] \in {"valid", "invalid"} PROVE status'[e] = authzr[e]
      OBVIOUS
    <3>1. status[e] = authzr[e]
      BY DEF AuthInv, Asking
    <3>2. QED
      BY <1>1, <1>2, <3>1
  <2>3. QED
    BY <1>1, <2>1, <2>2 DEF AuthInv, Asking
<1>7. QED
  BY <1>3, <1>4, <1>5, <1>6 DEF AuthInv

LEMMA AuthStutters == ASSUME AuthInv, UNCHANGED aVars PROVE AuthInv'
<1>1. AuthTypes' /\ Asking'
  BY DEF aVars, AuthInv, AuthTypes, Asking, Working
<1>2. Checking' /\ Failing' /\ Naming'
  BY DEF aVars, AuthInv, Checking, Failing, Naming, Seen
<1>3. Choice'
  BY DEF aVars, AuthInv, Choice, Working, A!Usable, A!Order, A!Suffices, Mine
<1>4. Exposure'
  <2>1. \A k : A!First(k)' = A!First(k)
    BY DEF aVars, A!First
  <2>2. QED
    BY <2>1 DEF aVars, AuthInv, Exposure, Working
<1>5. QED
  BY <1>1, <1>2, <1>3, <1>4 DEF AuthInv

LEMMA AuthStep == ASSUME AuthInv, A!Next PROVE AuthInv'
<1>1. CASE A!Client
  BY <1>1, AuthRequests, AuthChooses, AuthGoesOn, AuthSolves, AuthUndoes, AuthSends, AuthStartsPolling,
     AuthPolls, AuthPollFails, AuthEndsRound, AuthCleansUp, AuthVerifies, AuthIssues DEF A!Client
<1>2. CASE A!Over
  <2>1. UNCHANGED aVars
    BY <1>2 DEF A!Over, A!vars, A!handler, A!caVars, A!world, A!issue, aVars
  <2>2. QED
    BY <2>1, AuthStutters
<1>3. QED
  BY <1>1, <1>2, AuthStarts, AuthValidates, AuthSpoiled DEF A!Next

LEMMA AuthInvariant == MCSpec => []AuthInv
<1>1. MCInit => AuthInv
  BY AuthBegins DEF MCInit
<1>2. AuthInv /\ [MCNext]_mcVars => AuthInv'
  <2> SUFFICES ASSUME AuthInv, [MCNext]_mcVars PROVE AuthInv'
    OBVIOUS
  <2>1. CASE ANext
    BY <2>1, AuthStep DEF ANext
  <2>2. CASE UNCHANGED aVars
    BY <2>2, AuthStutters
  <2>3. QED
    BY <2>1, <2>2 DEF MCNext, DNext, NNext, mcVars
<1>3. QED
  BY <1>1, <1>2, PTL DEF MCSpec

\* Whatever fails on the way, for any number of domains and polling rounds: when the
\* procedure is over nothing is exposed, unless the CA did not take an answer, or a server
\* or provider failed during the clean-up.
THEOREM NothingStays == MCSpec => []NothingLeftBehind
<1>1. AuthInv => NothingLeftBehind
  BY DEF AuthInv, Exposure, Working, NothingLeftBehind, A!NothingLeftBehind
<1>2. QED
  BY <1>1, AuthInvariant, PTL

\* A certificate is requested only for domains that the CA holds valid authorizations for, and
\* challenges are solved only if they suffice for it; for any number of domains and rounds, whatever other
\* clients of the account do.
THEOREM Warranted == MCSpec => [](A!CertIsAuthorized /\ A!PathSuffices)
<1>1. ASSUME AuthInv
      PROVE  A!CertIsAuthorized /\ A!PathSuffices
  <2>1. A!CertIsAuthorized
    BY <1>1 DEF AuthInv, Naming, Asking, A!CertIsAuthorized
  <2>2. A!PathSuffices
    <3> SUFFICES ASSUME apc = "solve", NEW d \in A!Domain
                 PROVE  /\ A!Suffices(d, Mine(d))
                        /\ \A c \in Mine(d) : c[2] \in A!Usable
      BY DEF A!PathSuffices, Mine
    <3>1. d \in 1..chosen /\ achalls # <<>>
      BY <1>1 DEF AuthInv, Choice, Exposure, A!Domain, Working
    <3>2. A!Suffices(d, Mine(d))
      BY <1>1, <3>1 DEF AuthInv, Choice
    <3>3. \A i \in DOMAIN achalls : achalls[i][2] \in A!Usable
      BY <1>1 DEF AuthInv, Choice
    <3>4. QED
      BY <3>2, <3>3 DEF Mine, A!ToSet
  <2>3. QED
    BY <2>1, <2>2
<1>2. QED
  BY <1>1, AuthInvariant, PTL

\* Besides, the certificate is for all the domains unless a subset was allowed, if no other client
\* of the account spoils an authorization.
THEOREM AsAsked ==
  ASSUME ~ Outsiders
  PROVE  MCSpec => []IssuedAsAsked
<1>1. AuthInv => A!AllOrNothing
  BY DEF AuthInv, Naming, A!AllOrNothing
<1>2. A!CertIsAuthorized /\ A!PathSuffices /\ A!AllOrNothing => IssuedAsAsked
  BY DEF IssuedAsAsked
<1>3. QED
  BY <1>1, <1>2, Warranted, AuthInvariant, PTL

\* No step takes down a challenge that the CA was told to look at before its authorization was seen
\* decided, unless the rounds are used up or the procedure fails.
THEOREM KeptForTheCA == MCSpec => KeptUntilDecided
<1>1. ASSUME AuthInv, [MCNext]_mcVars
      PROVE  A!KeptStep
  <2> USE <1>1 DEF A!KeptStep
  <2>1. CASE exposed' = exposed
    BY <2>1
  <2>2. CASE exposed' # exposed
    <3>1. A!SolveChallenges \/ A!UndoPerform \/ A!CleanUp
      <4>1. A!Next
        BY <2>2 DEF MCNext, ANext, DNext, NNext, mcVars, aVars
      <4>2. QED
        BY <2>2, <4>1 DEF A!Next, A!Client, A!Start, A!Over, A!vars, A!RequestChallenges,
           A!ChooseChallenges, A!More, A!SendResponse, A!StartPolling, A!PollDomain, A!PollFails,
           A!EndRound, A!VerifyComplete, A!RequestIssuance, A!FetchChain, A!Enroll, A!Validate,
           A!Outsider, A!world
    <3>2. CASE A!SolveChallenges
      BY <3>2 DEF A!SolveChallenges, AuthInv, Asking
    <3>3. CASE A!UndoPerform
      BY <3>3 DEF A!UndoPerform, AuthInv, AuthTypes
    <3>4. CASE A!CleanUp
      <4>1. apc = "cleanup" /\ (why' = why \/ why' # "")
        BY <3>4 DEF A!CleanUp
      <4>2. why = "" => rounds = MaxRounds \/ \A c \in answered : Seen(c)
        BY <4>1 DEF AuthInv, Checking
      <4>3. QED
        BY <4>1, <4>2 DEF Seen
    <3>5. QED
      BY <3>1, <3>2, <3>3, <3>4
  <2>3. QED
    BY <2>1, <2>2
<1>2. AuthInv /\ [MCNext]_mcVars => [A!KeptStep]_mcVars
  BY <1>1
<1>3. QED
  BY <1>2, AuthInvariant, PTL DEF MCSpec, KeptUntilDecided
=============================================================================
