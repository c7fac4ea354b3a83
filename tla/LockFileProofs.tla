--------------------------- MODULE LockFileProofs ---------------------------
(***************************************************************************)
(* certbot's lock file excludes, for any number of processes, deaths and   *)
(* inode numbers.                                                          *)
(***************************************************************************)
EXTENDS LockFile, TLAPS

IInv == TypeOK /\ Ownership

LEMMA InitInv == Init => IInv
BY NoneAssumption, BoundAssumption DEF Init, IInv, TypeOK, Ownership, Locked

\* What closing a file does to the invariant.
LEMMA ClosingKeeps ==
  ASSUME IInv, NEW p \in Proc, NEW next \in {"idle", "opening"},
         CloseFile(p, next), path' = path, deaths' \in 0..MaxDeaths
  PROVE  IInv'
<1>1. TypeOK'
  BY DEF IInv, TypeOK, CloseFile
<1>2. /\ \A q \in Proc : pc'[q] = IF q = p THEN next ELSE pc[q]
      /\ \A q \in Proc : fd'[q] = IF q = p THEN None ELSE fd[q]
      /\ \A i \in Inode : owner'[i] = IF owner[i] = p THEN None ELSE owner[i]
  BY DEF IInv, TypeOK, CloseFile
<1>3. Ownership'
  BY <1>2, NoneAssumption DEF IInv, TypeOK, Ownership, Locked
<1>4. QED
  BY <1>1, <1>3 DEF IInv

LEMMA StepInv == IInv /\ [Next]_vars => IInv'
<1> SUFFICES ASSUME IInv, [Next]_vars
             PROVE  IInv'
  OBVIOUS
<1>1. ASSUME NEW p \in Proc, Acquire(p)
      PROVE  IInv'
  BY <1>1 DEF IInv, TypeOK, Ownership, Locked, Acquire
<1>2. ASSUME NEW p \in Proc, Open(p)
      PROVE  IInv'
  <2>1. \A q \in Proc : pc[q] = "held" => path' = path
    BY <1>2, NoneAssumption DEF IInv, TypeOK, Ownership, Open
  <2>2. path' \in Inode
    BY <1>2, NoneAssumption DEF IInv, TypeOK, Open
  <2>3. QED
    BY <1>2, <2>1, <2>2, NoneAssumption DEF IInv, TypeOK, Ownership, Locked, Open
<1>3. ASSUME NEW p \in Proc, Lock(p)
      PROVE  IInv'
  <2>1. fd[p] \in Inode /\ owner[fd[p]] = None
    BY <1>3, NoneAssumption DEF IInv, TypeOK, Ownership, Lock
  <2>2. QED
    BY <1>3, <2>1, NoneAssumption DEF IInv, TypeOK, Ownership, Locked, Lock
<1>4. ASSUME NEW p \in Proc, Succeed(p)
      PROVE  IInv'
  BY <1>4 DEF IInv, TypeOK, Ownership, Locked, Succeed, SameFile
<1>5. ASSUME NEW p \in Proc, Remove(p)
      PROVE  IInv'
  <2>1. \A q \in Proc : pc[q] = "held" => q = p
    BY <1>5, NoneAssumption DEF IInv, TypeOK, Ownership, Locked, Remove
  <2>2. QED
    BY <1>5, <2>1, NoneAssumption DEF IInv, TypeOK, Ownership, Locked, Remove
<1>6. ASSUME NEW p \in Proc, Refused(p) \/ Retry(p) \/ Close(p) \/ Die(p)
      PROVE  IInv'
  BY <1>6, ClosingKeeps, BoundAssumption
     DEF Refused, Retry, Close, Die, IInv, TypeOK
<1>7. ASSUME UNCHANGED vars
      PROVE  IInv'
  BY <1>7 DEF vars, IInv, TypeOK, Ownership, Locked
<1>8. QED
  BY <1>1, <1>2, <1>3, <1>4, <1>5, <1>6, <1>7 DEF Next, Step

\* The types and the ownership of locks hold in every reachable state.
THEOREM OwnershipInvariant == Spec => [](TypeOK /\ Ownership)
BY InitInv, StepInv, PTL DEF Spec, IInv

\* Two processes that both believe they hold the lock hold it on the inode the
\* path names, which has one owner.
LEMMA OwnershipExcludes == IInv => MutualExclusion
BY DEF IInv, Ownership, MutualExclusion, Locked

\* At most one certbot holds the lock, whatever the interleaving, the deaths
\* and the reuse of inode numbers.
THEOREM Exclusion == Spec => []MutualExclusion
<1>1. Spec => []IInv
  BY InitInv, StepInv, PTL DEF Spec
<1>2. QED
  BY <1>1, OwnershipExcludes, PTL
=============================================================================
