------------------------------ MODULE LockFile ------------------------------
(***************************************************************************)
(* certbot/lock.py: one lock file, and the certbot processes that compete  *)
(* for it.                                                                 *)
(*                                                                         *)
(* The kernel's part is modelled from its documented behaviour: a path     *)
(* names at most one inode, an inode lives while it has a name or an open  *)
(* descriptor and its number may be used again afterwards, a lock belongs  *)
(* to an inode, and goes when its owner closes the file or dies.           *)
(***************************************************************************)
EXTENDS Naturals

CONSTANTS Proc,     \* processes
          Inode,    \* inode numbers; at least one more than processes
          None,     \* no file, no descriptor, no owner
          MaxDeaths \* bound: processes that die

ASSUME BoundAssumption == MaxDeaths \in Nat
ASSUME NoneAssumption == None \notin Proc /\ None \notin Inode

VARIABLES path,     \* the inode the lock file's path names, or None
          fd,       \* the inode each process has open, or None
          owner,    \* which process has each inode locked, or None
          pc,       \* where each process is
          deaths    \* processes that have died so far

vars == <<path, fd, owner, pc, deaths>>

\* Types of the variables.
TypeOK ==
  /\ path \in Inode \cup {None}
  /\ fd \in [Proc -> Inode \cup {None}]
  /\ owner \in [Inode -> Proc \cup {None}]
  /\ pc \in [Proc -> {"idle", "opening", "locking", "checking", "held",
                      "closing"}]
  /\ deaths \in 0..MaxDeaths

Init == /\ path = None
        /\ fd = [p \in Proc |-> None]
        /\ owner = [i \in Inode |-> None]
        /\ pc = [p \in Proc |-> "idle"]
        /\ deaths = 0

Free(i) == i # path /\ \A p \in Proc : fd[p] # i

\* LockFile(path): the constructor calls acquire.
Acquire(p) == /\ pc[p] = "idle"
              /\ pc' = [pc EXCEPT ![p] = "opening"]
              /\ UNCHANGED <<path, fd, owner, deaths>>

\* Mutant of Open: with O_EXCL, it waits for the file to go away.
OpenExclusively(p) ==
  /\ pc[p] = "opening"
  /\ path = None
  /\ \E i \in Inode : Free(i) /\ path' = i
  /\ fd' = [fd EXCEPT ![p] = path']
  /\ pc' = [pc EXCEPT ![p] = "locking"]
  /\ UNCHANGED <<owner, deaths>>

\* os.open with O_CREAT: the file there is, or a new one.
Open(p) == /\ pc[p] = "opening"
           /\ IF path # None THEN path' = path
              ELSE \E i \in Inode : Free(i) /\ path' = i
           /\ fd' = [fd EXCEPT ![p] = path']
           /\ pc' = [pc EXCEPT ![p] = "locking"]
           /\ UNCHANGED <<owner, deaths>>

\* Closing the descriptor drops the lock.
CloseFile(p, next) ==
  /\ owner' = [i \in Inode |-> IF owner[i] = p THEN None ELSE owner[i]]
  /\ fd' = [fd EXCEPT ![p] = None]
  /\ pc' = [pc EXCEPT ![p] = next]

\* _try_lock: lockf does not wait.
Lock(p) == /\ pc[p] = "locking"
           /\ owner[fd[p]] = None
           /\ owner' = [owner EXCEPT ![fd[p]] = p]
           /\ pc' = [pc EXCEPT ![p] = "checking"]
           /\ UNCHANGED <<path, fd, deaths>>

\* Mutant of Refused: the descriptor is not closed on the way out.
RefusedLeaking(p) == /\ pc[p] = "locking"
                     /\ owner[fd[p]] # None
                     /\ pc' = [pc EXCEPT ![p] = "idle"]
                     /\ UNCHANGED <<path, fd, owner, deaths>>

\* The lock is taken: LockError, "Another instance ... is already running".
Refused(p) == /\ pc[p] = "locking"
              /\ owner[fd[p]] # None
              /\ CloseFile(p, "idle")
              /\ UNCHANGED <<path, deaths>>

\* Mutant of SameFile: the check is left out.
AnyFile(p) == TRUE

\* _lock_success: is the inode locked still the one the path names?
SameFile(p) == path = fd[p]

Succeed(p) == /\ pc[p] = "checking"
              /\ SameFile(p)
              /\ pc' = [pc EXCEPT ![p] = "held"]
              /\ UNCHANGED <<path, fd, owner, deaths>>

Retry(p) == /\ pc[p] = "checking"
            /\ ~ SameFile(p)
            /\ CloseFile(p, "opening")
            /\ UNCHANGED <<path, deaths>>

\* release: os.remove, whatever the path names, and then os.close.
Remove(p) == /\ pc[p] = "held"
             /\ path' = None
             /\ pc' = [pc EXCEPT ![p] = "closing"]
             /\ UNCHANGED <<fd, owner, deaths>>

Close(p) == /\ pc[p] = "closing"
            /\ CloseFile(p, "idle")
            /\ UNCHANGED <<path, deaths>>

\* The process dies: the kernel closes its files, the lock file stays.
Die(p) == /\ pc[p] # "idle"
          /\ deaths < MaxDeaths
          /\ deaths' = deaths + 1
          /\ CloseFile(p, "idle")
          /\ UNCHANGED path

Step(p) == \/ Open(p)
           \/ Lock(p)
           \/ Refused(p)
           \/ Succeed(p)
           \/ Retry(p)
           \/ Remove(p)
           \/ Close(p)

Next == \E p \in Proc : Acquire(p) \/ Step(p) \/ Die(p)

Spec == Init /\ [][Next]_vars

\* A process that is running goes on to its end, and not all of them die.
FairSpec == Spec /\ \A p \in Proc : WF_vars(Step(p))

-----------------------------------------------------------------------------
\* Two certbot processes never both believe they hold the lock, however the
\* deletion of the file by one and its creation by another interleave.
MutualExclusion ==
  \A p, q \in Proc : pc[p] = "held" /\ pc[q] = "held" => p = q

Locked(p) == pc[p] \in {"checking", "held", "closing"}

\* A lock belongs to the process that has the file open and has taken it, and
\* whoever holds the lock holds it on the file a newcomer would open.
Ownership ==
  /\ \A p \in Proc :
       /\ pc[p] \in {"idle", "opening"} <=> fd[p] = None
       /\ Locked(p) => owner[fd[p]] = p
       /\ pc[p] = "held" => fd[p] = path
  /\ \A i \in Inode : owner[i] # None => Locked(owner[i]) /\ fd[owner[i]] = i

Trying(p) == pc[p] \in {"opening", "locking", "checking"}

\* The loop of acquire does not go round for ever among the contenders, and a
\* lock file left behind by a dead process keeps nobody out: some process gets
\* the lock, unless all who try are refused or die.
SomeoneGetsIn ==
  (\E p \in Proc : Trying(p))
    ~> (\E p \in Proc : pc[p] = "held") \/ (\A p \in Proc : ~ Trying(p))
=============================================================================
