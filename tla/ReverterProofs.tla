--------------------------- MODULE ReverterProofs ---------------------------
(***************************************************************************)
(* Theorems about Reverter, for any set of files and contents and any      *)
(* bounds: its types, its inductive invariant, and, provided the process   *)
(* does not die inside shutil.rmtree, that it implements ConfigStore.      *)
(***************************************************************************)
EXTENDS Reverter, Sequences, SequenceTheorems, TLAPS

LEMMA Dirs ==
  /\ Temp \in Dir
  /\ Progress \in Dir
  /\ Temp # Progress
  /\ \A i \in 1..MaxBackups : i \in Dir /\ i \notin Open
  /\ \A d \in Dir : d \in Open \/ d \in 1..MaxBackups
BY BoundAssumption DEF Temp, Progress, Dir, Open

TypeLoop == TypeOK /\ LoopSound

LEMMA TypeLoopInit == Init => TypeLoop
BY BoundAssumption, Dirs
   DEF Init, TypeLoop, TypeOK, LoopSound, InRecovery, Value, NoCopies, Dir, Temp,
       Open

LEMMA TypeLoopStep == TypeLoop /\ [Next]_vars => TypeLoop'
<1> SUFFICES ASSUME TypeLoop, [Next]_vars
             PROVE  TypeLoop'
  OBVIOUS
<1> USE BoundAssumption, ValueAssumption, FaultAssumption, Dirs
    DEF TypeLoop, TypeOK, LoopSound, InRecovery, Value, Open, Temp, Progress,
        Dir, dirs, loop, Listed
<1>1. ASSUME NEW d \in Open, NEW S \in SUBSET File, AddToCheckpoint(d, S)
      PROVE  TypeLoop'
  BY <1>1 DEF AddToCheckpoint, Record
<1>2. ASSUME NEW d \in Open, NEW S \in SUBSET File, AddFails(d, S)
      PROVE  TypeLoop'
  BY <1>2 DEF AddFails, Record
<1>3. ASSUME NEW d \in Open, NEW S \in SUBSET File, AddCrashes(d, S)
      PROVE  TypeLoop'
  BY <1>3 DEF AddCrashes, Record
<1>4. ASSUME NEW d \in Open, NEW f \in File, RegisterNewFile(d, f)
      PROVE  TypeLoop'
  BY <1>4 DEF RegisterNewFile
<1>5. ASSUME NEW d \in Open, RegisterFails(d)
      PROVE  TypeLoop'
  BY <1>5 DEF RegisterFails
<1>6. ASSUME NEW f \in File, NEW v \in Content, WriteFile(f, v)
      PROVE  TypeLoop'
  BY <1>6 DEF WriteFile
<1>7. ASSUME FinalizeCheckpoint
      PROVE  TypeLoop'
  BY <1>7 DEF FinalizeCheckpoint, NoCopies
<1>8. ASSUME Start \/ Recover
      PROVE  TypeLoop'
  <2>1. /\ RecoveryRoutine
        /\ UNCHANGED <<disk, dirs, crashes>>
    BY <1>8 DEF Start, Recover
  <2>2. CASE exists = {}
    BY <2>1, <2>2 DEF RecoveryRoutine, LeaveLoop
  <2>3. CASE Temp \in exists
    BY <2>1, <2>3 DEF RecoveryRoutine, RecoverCheckpoint
  <2>4. CASE exists # {} /\ Temp \notin exists
    <3>1. exists = {Progress}
      BY <2>4
    <3>2. /\ target' = Progress /\ more' = 0 /\ left' = Listed(Progress)
          /\ pc' = "restore"
      BY <2>1, <2>4 DEF RecoveryRoutine, RecoverCheckpoint
    <3>3. QED
      BY <2>1, <3>1, <3>2
  <2>5. QED
    BY <2>2, <2>3, <2>4
<1>9. ASSUME RevertTemporaryConfig
      PROVE  TypeLoop'
  BY <1>9 DEF RevertTemporaryConfig, RecoverCheckpoint
<1>10. ASSUME NEW n \in 1..MaxBackups, RollbackCheckpoints(n)
       PROVE  TypeLoop'
  BY <1>10 DEF RollbackCheckpoints, RecoverCheckpoint
<1>11. ASSUME NEW f \in File, RestoreFile(f)
       PROVE  TypeLoop'
  BY <1>11 DEF RestoreFile
<1>12. ASSUME NEW f \in File, RemoveFile(f)
       PROVE  TypeLoop'
  BY <1>12 DEF RemoveFile
<1>13. ASSUME NEW f \in File, DeleteCopy(f)
       PROVE  TypeLoop'
  BY <1>13 DEF DeleteCopy
<1>14. ASSUME RestoreFails
       PROVE  TypeLoop'
  BY <1>14 DEF RestoreFails, LeaveLoop
<1>15. ASSUME Crash
       PROVE  TypeLoop'
  BY <1>15 DEF Crash, LeaveLoop
<1>16. ASSUME RestoreDone \/ RemoveDone
       PROVE  TypeLoop'
  <2>1. CASE RestoreDone
    BY <2>1 DEF RestoreDone
  <2>2. CASE RemoveDone
    BY <2>2 DEF RemoveDone
  <2>3. QED
    BY <1>16, <2>1, <2>2
<1>17. ASSUME DeleteFilepaths \/ DeleteNewFiles
       PROVE  TypeLoop'
  <2>1. CASE DeleteFilepaths
    BY <2>1 DEF DeleteFilepaths, NoCopies
  <2>2. CASE DeleteNewFiles
    BY <2>2 DEF DeleteNewFiles
  <2>3. QED
    BY <1>17, <2>1, <2>2
<1>18. ASSUME RemoveDirectory
       PROVE  TypeLoop'
  <2>1. CASE more > 0 /\ target = Temp
    <3>1. /\ target' = Progress /\ more' = 0 /\ left' = Listed(Progress)
          /\ pc' = "restore"
          /\ exists' = exists \ {Temp}
          /\ UNCHANGED <<disk, depth, saved, new, crashes>>
      BY <1>18, <2>1 DEF RemoveDirectory, RecoverCheckpoint
    <3>2. exists' = {Progress}
      BY <1>18, <2>1, <3>1 DEF RemoveDirectory
    <3>3. QED
      BY <3>1, <3>2
  <2>2. CASE more > 0 /\ target # Temp
    BY <1>18, <2>2 DEF RemoveDirectory, RecoverCheckpoint
  <2>3. CASE ~ (more > 0)
    BY <1>18, <2>3 DEF RemoveDirectory, LeaveLoop
  <2>4. QED
    BY <2>1, <2>2, <2>3
<1>19. ASSUME Exit
       PROVE  TypeLoop'
  BY <1>19 DEF Exit
<1>20. ASSUME NEW f \in File, NEW v \in Value, UserEdit(f, v)
       PROVE  TypeLoop'
  BY <1>20 DEF UserEdit
<1>21. ASSUME UNCHANGED vars
       PROVE  TypeLoop'
  BY <1>21 DEF vars
<1>22. QED
  BY <1>1, <1>2, <1>3, <1>4, <1>5, <1>6, <1>7, <1>8, <1>9, <1>10, <1>11,
     <1>12, <1>13, <1>14, <1>15, <1>16, <1>17, <1>18, <1>19, <1>20,
     <1>21
     DEF Next, Installing, Recovering

\* The types of the variables hold in every reachable state.
THEOREM TypeCorrect == Spec => []TypeOK
<1>1. Spec => []TypeLoop
  BY TypeLoopInit, TypeLoopStep, PTL DEF Spec
<1>2. TypeLoop => TypeOK
  BY DEF TypeLoop
<1>3. QED
  BY <1>1, <1>2, PTL

-----------------------------------------------------------------------------
\* What holds wherever the process dies, inside rmtree included.
KeptInv == /\ EmptyWhenGone
           /\ RestoredSoFar
           /\ RemovedSoFar
           /\ RmtreeSoFar
           /\ SavedOnDisk
           /\ NewNotSaved
           /\ OpenCopiesKept

SafeInv == KeptInv /\ CopiesKept

LEMMA SafeInit == Init => SafeInv
BY Dirs, ValueAssumption
   DEF Init, SafeInv, KeptInv, EmptyWhenGone, CopiesKept, RestoredSoFar,
       RemovedSoFar, RmtreeSoFar, SavedOnDisk, NewNotSaved, OpenCopiesKept,
       InRecovery, Covered, Listed, NoCopies, Open

\* Recording files that are on disk and were not listed, whatever becomes of
\* the process then.
LEMMA RecordKept ==
  ASSUME TypeLoop, KeptInv, NEW d \in Open, NEW T \in SUBSET File,
         pc = "idle", pc' \in {"idle", "down"},
         T \cap Listed(d) = {},
         d = Progress => T \cap Covered(Temp) = {},
         \A f \in T : disk[f] # Absent,
         Record(d, T), UNCHANGED <<disk, depth, new>>
  PROVE  KeptInv'
<1>1. d \in Dir /\ d \notin 1..MaxBackups /\ (d = Temp \/ d = Progress)
      /\ \A e \in Dir : e > depth => e \notin Open
  BY Dirs, BoundAssumption DEF Open, Temp, Progress, Dir, TypeLoop, TypeOK
<1>2. \A e \in Dir, f \in File :
        saved'[e][f] = IF e = d /\ f \in T THEN disk[f] ELSE saved[e][f]
  BY <1>1 DEF Record, TypeLoop, TypeOK
<1>3. \A e \in Dir : Listed(e)' = IF e = d THEN Listed(e) \cup T ELSE Listed(e)
  BY <1>1, <1>2, ValueAssumption DEF Listed, TypeLoop, TypeOK, Value
<1>4. EmptyWhenGone'
  BY <1>1, <1>3 DEF KeptInv, EmptyWhenGone, Covered, Record
<1>5. OpenCopiesKept'
  <2>1. \A f \in T : disk[f] # Lost
    BY ValueAssumption DEF TypeLoop, TypeOK, Value
  <2>2. \A e \in Open, f \in File : saved'[e][f] # Lost
    BY <1>2, <2>1, Dirs DEF KeptInv, OpenCopiesKept, Open
  <2>3. QED
    BY <2>2 DEF OpenCopiesKept, InRecovery
<1>6. RestoredSoFar' /\ RemovedSoFar' /\ RmtreeSoFar'
  BY DEF RestoredSoFar, RemovedSoFar, RmtreeSoFar
<1>7. SavedOnDisk'
  BY <1>1, <1>3, Dirs DEF KeptInv, SavedOnDisk, InRecovery, Open
<1>8. NewNotSaved'
  BY <1>1, <1>3, Dirs DEF KeptInv, NewNotSaved, Covered
<1>9. QED
  BY <1>4, <1>5, <1>6, <1>7, <1>8 DEF KeptInv

\* Entering the loops of _recover_checkpoint.
LEMMA RecoverKept ==
  ASSUME TypeLoop, KeptInv, pc # "rmtree", NEW d \in Dir, NEW n \in Nat,
         RecoverCheckpoint(d, n), UNCHANGED <<disk, dirs>>,
         d = Temp /\ n = 0 =>
           /\ \A f \in Listed(Progress) : disk[f] # Absent
           /\ \A f \in File : saved[Progress][f] # Lost
  PROVE  KeptInv'
<1>1. /\ \A e \in Dir : Listed(e)' = Listed(e) /\ new'[e] = new[e]
      /\ saved' = saved /\ disk' = disk /\ exists' = exists /\ depth' = depth
      /\ target' = d /\ left' = Listed(d) /\ more' = n /\ pc' = "restore"
  BY DEF dirs, Listed, RecoverCheckpoint
<1>2. EmptyWhenGone' /\ NewNotSaved'
  BY <1>1, Dirs DEF KeptInv, EmptyWhenGone, NewNotSaved, Covered
<1>3. RestoredSoFar' /\ RemovedSoFar' /\ RmtreeSoFar' /\ SavedOnDisk'
      /\ OpenCopiesKept'
  BY <1>1, Dirs
     DEF RestoredSoFar, RemovedSoFar, RmtreeSoFar, SavedOnDisk, OpenCopiesKept,
         InRecovery
<1>4. QED
  BY <1>2, <1>3 DEF KeptInv

LEMMA KeptStep ==
  ASSUME TypeLoop, TypeLoop', KeptInv, [Next]_vars
  PROVE  KeptInv'
<1> USE ValueAssumption, Dirs
    DEF TypeLoop, TypeOK, LoopSound, KeptInv, EmptyWhenGone,
        RestoredSoFar, RemovedSoFar, RmtreeSoFar, SavedOnDisk, NewNotSaved,
        OpenCopiesKept, InRecovery, Covered, Listed, Value, dirs, loop
<1>1. ASSUME NEW d \in Open, NEW S \in SUBSET File, AddToCheckpoint(d, S)
      PROVE  KeptInv'
  <2>1. (S \ Listed(d)) \cap Listed(d) = {}
    OBVIOUS
  <2>2. QED
    BY <1>1, <2>1, RecordKept DEF AddToCheckpoint, TempFree
<1>2. ASSUME NEW d \in Open, NEW S \in SUBSET File, AddFails(d, S)
      PROVE  KeptInv'
  <2>1. PICK T \in SUBSET (S \ Listed(d)) :
               (\A f \in T : disk[f] # Absent) /\ Record(d, T)
    BY <1>2 DEF AddFails
  <2>2. QED
    BY <1>2, <2>1, RecordKept DEF AddFails, TempFree
<1>3. ASSUME NEW d \in Open, NEW S \in SUBSET File, AddCrashes(d, S)
      PROVE  KeptInv'
  <2>1. PICK T \in SUBSET (S \ Listed(d)) :
               (\A f \in T : disk[f] # Absent) /\ Record(d, T)
    BY <1>3 DEF AddCrashes
  <2>2. QED
    BY <1>3, <2>1, RecordKept DEF AddCrashes, TempFree
<1>4. ASSUME NEW d \in Open, NEW f \in File, RegisterNewFile(d, f)
      PROVE  KeptInv'
  <2>1. d \in Dir /\ (d = Temp \/ d = Progress) /\ d \in Open
        /\ \A e \in Dir : e > depth => e \notin Open
    BY Dirs, BoundAssumption DEF Open, Temp, Progress, Dir
  <2>2. /\ \A e \in Dir : new'[e] = IF e = d THEN new[e] \cup {f} ELSE new[e]
        /\ exists' = exists \cup {d}
        /\ disk[f] = Absent /\ pc = "idle" /\ pc' = "idle"
        /\ UNCHANGED <<disk, depth, saved, loop>>
    <3>1. new' = [new EXCEPT ![d] = @ \cup {f}] /\ new \in [Dir -> SUBSET File]
      BY <1>4 DEF RegisterNewFile
    <3>2. \A e \in Dir : new'[e] = IF e = d THEN new[e] \cup {f} ELSE new[e]
      BY ONLY <3>1, <2>1
    <3>3. QED
      BY <1>4, <3>2 DEF RegisterNewFile
  <2>3. /\ EmptyWhenGone' /\ RestoredSoFar' /\ RemovedSoFar'
        /\ RmtreeSoFar' /\ OpenCopiesKept'
    BY <2>1, <2>2
  <2>4. SavedOnDisk'
    BY <2>2
  <2>5. NewNotSaved'
    <3>1. f \notin Listed(Progress)
      BY <2>2 DEF Open
    <3>2. QED
      BY <2>2, <3>1
  <2>6. QED
    BY <2>3, <2>4, <2>5
<1>5. ASSUME NEW d \in Open, RegisterFails(d)
      PROVE  KeptInv'
  BY <1>5 DEF RegisterFails
<1>6. ASSUME NEW f \in File, NEW v \in Content, WriteFile(f, v)
      PROVE  KeptInv'
  BY <1>6 DEF WriteFile
<1>7. ASSUME FinalizeCheckpoint
      PROVE  KeptInv'
  <2> DEFINE n == depth + 1
  <2>1. /\ n \in Dir /\ n \notin Open /\ Progress # n /\ Temp # n
        /\ \A e \in Dir : e > depth => e \notin Open
        /\ \A e \in Dir : e > depth + 1 => e > depth /\ e # n
    BY <1>7, BoundAssumption DEF FinalizeCheckpoint, Dir, Open, Temp, Progress
  <2>2. \A e \in Dir :
          /\ saved'[e] = IF e = Progress THEN NoCopies
                         ELSE IF e = n THEN saved[Progress] ELSE saved[e]
          /\ new'[e] = IF e = Progress THEN {}
                       ELSE IF e = n THEN new[Progress] ELSE new[e]
    BY <1>7, <2>1 DEF FinalizeCheckpoint
  <2>3. /\ exists' = exists \ {Progress} /\ depth' = n
        /\ pc = "idle" /\ pc' = "idle" /\ UNCHANGED <<disk, loop>>
    BY <1>7 DEF FinalizeCheckpoint
  <2>4. \A e \in Dir : Listed(e)' = IF e = Progress THEN {}
                                    ELSE IF e = n THEN Listed(Progress)
                                    ELSE Listed(e)
    BY <2>2 DEF NoCopies
  <2> HIDE DEF n
  <2>5. EmptyWhenGone'
    <3> SUFFICES ASSUME NEW e \in Dir,
                        (e \in Open /\ e \notin exists') \/ e > depth'
                 PROVE  Listed(e)' = {} /\ new'[e] = {}
      OBVIOUS
    <3>1. CASE e = Progress
      BY <3>1, <2>2, <2>4
    <3>2. CASE e # Progress
      <4>1. e # n
        BY <2>1, <2>3 DEF n
      <4>2. (e \in Open /\ e \notin exists) \/ e > depth
        BY <3>2, <2>1, <2>3 DEF n
      <4>3. QED
        BY <4>1, <4>2, <3>2, <2>2, <2>4
    <3>3. QED
      BY <3>1, <3>2
  <2>6. OpenCopiesKept'
    BY <2>1, <2>2, <2>3 DEF NoCopies, Open
  <2>7. RestoredSoFar' /\ RemovedSoFar' /\ RmtreeSoFar'
    BY <2>3
  <2>8. SavedOnDisk' /\ NewNotSaved'
    BY <2>1, <2>2, <2>3, <2>4 DEF Open
  <2>9. QED
    BY <2>5, <2>6, <2>7, <2>8
<1>8. ASSUME Start \/ Recover
      PROVE  KeptInv'
  <2>1. /\ RecoveryRoutine
        /\ pc # "rmtree"
        /\ UNCHANGED <<disk, dirs>>
    BY <1>8 DEF Start, Recover
  <2>2. CASE exists = {}
    BY <2>1, <2>2 DEF RecoveryRoutine, LeaveLoop, Open
  <2>3. CASE Temp \in exists /\ Progress \in exists
    BY <2>1, <2>3, RecoverKept DEF RecoveryRoutine
  <2>4. CASE Temp \in exists /\ Progress \notin exists
    <3>1. Listed(Progress) = {} /\ \A f \in File : saved[Progress][f] # Lost
      BY <2>4 DEF Open
    <3>2. QED
      BY <2>1, <2>4, <3>1, RecoverKept DEF RecoveryRoutine
  <2>5. CASE exists # {} /\ Temp \notin exists
    BY <2>1, <2>5, RecoverKept DEF RecoveryRoutine
  <2>6. QED
    BY <2>2, <2>3, <2>4, <2>5
<1>9. ASSUME RevertTemporaryConfig
      PROVE  KeptInv'
  BY <1>9, RecoverKept DEF RevertTemporaryConfig, Open
<1>10. ASSUME NEW n \in 1..MaxBackups, RollbackCheckpoints(n)
       PROVE  KeptInv'
  <2>1. /\ depth \in Dir /\ depth # Temp
        /\ (IF n < depth THEN n ELSE depth) - 1 \in Nat
    BY <1>10, BoundAssumption DEF RollbackCheckpoints, Dir, Temp
  <2>2. QED
    BY <1>10, <2>1, RecoverKept DEF RollbackCheckpoints
<1>11. ASSUME NEW f \in File, RestoreFile(f)
       PROVE  KeptInv'
  BY <1>11 DEF RestoreFile
<1>12. ASSUME NEW f \in File, RemoveFile(f)
       PROVE  KeptInv'
  BY <1>12 DEF RemoveFile
<1>13. ASSUME NEW f \in File, DeleteCopy(f)
       PROVE  KeptInv'
  BY <1>13 DEF DeleteCopy
<1>14. ASSUME RestoreFails
       PROVE  KeptInv'
  BY <1>14 DEF RestoreFails, LeaveLoop
<1>15. ASSUME Crash
       PROVE  KeptInv'
  BY <1>15 DEF Crash, LeaveLoop
<1>16. ASSUME RestoreDone
       PROVE  KeptInv'
  BY <1>16 DEF RestoreDone
<1>17. ASSUME RemoveDone
       PROVE  KeptInv'
  BY <1>17 DEF RemoveDone
<1>18. ASSUME DeleteFilepaths
       PROVE  KeptInv'
  BY <1>18 DEF DeleteFilepaths, NoCopies
<1>19. ASSUME DeleteNewFiles
       PROVE  KeptInv'
  BY <1>19 DEF DeleteNewFiles
<1>20. ASSUME RemoveDirectory
       PROVE  KeptInv'
  <2>1. /\ pc = "rmtree" /\ Covered(target) = {} /\ target \in Dir
        /\ exists' = exists \ {target}
        /\ depth' = IF target \in Open THEN depth ELSE depth - 1
        /\ UNCHANGED <<disk, saved, new, crashes>>
        /\ pc' \in {"idle", "restore"}
    BY <1>20 DEF RemoveDirectory, RecoverCheckpoint, LeaveLoop
  <2>2. /\ target \in Open => depth' = depth /\ target \in exists
        /\ target \notin Open => depth' = depth - 1 /\ target = depth
    BY <2>1, BoundAssumption DEF Dir, Open, Temp, Progress
  <2>3. EmptyWhenGone'
    <3> SUFFICES ASSUME NEW e \in Dir,
                        (e \in Open /\ e \notin exists') \/ e > depth'
                 PROVE  Covered(e)' = {}
      OBVIOUS
    <3>1. e = target \/ (e \in Open /\ e \notin exists) \/ e > depth
      BY <2>1, <2>2 DEF Dir
    <3>2. Covered(e) = {}
      BY <2>1, <3>1
    <3>3. QED
      BY <2>1, <3>2
  <2>5. NewNotSaved'
    BY <2>1
  <2>6. RestoredSoFar' /\ RemovedSoFar' /\ RmtreeSoFar'
    BY <1>20, <2>1 DEF RemoveDirectory, RecoverCheckpoint, LeaveLoop
  <2>7. SavedOnDisk' /\ OpenCopiesKept'
    <3>1. CASE more > 0 /\ target = Temp
      BY <1>20, <2>1, <3>1 DEF RemoveDirectory, RecoverCheckpoint
    <3>2. CASE more > 0 /\ target # Temp
      <4>1. target > 1 /\ target - 1 # Temp
        BY <2>1, <3>2, BoundAssumption DEF Dir, Temp, Progress, Open
      <4>2. target' # Temp /\ pc' = "restore"
        BY <1>20, <3>2, <4>1 DEF RemoveDirectory, RecoverCheckpoint
      <4>3. QED
        BY <4>2
    <3>3. CASE ~ (more > 0)
      <4>1. pc' = "idle"
        BY <1>20, <3>3 DEF RemoveDirectory, LeaveLoop
      <4>2. \A d \in Open, f \in File :
              f \in Listed(d) => disk[f] # Absent /\ saved[d][f] # Lost
        <5> SUFFICES ASSUME NEW d \in Open, NEW f \in File, f \in Listed(d)
                     PROVE  disk[f] # Absent /\ saved[d][f] # Lost
          OBVIOUS
        <5>1. d \in exists /\ d # target /\ d \in Dir
          BY <2>1, Dirs DEF Open
        <5>2. target = Temp /\ d = Progress
          BY <5>1, <2>1, <2>2, Dirs DEF Open, Dir, Temp, Progress
        <5>3. QED
          BY <5>2, <2>1, <3>3
      <4>3. QED
        BY <2>1, <4>1, <4>2
    <3>4. QED
      BY <3>1, <3>2, <3>3
  <2>8. QED
    BY <2>3, <2>5, <2>6, <2>7
<1>21. ASSUME Exit
       PROVE  KeptInv'
  BY <1>21 DEF Exit
<1>22. ASSUME NEW f \in File, NEW v \in Value, UserEdit(f, v)
       PROVE  KeptInv'
  BY <1>22 DEF UserEdit
<1>23. ASSUME UNCHANGED vars
       PROVE  KeptInv'
  BY <1>23 DEF vars
<1>24. QED
  BY <1>1, <1>2, <1>3, <1>4, <1>5, <1>6, <1>7, <1>8, <1>9, <1>10, <1>11,
     <1>12, <1>13, <1>14, <1>15, <1>16, <1>17, <1>18, <1>19, <1>20, <1>21,
     <1>22, <1>23
     DEF Next, Installing, Recovering

\* Copies get lost only in the directory that is being deleted, if rmtree is
\* never cut short.
LEMMA CopiesStep ==
  ASSUME RmtreeCrash = FALSE, TypeLoop, CopiesKept, [Next]_vars
  PROVE  CopiesKept'
<1> USE ValueAssumption, Dirs
    DEF TypeLoop, TypeOK, LoopSound, CopiesKept, InRecovery, Value, dirs, loop
<1>1. ASSUME NEW d \in Open, NEW S \in SUBSET File,
             AddToCheckpoint(d, S) \/ AddFails(d, S) \/ AddCrashes(d, S)
      PROVE  CopiesKept'
  <2>1. PICK T \in SUBSET (S \ Listed(d)) :
               (\A f \in T : disk[f] # Absent) /\ Record(d, T)
    BY <1>1 DEF AddToCheckpoint, AddFails, AddCrashes
  <2>2. pc = "idle" /\ T \in SUBSET File /\ d \in Dir
    BY <1>1 DEF AddToCheckpoint, AddFails, AddCrashes, Open
  <2>3. \A e \in Dir, f \in File :
          saved'[e][f] = IF e = d /\ f \in T THEN disk[f] ELSE saved[e][f]
    BY <2>1, <2>2 DEF Record
  <2>4. \A f \in T : disk[f] # Lost
    BY <2>1, <2>2
  <2>5. \A e \in Dir, f \in File : saved[e][f] # Lost
    BY <2>2
  <2>6. \A e \in Dir, f \in File : saved'[e][f] # Lost
    BY <2>3, <2>4, <2>5
  <2>7. QED
    BY <2>6
<1>2. ASSUME FinalizeCheckpoint
      PROVE  CopiesKept'
  <2>1. depth + 1 \in Dir /\ pc = "idle"
    BY <1>2, BoundAssumption DEF FinalizeCheckpoint, Dir
  <2>2. \A e \in Dir :
          saved'[e] \in {NoCopies, saved[Progress], saved[e]}
    BY <1>2, <2>1 DEF FinalizeCheckpoint
  <2>3. QED
    BY <2>1, <2>2 DEF NoCopies
<1>3. ASSUME \/ \E d \in Open, f \in File : RegisterNewFile(d, f)
             \/ \E d \in Open : RegisterFails(d)
             \/ \E f \in File, v \in Content : WriteFile(f, v)
             \/ Start \/ Recover \/ RevertTemporaryConfig
             \/ \E n \in 1..MaxBackups : RollbackCheckpoints(n)
             \/ \E f \in File : RestoreFile(f) \/ RemoveFile(f)
             \/ RestoreFails \/ RestoreDone \/ RemoveDone \/ Exit \/ Crash
             \/ \E f \in File, v \in Value : UserEdit(f, v)
             \/ UNCHANGED vars
      PROVE  CopiesKept'
  <2>1. /\ saved' = saved
        /\ pc # "rmtree" \/ (pc' = pc /\ target' = target)
    BY <1>3
       DEF RegisterNewFile, RegisterFails, WriteFile, Start, Recover,
           RecoveryRoutine, RevertTemporaryConfig, RollbackCheckpoints,
           RecoverCheckpoint, LeaveLoop, RestoreFile, RemoveFile, RestoreFails,
           RestoreDone, RemoveDone, Exit, Crash, UserEdit, vars
  <2>2. QED
    BY <2>1
<1>4. ASSUME \/ \E f \in File : DeleteCopy(f)
             \/ DeleteFilepaths \/ DeleteNewFiles
      PROVE  CopiesKept'
  BY <1>4 DEF DeleteCopy, DeleteFilepaths, DeleteNewFiles, NoCopies
<1>5. ASSUME RemoveDirectory
      PROVE  CopiesKept'
  <2>1. saved' = saved /\ \A f \in File : saved[target][f] = None
    BY <1>5 DEF RemoveDirectory, Covered, Listed
  <2>2. QED
    BY <2>1
<1>6. QED
  BY <1>1, <1>2, <1>3, <1>4, <1>5 DEF Next, Installing, Recovering

LEMMA SafeStep ==
  ASSUME RmtreeCrash = FALSE, TypeLoop, TypeLoop', SafeInv, [Next]_vars
  PROVE  SafeInv'
BY KeptStep, CopiesStep DEF SafeInv

\* Provided the process does not die inside rmtree, the strengthening the
\* refinement rests on is invariant.
THEOREM IInvInvariant ==
  ASSUME RmtreeCrash = FALSE
  PROVE  Spec => []IInv
<1>1. Init => TypeLoop /\ SafeInv
  BY TypeLoopInit, SafeInit
<1>2. TypeLoop /\ SafeInv /\ [Next]_vars => (TypeLoop /\ SafeInv)'
  BY TypeLoopStep, SafeStep
<1>3. TypeLoop /\ SafeInv => IInv
  BY DEF TypeLoop, SafeInv, KeptInv, IInv
<1>4. QED
  BY <1>1, <1>2, <1>3, PTL DEF Spec

-----------------------------------------------------------------------------
(***************************************************************************)
(* Which steps leave the committed configuration alone, wherever the       *)
(* process may die.                                                        *)
(***************************************************************************)

LEMMA CommittedAt ==
  ASSUME \A f \in File :
           Preimage(Progress, f, Preimage(Temp, f, disk[f]))'
             = Preimage(Progress, f, Preimage(Temp, f, disk[f]))
  PROVE  Committed' = Committed
BY DEF Committed

\* Recording a file that is on disk.
LEMMA RecordKeeps ==
  ASSUME TypeLoop, NEW d \in Open, NEW T \in SUBSET File,
         pc = "idle", pc' \in {"idle", "down"},
         T \cap Listed(d) = {},
         d = Progress => T \cap Covered(Temp) = {},
         Record(d, T), UNCHANGED <<disk, new>>
  PROVE  Committed' = Committed
<1>1. d \in Dir /\ (d = Temp \/ d = Progress)
  BY Dirs DEF Open
<1>2. \A e \in Dir, f \in File :
        saved'[e][f] = IF e = d /\ f \in T THEN disk[f] ELSE saved[e][f]
  BY <1>1 DEF Record, TypeLoop, TypeOK
<1>3. \A e \in Dir : e # d => saved'[e] = saved[e]
  BY <1>1 DEF Record, TypeLoop, TypeOK
<1> SUFFICES ASSUME NEW f \in File
             PROVE  Preimage(Progress, f, Preimage(Temp, f, disk[f]))'
                      = Preimage(Progress, f, Preimage(Temp, f, disk[f]))
  BY CommittedAt
<1>4. Old(Temp, f, disk[f])' = Old(Temp, f, disk[f])
  BY <1>1, <1>2, Dirs, ValueAssumption DEF Old, Listed
<1>5. CASE d = Temp
  BY <1>3, <1>4, <1>5, Dirs DEF Old, Preimage
<1>6. CASE d = Progress /\ f \notin T
  BY <1>2, <1>4, <1>6, Dirs DEF Old, Preimage
<1>7. CASE d = Progress /\ f \in T
  <2>1. Old(Temp, f, disk[f]) = disk[f]
    BY <1>7 DEF Old, Covered, Listed
  <2>2. Old(Progress, f, disk[f])' = Old(Progress, f, disk[f])
    BY <1>7, <1>1, <1>2 DEF Old, Listed
  <2>3. QED
    BY <1>4, <2>1, <2>2 DEF Preimage, Old
<1>8. QED
  BY <1>1, <1>5, <1>6, <1>7

\* The three outcomes of add_to_checkpoint are such recordings.
LEMMA AddKeeps ==
  ASSUME TypeLoop, NEW d \in Open, NEW S \in SUBSET File,
         AddToCheckpoint(d, S) \/ AddFails(d, S) \/ AddCrashes(d, S)
  PROVE  Committed' = Committed
<1>1. /\ pc = "idle" /\ pc' \in {"idle", "down"} /\ TempFree(d, S)
      /\ UNCHANGED <<disk, new>>
  BY DEF AddToCheckpoint, AddFails, AddCrashes
<1>2. PICK T \in SUBSET (S \ Listed(d)) : Record(d, T)
  BY DEF AddToCheckpoint, AddFails, AddCrashes
<1>3. QED
  BY <1>1, <1>2, RecordKeeps DEF TempFree

\* What is registered as new is not on disk, and so not saved either.
LEMMA RegisterKeeps ==
  ASSUME TypeLoop, KeptInv, NEW d \in Open, NEW f \in File,
         RegisterNewFile(d, f)
  PROVE  Committed' = Committed
<1>1. /\ pc = "idle" /\ pc' = "idle" /\ disk[f] = Absent /\ d \in Dir
      /\ new' = [new EXCEPT ![d] = @ \cup {f}]
      /\ new \in [Dir -> SUBSET File]
      /\ UNCHANGED <<disk, saved>>
      /\ d = Temp \/ d = Progress
      /\ d = Progress => f \notin Covered(Temp)
  BY Dirs DEF RegisterNewFile, TempFree, Open, TypeLoop, TypeOK
<1>2. \A e \in Dir : new'[e] = IF e = d THEN new[e] \cup {f} ELSE new[e]
  BY ONLY <1>1
<1>3. \A e \in Open : f \notin Listed(e)
  BY <1>1 DEF KeptInv, SavedOnDisk
<1> SUFFICES ASSUME NEW g \in File
             PROVE  Preimage(Progress, g, Preimage(Temp, g, disk[g]))'
                      = Preimage(Progress, g, Preimage(Temp, g, disk[g]))
  BY CommittedAt
<1>4. CASE g # f
  BY <1>1, <1>2, <1>4, Dirs DEF Preimage, Old
<1>5. CASE g = f
  <2>1. \A e \in Open : \A v : Old(e, f, v) = IF f \in new[e] THEN Absent ELSE v
    BY <1>3 DEF Old, Listed
  <2>2. \A e \in Open : \A v :
          Old(e, f, v)' = IF f \in new'[e] THEN Absent ELSE v'
    BY <1>1, <1>3 DEF Old, Listed
  <2>3. QED
    BY <1>1, <1>2, <1>5, <1>3, Dirs DEF Preimage, Old, Listed, Open
<1>6. QED
  BY <1>4, <1>5

\* A file that is written can be taken back: its copy is there.
LEMMA WriteKeeps ==
  ASSUME TypeLoop, KeptInv, NEW f \in File, NEW v \in Content, WriteFile(f, v)
  PROVE  Committed' = Committed
<1>1. /\ pc = "idle" /\ pc' = "idle" /\ disk' = [disk EXCEPT ![f] = v]
      /\ disk \in [File -> Value]
      /\ UNCHANGED <<saved, new>>
      /\ f \in Covered(Temp) \/ f \in Covered(Progress)
  BY DEF WriteFile, dirs, TypeLoop, TypeOK
<1>2. \A e \in Open : saved[e][f] # Lost
  BY <1>1 DEF KeptInv, OpenCopiesKept
<1>3. Old(Progress, f, Old(Temp, f, v)) = Old(Progress, f, Old(Temp, f, disk[f]))
  BY <1>1, <1>2 DEF Old, Covered, Listed, Open
<1> SUFFICES ASSUME NEW g \in File
             PROVE  Preimage(Progress, g, Preimage(Temp, g, disk[g]))'
                      = Preimage(Progress, g, Preimage(Temp, g, disk[g]))
  BY CommittedAt
<1>4. CASE g # f
  BY <1>1, <1>4 DEF Preimage, Old
<1>5. CASE g = f
  BY <1>1, <1>3, <1>5 DEF Preimage, Old
<1>6. QED
  BY <1>4, <1>5

\* Neither the directories nor the files change, and nothing begins or ends to
\* be deleted.
LEMMA QuietKeeps ==
  ASSUME UNCHANGED <<disk, saved, new>>, pc # "rmtree", pc' # "rmtree"
  PROVE  Committed' = Committed
BY CommittedAt DEF Preimage, Old

\* Restoring or removing a file of the open directory the loop works on.
LEMMA LoopKeeps ==
  ASSUME TypeLoop, pc # "rmtree", pc' = pc, target \in Open, target' = target,
         NEW f \in File,
         f \in new[target] \/ saved[target][f] \notin {None, Lost},
         \A g \in File : g # f => disk'[g] = disk[g],
         UNCHANGED <<saved, new>>
  PROVE  Committed' = Committed
<1>1. \A x, y : Old(target, f, x) = Old(target, f, y)
  BY DEF Old
<1>2. target = Temp \/ target = Progress
  BY DEF Open
<1> SUFFICES ASSUME NEW g \in File
             PROVE  Preimage(Progress, g, Preimage(Temp, g, disk[g]))'
                      = Preimage(Progress, g, Preimage(Temp, g, disk[g]))
  BY CommittedAt
<1>3. CASE g # f
  BY <1>3 DEF Preimage, Old
<1>4. CASE g = f /\ target = Temp
  <2>1. Old(Temp, f, disk[f])' = Old(Temp, f, disk[f])
    BY <1>1, <1>4 DEF Old
  <2>2. QED
    BY <1>4, <2>1 DEF Preimage, Old
<1>5. CASE g = f /\ target = Progress
  BY <1>1, <1>5 DEF Preimage, Old
<1>6. QED
  BY <1>2, <1>3, <1>4, <1>5

\* When the loops end the directory has been taken back.
LEMMA TakenBack ==
  ASSUME TypeLoop, KeptInv, RemoveDone, NEW f \in File
  PROVE  Old(target, f, disk[f]) = disk[f]
<1>1. pc = "remove" /\ left = {} /\ target \in Dir
  BY DEF RemoveDone, TypeLoop, TypeOK
<1>2. CASE f \in new[target]
  BY <1>1, <1>2 DEF Old, KeptInv, RemovedSoFar
<1>3. CASE f \notin new[target]
  BY <1>1, <1>3 DEF Old, KeptInv, RemovedSoFar, Listed
<1>4. QED
  BY <1>2, <1>3

\* The temporary checkpoint is empty once IN_PROGRESS is recovered.
LEMMA TempEmpty ==
  ASSUME TypeLoop, KeptInv, InRecovery, target = Progress
  PROVE  \A f \in File : \A v : Old(Temp, f, v) = v
<1>1. Covered(Temp) = {}
  BY Dirs DEF KeptInv, EmptyWhenGone, Open, TypeLoop, LoopSound
<1>2. QED
  BY <1>1 DEF Old, Covered, Listed

LEMMA RemoveDoneKeeps ==
  ASSUME TypeLoop, KeptInv, RemoveDone, target \in Open
  PROVE  Committed' = Committed
<1>1. /\ pc = "remove" /\ pc' = "rmtree"
      /\ UNCHANGED <<disk, saved, new, target>>
      /\ target = Temp \/ target = Progress
  BY DEF RemoveDone, dirs, loop, Open
<1> SUFFICES ASSUME NEW f \in File
             PROVE  Preimage(Progress, f, Preimage(Temp, f, disk[f]))'
                      = Preimage(Progress, f, Preimage(Temp, f, disk[f]))
  BY CommittedAt
<1>2. Old(target, f, disk[f]) = disk[f]
  BY TakenBack
<1>3. CASE target = Temp
  BY <1>1, <1>2, <1>3, Dirs DEF Preimage, Old
<1>4. CASE target = Progress
  <2>1. \A v : Old(Temp, f, v) = v
    BY <1>1, <1>4, TempEmpty DEF InRecovery
  <2>2. QED
    BY <1>1, <1>2, <1>4, <2>1, Dirs DEF Preimage, Old
<1>5. QED
  BY <1>1, <1>3, <1>4

\* What is left of the directory that is being deleted does not matter.
LEMMA DeletingKeeps ==
  ASSUME pc = "rmtree", pc' = "rmtree", UNCHANGED <<disk, target>>,
         \A d \in Dir : d # target => saved'[d] = saved[d] /\ new'[d] = new[d]
  PROVE  Committed' = Committed
BY CommittedAt, Dirs DEF Preimage, Old

LEMMA RemoveDirectoryKeeps ==
  ASSUME RemoveDirectory
  PROVE  Committed' = Committed
<1>1. /\ pc = "rmtree" /\ pc' # "rmtree" /\ Covered(target) = {}
      /\ UNCHANGED <<disk, saved, new>>
  BY DEF RemoveDirectory, RecoverCheckpoint, LeaveLoop
<1>2. \A f \in File : \A v : Old(target, f, v) = v
  BY <1>1 DEF Old, Covered, Listed
<1>3. QED
  BY <1>1, <1>2, CommittedAt DEF Preimage, Old

\* rmtree cut short: a file that was saved and created may come back, but a
\* file the configuration has is not touched.
LEMMA CrashKeeps ==
  ASSUME TypeLoop, KeptInv, Crash, target \in Open, NEW f \in File,
         Committed[f] # Absent
  PROVE  Committed'[f] = Committed[f]
<1>1. UNCHANGED <<disk, saved, new>> /\ pc' = "down"
  BY DEF Crash, LeaveLoop, dirs
<1>2. CASE pc # "rmtree"
  <2>1. Committed' = Committed
    BY <1>1, <1>2, QuietKeeps
  <2>2. QED
    BY <2>1
<1>3. CASE pc = "rmtree"
  <2>1. target = Temp \/ target = Progress
    BY DEF Open
  <2>2. Old(target, f, disk[f]) = disk[f]
        \/ (disk[f] = Absent /\ f \notin new[target])
    BY <1>3 DEF Old, KeptInv, RmtreeSoFar
  <2>3. Committed'[f] = Old(Progress, f, Old(Temp, f, disk[f]))
    BY <1>1 DEF Committed, Preimage, Old
  <2>4. CASE target = Temp
    <3>1. Committed[f] = Old(Progress, f, disk[f])
      BY <1>3, <2>4, Dirs DEF Committed, Preimage
    <3>2. CASE Old(Temp, f, disk[f]) = disk[f]
      BY <2>3, <3>1, <3>2
    <3>3. CASE disk[f] = Absent
      <4>1. \A x, y : Old(Progress, f, x) = Old(Progress, f, y)
        BY <3>1, <3>3 DEF Old
      <4>2. QED
        BY <2>3, <3>1, <4>1
    <3>4. QED
      BY <2>2, <2>4, <3>2, <3>3
  <2>5. CASE target = Progress
    <3>1. \A v : Old(Temp, f, v) = v
      BY <1>3, <2>5, TempEmpty DEF InRecovery
    <3>2. Committed[f] = disk[f]
      BY <1>3, <2>5, <3>1, Dirs DEF Committed, Preimage
    <3>3. QED
      BY <2>2, <2>3, <2>5, <3>1, <3>2
  <2>6. QED
    BY <2>1, <2>4, <2>5
<1>4. QED
  BY <1>2, <1>3

-----------------------------------------------------------------------------
(***************************************************************************)
(* Reverter implements ConfigStore.                                        *)
(***************************************************************************)

\* A step that changes neither the committed configuration nor the records is
\* at most a change of mode.
LEMMA ChangesMode ==
  ASSUME Committed' = Committed, UndoRecords' = UndoRecords
  PROVE  Store!Next
BY DEF Store!Next, Store!ChangeMode, Mode

\* The records depend only on the backups that are not being deleted.
LEMMA SameRecords ==
  ASSUME UndoDepth' = UndoDepth,
         \A i \in 1..UndoDepth : saved'[i] = saved[i] /\ new'[i] = new[i]
  PROVE  UndoRecords' = UndoRecords
<1>1. \A i \in 1..UndoDepth : Covered(i)' = Covered(i)
  BY DEF Covered, Listed
<1>2. \A i \in 1..UndoDepth, f \in File : Old(i, f, Absent)' = Old(i, f, Absent)
  BY DEF Old
<1>3. QED
  BY <1>1, <1>2 DEF UndoRecords, Old

LEMMA DepthRange ==
  ASSUME TypeLoop
  PROVE  /\ UndoDepth \in 0..depth
         /\ 1..UndoDepth \subseteq Dir \ Open
         /\ InRecovery /\ target > 0 => depth > 0 /\ target = depth
BY BoundAssumption
   DEF TypeLoop, TypeOK, LoopSound, InRecovery, UndoDepth, RollingBack, Dir, Open,
       Temp, Progress

LEMMA RecordRefines ==
  ASSUME TypeLoop, NEW d \in Open, NEW S \in SUBSET File,
         AddToCheckpoint(d, S) \/ AddFails(d, S) \/ AddCrashes(d, S)
  PROVE  Store!Next
<1>1. /\ pc = "idle" /\ pc' \in {"idle", "down"} /\ d \in Dir
      /\ UNCHANGED <<depth, new>>
  BY Dirs DEF AddToCheckpoint, AddFails, AddCrashes, Open
<1>2. PICK T \in SUBSET (S \ Listed(d)) : Record(d, T)
  BY DEF AddToCheckpoint, AddFails, AddCrashes
<1>3. \A e \in Dir : e # d => saved'[e] = saved[e]
  BY <1>1, <1>2 DEF Record, TypeLoop, TypeOK
<1>4. UndoRecords' = UndoRecords
  BY <1>1, <1>3, DepthRange, SameRecords DEF UndoDepth, RollingBack
<1>5. QED
  BY <1>4, AddKeeps, ChangesMode

\* Neither the directories nor the files change, and nothing begins or ends to
\* be deleted.
LEMMA QuietRefines ==
  ASSUME UNCHANGED <<disk, depth, saved, new>>,
         pc # "rmtree", pc' # "rmtree"
  PROVE  Store!Next
<1>1. UndoRecords' = UndoRecords
  BY SameRecords DEF UndoDepth, RollingBack
<1>2. QED
  BY <1>1, QuietKeeps, ChangesMode

\* Restoring or removing a file of the directory the loop works on.
LEMMA LoopRefines ==
  ASSUME TypeLoop, SafeInv, InRecovery, pc # "rmtree", pc' = pc,
         target' = target, NEW f \in File, f \in Covered(target),
         NEW v \in Value, disk' = [disk EXCEPT ![f] = v],
         UNCHANGED <<exists, depth, saved, new>>
  PROVE  Store!Next
<1>1. UndoRecords' = UndoRecords
  BY SameRecords DEF UndoDepth, RollingBack
<1>2. target \in Dir /\ disk \in [File -> Value]
  BY DEF TypeLoop, TypeOK
<1>3. \A g \in File : g # f => disk'[g] = disk[g]
  BY <1>2
<1>4. saved[target][f] # Lost
  BY <1>2 DEF SafeInv, KeptInv, CopiesKept
<1>5. f \in new[target] \/ saved[target][f] \notin {None, Lost}
  BY <1>4 DEF Covered, Listed
<1>6. CASE target \in Open
  BY <1>1, <1>3, <1>5, <1>6, LoopKeeps, ChangesMode
<1>7. CASE target \notin Open
  <2>1. target > 0 /\ exists = {} /\ target = depth /\ depth \in 1..MaxBackups
    BY <1>2, <1>7, BoundAssumption
       DEF Dir, Open, Temp, Progress, TypeLoop, TypeOK, LoopSound
  <2>2. \A e \in Open : Covered(e) = {} /\ e # target
    BY <2>1, <1>7, Dirs DEF SafeInv, KeptInv, EmptyWhenGone, Open
  <2>3. \A g \in File, e \in Open : \A w : Old(e, g, w) = w
    BY <2>2 DEF Old, Covered, Listed
  <2>4. \A g \in File : Committed[g] = disk[g] /\ Committed'[g] = disk'[g]
    BY <2>3, <2>2 DEF Committed, Preimage, Old, Open
  <2>5. Committed' = [Committed EXCEPT ![f] = v]
    <3>1. \A g \in File : Committed'[g] = IF g = f THEN v ELSE Committed[g]
      BY <2>4, <1>2, <1>3
    <3>2. QED
      BY <3>1 DEF Committed
  <2>6. UndoDepth = depth
    BY DEF UndoDepth
  <2>7. /\ UndoRecords = [i \in 1..depth |-> [g \in Covered(i) |-> Old(i, g, Absent)]]
        /\ Len(UndoRecords) = depth
    BY <2>6, <2>1, BoundAssumption DEF UndoRecords
  <2>8. UndoRecords # <<>> /\ f \in DOMAIN UndoRecords[Len(UndoRecords)]
    <3>1. Len(<<>>) = 0 /\ depth # 0
      BY <2>1
    <3>2. UndoRecords # <<>>
      BY <3>1, <2>7
    <3>3. UndoRecords[depth] = [g \in Covered(depth) |-> Old(depth, g, Absent)]
      BY <2>7, <2>1
    <3>4. f \in DOMAIN UndoRecords[depth]
      BY <3>3, <2>1
    <3>5. QED
      BY <3>2, <3>4, <2>7
  <2>9. Mode = "rolling" /\ Mode' = Mode
    BY <2>1 DEF Mode, RollingBack, InRecovery
  <2>10. Store!RollBackFile(f, v)
    BY <1>1, <2>5, <2>8, <2>9 DEF Store!RollBackFile, Store!Newest
  <2>11. QED
    BY <2>10 DEF Store!Next, Value
<1>8. QED
  BY <1>6, <1>7

\* Where the records live: sequences of functions from files to values.
Records == UNION {[S -> Value] : S \in SUBSET File}

LEMMA RecordsSeq ==
  ASSUME TypeLoop, \A i \in 1..UndoDepth : \A f \in File : saved[i][f] # Lost
  PROVE  /\ UndoRecords \in Seq(Records)
         /\ Len(UndoRecords) = UndoDepth
         /\ \A i \in 1..UndoDepth :
              UndoRecords[i] = [f \in Covered(i) |-> Old(i, f, Absent)]
<1>1. UndoDepth \in Nat /\ 1..UndoDepth \subseteq Dir
  BY DepthRange DEF TypeLoop, TypeOK
<1>2. \A i \in 1..UndoDepth :
        [f \in Covered(i) |-> Old(i, f, Absent)] \in Records
  <2> SUFFICES ASSUME NEW i \in 1..UndoDepth
               PROVE  [f \in Covered(i) |-> Old(i, f, Absent)] \in Records
    OBVIOUS
  <2>1. Covered(i) \in SUBSET File
    BY <1>1 DEF Covered, Listed, TypeLoop, TypeOK
  <2>2. \A f \in Covered(i) : Old(i, f, Absent) \in Value
    BY <1>1, <2>1 DEF Old, Value, TypeLoop, TypeOK
  <2>3. [f \in Covered(i) |-> Old(i, f, Absent)] \in [Covered(i) -> Value]
    BY <2>2
  <2>4. QED
    BY <2>1, <2>3 DEF Records
<1>3. UndoRecords \in [1..UndoDepth -> Records]
  BY <1>2 DEF UndoRecords
<1>4. QED
  BY <1>1, <1>3 DEF UndoRecords

LEMMA FinalizeRefines ==
  ASSUME TypeLoop, TypeLoop', SafeInv, SafeInv', FinalizeCheckpoint
  PROVE  Store!Next
<1>0. PICK n : n = depth + 1
  OBVIOUS
<1> DEFINE S == Covered(Progress)
<1>1. /\ n \in Dir /\ n # Progress /\ n # Temp /\ depth \in Nat
      /\ Progress \in Dir /\ Temp \in Dir /\ Temp # Progress
      /\ \A i \in 1..depth : i \in Dir /\ i # n /\ i # Progress
  BY <1>0, BoundAssumption
     DEF FinalizeCheckpoint, TypeLoop, TypeOK, Dir, Temp, Progress
<1>2. \A e \in Dir :
        /\ saved'[e] = IF e = Progress THEN NoCopies
                       ELSE IF e = n THEN saved[Progress] ELSE saved[e]
        /\ new'[e] = IF e = Progress THEN {}
                     ELSE IF e = n THEN new[Progress] ELSE new[e]
  BY <1>0, <1>1 DEF FinalizeCheckpoint, TypeLoop, TypeOK
<1>3. pc = "idle" /\ pc' = "idle" /\ disk' = disk /\ depth' = n
  BY <1>0 DEF FinalizeCheckpoint
<1>4. S \in SUBSET File
  BY <1>1 DEF Covered, Listed, TypeLoop, TypeOK
<1>5. UndoDepth = depth /\ UndoDepth' = n /\ Mode = "running" /\ Mode' = Mode
  BY <1>3 DEF UndoDepth, Mode, RollingBack
<1>6. /\ \A d \in Dir, f \in File : saved[d][f] # Lost
      /\ \A d \in Dir, f \in File : saved'[d][f] # Lost
  BY <1>3 DEF SafeInv, KeptInv, CopiesKept
<1>7. /\ UndoRecords \in Seq(Records)
      /\ Len(UndoRecords) = depth
      /\ \A i \in 1..depth :
           UndoRecords[i] = [f \in Covered(i) |-> Old(i, f, Absent)]
  BY <1>1, <1>5, <1>6, RecordsSeq
<1>8. /\ UndoRecords' \in Seq(Records)
      /\ Len(UndoRecords') = n
      /\ \A i \in 1..n :
           UndoRecords'[i] = [f \in Covered(i)' |-> Old(i, f, Absent)']
  <2>1. \A i \in 1..n : i \in Dir
    BY <1>0, <1>1 DEF Dir
  <2>2. \A i \in 1..UndoDepth' : \A f \in File : saved'[i][f] # Lost
    BY <2>1, <1>5, <1>6
  <2>3. /\ UndoRecords' \in Seq(Records)
        /\ Len(UndoRecords') = UndoDepth'
        /\ \A i \in 1..UndoDepth' :
             UndoRecords'[i] = [f \in Covered(i)' |-> Old(i, f, Absent)']
    <3>1. /\ UndoRecords' = [i \in 1..n |-> [f \in Covered(i)' |-> Old(i, f, Absent)']]
      BY <1>5 DEF UndoRecords
    <3>2. \A i \in 1..n :
            [f \in Covered(i)' |-> Old(i, f, Absent)'] \in Records
      <4> SUFFICES ASSUME NEW i \in 1..n
                   PROVE  [f \in Covered(i)' |-> Old(i, f, Absent)'] \in Records
        OBVIOUS
      <4>1. Covered(i)' \in SUBSET File
        BY <2>1 DEF Covered, Listed, TypeLoop, TypeOK
      <4>2. \A f \in Covered(i)' : Old(i, f, Absent)' \in Value
        BY <2>1, <4>1 DEF Old, Value, TypeLoop, TypeOK
      <4>3. QED
        BY <4>1, <4>2 DEF Records
    <3>3. QED
      BY <3>1, <3>2, <1>0, <1>5, <1>1
  <2>4. QED
    BY <2>3, <1>5
<1>9. \A f \in File : Committed[f] = Old(Progress, f, Old(Temp, f, disk[f]))
  BY <1>3 DEF Committed, Preimage
<1>10. \A f \in File : Committed'[f] = Old(Temp, f, disk[f])
  <2>1. \A f \in File : \A v : Old(Progress, f, v)' = v'
    BY <1>1, <1>2 DEF Old, NoCopies
  <2>2. \A f \in File : Old(Temp, f, disk[f])' = Old(Temp, f, disk[f])
    BY <1>1, <1>2, <1>3 DEF Old
  <2>3. QED
    BY <2>1, <2>2, <1>3, <1>1, <1>2 DEF Committed, Preimage, Old, NoCopies
<1>11. Committed' \in [File -> Value]
  <2>1. \A f \in File : Old(Temp, f, disk[f]) \in Value
    BY <1>1, <1>6 DEF Old, Value, TypeLoop, TypeOK
  <2>2. QED
    BY <2>1, <1>10 DEF Committed
<1>12. Committed' = [f \in File |-> IF f \in S THEN Committed'[f] ELSE Committed[f]]
  <2>1. \A f \in File : f \notin S => Committed'[f] = Committed[f]
    BY <1>9, <1>10 DEF Old, Covered, Listed
  <2>2. QED
    BY <2>1 DEF Committed
<1>13. UndoRecords' = Append(UndoRecords, [f \in S |-> Committed[f]])
  <2> DEFINE r == [f \in S |-> Committed[f]]
  <2>1. \A i \in 1..depth : UndoRecords'[i] = UndoRecords[i]
    <3>1. \A i \in 1..depth : Covered(i)' = Covered(i)
      BY <1>1, <1>2 DEF Covered, Listed
    <3>2. \A i \in 1..depth, f \in File : Old(i, f, Absent)' = Old(i, f, Absent)
      BY <1>1, <1>2 DEF Old
    <3>3. \A i \in 1..depth : Covered(i) \subseteq File
      BY <1>1 DEF Covered, Listed, TypeLoop, TypeOK
    <3>4. \A i \in 1..depth : i \in 1..n
      BY <1>0, <1>1
    <3>5. QED
      BY <3>1, <3>2, <3>3, <3>4, <1>7, <1>8
  <2>2. UndoRecords'[n] = r
    <3>1. saved'[n] = saved[Progress] /\ new'[n] = new[Progress]
      BY <1>1, <1>2
    <3>2. Covered(n)' = S
      BY <3>1 DEF Covered, Listed
    <3>3. \A f \in S : Old(n, f, Absent)' = Committed[f]
      <4> SUFFICES ASSUME NEW f \in S
                   PROVE  Old(n, f, Absent)' = Old(Progress, f, Old(Temp, f, disk[f]))
        BY <1>4, <1>9
      <4>1. f \in new[Progress] \/ saved[Progress][f] \notin {None, Lost}
        BY <1>1, <1>4, <1>6 DEF Covered, Listed
      <4>2. QED
        BY <3>1, <4>1 DEF Old
    <3>4. n \in 1..n
      BY <1>0, <1>1
    <3>5. UndoRecords'[n] = [f \in Covered(n)' |-> Old(n, f, Absent)']
      BY <1>8, <3>4
    <3>6. QED
      BY <3>2, <3>3, <3>5
  <2>3. r \in Records
    <3>1. \A f \in S : Committed[f] \in Value
      <4> SUFFICES ASSUME NEW f \in S
                   PROVE  Old(Progress, f, Old(Temp, f, disk[f])) \in Value
        BY <1>4, <1>9
      <4>1. saved \in [Dir -> [File -> Content \cup {None, Lost}]]
            /\ disk \in [File -> Value] /\ f \in File
        BY <1>4 DEF TypeLoop, TypeOK
      <4>2. Old(Temp, f, disk[f]) \in Value
        BY <4>1, <1>1 DEF Old, Value
      <4>3. QED
        BY <4>1, <4>2, <1>1 DEF Old, Value
    <3>2. QED
      BY <3>1, <1>4 DEF Records
  <2> HIDE DEF r
  <2>4. /\ Append(UndoRecords, r) \in Seq(Records)
        /\ Len(Append(UndoRecords, r)) = n
        /\ \A i \in 1..depth : Append(UndoRecords, r)[i] = UndoRecords[i]
        /\ Append(UndoRecords, r)[n] = r
    BY <1>0, <1>7, <2>3, AppendProperties
  <2>5. \A i \in 1..n : i \in 1..depth \/ i = n
    BY <1>0, <1>1
  <2>6. \A i \in 1..n : UndoRecords'[i] = Append(UndoRecords, r)[i]
    BY <2>1, <2>2, <2>4, <2>5
  <2>7. UndoRecords' = Append(UndoRecords, r)
    BY <1>8, <2>4, <2>6, SeqEqual
  <2>8. QED
    BY <2>7 DEF r
<1>14. Store!Commit(S)
  BY <1>5, <1>11, <1>12, <1>13 DEF Store!Commit
<1>15. QED
  BY <1>4, <1>14 DEF Store!Next

\* With no checkpoint open nothing stands between disk and configuration.
LEMMA NothingOpen ==
  ASSUME TypeLoop, SafeInv, exists = {}, pc = "rmtree" => target \notin Open
  PROVE  \A f \in File : Committed[f] = disk[f]
<1>1. \A e \in Open : Covered(e) = {}
  BY Dirs DEF SafeInv, KeptInv, EmptyWhenGone, Open
<1>2. QED
  BY <1>1 DEF Committed, Preimage, Old, Covered, Listed, Open

\* At the end of the loops the directory has been taken back: leaving it out
\* changes nothing, and if it was a backup the rollback is done.
LEMMA RemoveDoneRefines ==
  ASSUME TypeLoop, SafeInv, RemoveDone
  PROVE  Store!Next
<1>1. /\ pc = "remove" /\ pc' = "rmtree" /\ left = {} /\ target \in Dir
      /\ UNCHANGED <<disk, exists, depth, saved, new, target>>
  BY DEF RemoveDone, dirs, loop, TypeLoop, TypeOK
<1>2. \A f \in File : Old(target, f, disk[f]) = disk[f]
  BY TakenBack DEF SafeInv
<1>3. CASE target \in Open
  <2>1. UndoRecords' = UndoRecords
    <3>1. ~ (target > 0)
      BY <1>3 DEF Open, Temp, Progress
    <3>2. QED
      BY <1>1, <3>1, SameRecords DEF UndoDepth, RollingBack
  <2>2. QED
    BY <1>3, <2>1, RemoveDoneKeeps, ChangesMode DEF SafeInv
<1>4. CASE target \notin Open
  <2>1. target > 0 /\ exists = {} /\ target = depth /\ depth \in 1..MaxBackups
    BY <1>1, <1>4, BoundAssumption
       DEF Dir, Open, Temp, Progress, TypeLoop, TypeOK, LoopSound, InRecovery
  <2>2. \A e \in Open : Covered(e) = {} /\ e # target
    BY <2>1, <1>4, Dirs DEF SafeInv, KeptInv, EmptyWhenGone, Open
  <2>3. \A f \in File : Committed[f] = disk[f] /\ Committed'[f] = disk[f]
    BY <1>1, <2>2 DEF Committed, Preimage, Old, Covered, Listed, Open
  <2>4. Committed' = Committed
    BY <2>3 DEF Committed
  <2>5. UndoDepth = depth /\ UndoDepth' = depth - 1
        /\ Mode = "rolling" /\ Mode' = "rolling"
    <3>1. RollingBack /\ RollingBack' /\ pc # "rmtree" /\ pc' = "rmtree"
      BY <1>1, <2>1 DEF RollingBack
    <3>2. depth' = depth
      BY <1>1
    <3>3. UndoDepth = depth /\ UndoDepth' = depth - 1
      BY <3>1, <3>2, Zenon DEF UndoDepth
    <3>4. Mode = "rolling" /\ Mode' = "rolling"
      BY <1>1, <2>1 DEF Mode, RollingBack
    <3>5. QED
      BY <3>3, <3>4
  <2>6. \A i \in 1..UndoDepth, f \in File : saved[i][f] # Lost
    <3>1. \A i \in 1..UndoDepth : i \in Dir
      BY DepthRange
    <3>2. QED
      BY <1>1, <3>1 DEF SafeInv, KeptInv, CopiesKept
  <2>7. /\ UndoRecords \in Seq(Records) /\ Len(UndoRecords) = depth
        /\ \A i \in 1..depth :
             UndoRecords[i] = [f \in Covered(i) |-> Old(i, f, Absent)]
    BY <2>5, <2>6, RecordsSeq
  <2>8. UndoRecords # <<>>
    BY <2>1, <2>7
  <2>9. \A f \in DOMAIN UndoRecords[depth] :
          Committed[f] = UndoRecords[depth][f]
    <3> SUFFICES ASSUME NEW f \in Covered(depth)
                 PROVE  Committed[f] = Old(depth, f, Absent)
      BY <2>1, <2>7
    <3>1. f \in File
      BY <2>1, <1>1 DEF Covered, Listed, TypeLoop, TypeOK
    <3>2. f \in new[depth] \/ saved[depth][f] \notin {None, Lost}
      BY <3>1, <2>1, <2>5, <2>6 DEF Covered, Listed
    <3>3. Old(depth, f, disk[f]) = disk[f]
      BY <1>2, <2>1, <3>1
    <3>4. QED
      BY <2>3, <3>1, <3>2, <3>3 DEF Old
  <2>10. UndoRecords' = SubSeq(UndoRecords, 1, depth - 1)
    <3>1. \A i \in 1..depth - 1 : Covered(i)' = Covered(i)
      BY <1>1 DEF Covered, Listed
    <3>2. UndoRecords' = [i \in 1..depth - 1 |-> UndoRecords[i]]
      BY <1>1, <2>1, <2>5, <2>7, <3>1 DEF UndoRecords, Old
    <3>3. SubSeq(UndoRecords, 1, depth - 1)
            = [i \in 1..depth - 1 |-> UndoRecords[i]]
      BY <2>1, <2>7
    <3>4. QED
      BY <3>2, <3>3
  <2>11. Store!RollBackDone
    BY <2>4, <2>5, <2>7, <2>8, <2>9, <2>10 DEF Store!RollBackDone, Store!Newest
  <2>12. QED
    BY <2>11 DEF Store!Next
<1>5. QED
  BY <1>3, <1>4

\* Inside rmtree the directory being deleted counts no more, so what is left
\* of it does not matter.
LEMMA DeletingRefines ==
  ASSUME TypeLoop, pc = "rmtree", pc' = "rmtree",
         UNCHANGED <<disk, depth, target>>,
         \A d \in Dir : d # target => saved'[d] = saved[d] /\ new'[d] = new[d]
  PROVE  Store!Next
<1>1. UndoRecords' = UndoRecords
  <2>1. \A i \in 1..UndoDepth : i \in Dir /\ i # target
    BY BoundAssumption
       DEF UndoDepth, RollingBack, TypeLoop, TypeOK, LoopSound, InRecovery, Dir,
           Open, Temp, Progress
  <2>2. QED
    BY <2>1, SameRecords DEF UndoDepth, RollingBack
<1>2. QED
  BY <1>1, DeletingKeeps, ChangesMode

LEMMA RemoveDirectoryRefines ==
  ASSUME TypeLoop, TypeLoop', RemoveDirectory
  PROVE  Store!Next
<1>1. /\ pc = "rmtree" /\ pc' # "rmtree"
      /\ depth' = IF target \in Open THEN depth ELSE depth - 1
      /\ UNCHANGED <<disk, saved, new>>
  BY DEF RemoveDirectory, RecoverCheckpoint, LeaveLoop
<1>2. UndoDepth' = UndoDepth
  <2>1. target > 0 <=> target \notin Open
    BY BoundAssumption DEF TypeLoop, TypeOK, Dir, Open, Temp, Progress
  <2>2. QED
    BY <1>1, <2>1 DEF UndoDepth, RollingBack
<1>3. UndoRecords' = UndoRecords
  BY <1>1, <1>2, SameRecords
<1>4. QED
  BY <1>3, RemoveDirectoryKeeps, ChangesMode

\* What the administrator changes is the committed configuration, unless a
\* checkpoint left open covers the file: then recovery will undo the edit.
LEMMA UserEditRefines ==
  ASSUME TypeLoop, SafeInv, NEW f \in File, NEW v \in Value, UserEdit(f, v)
  PROVE  Store!Next
<1>1. /\ pc = "down" /\ pc' = "down" /\ disk' = [disk EXCEPT ![f] = v]
      /\ UNCHANGED <<depth, saved, new>>
      /\ disk \in [File -> Value]
  BY DEF UserEdit, dirs, TypeLoop, TypeOK
<1>2. UndoRecords' = UndoRecords
  BY <1>1, SameRecords DEF UndoDepth, RollingBack
<1>3. /\ \A g \in File :
           Committed[g] = Old(Progress, g, Old(Temp, g, disk[g]))
      /\ \A g \in File :
           Committed'[g] = Old(Progress, g, Old(Temp, g, disk'[g]))
  BY <1>1 DEF Committed, Preimage, Old
<1>4. \A g \in File : g # f => Committed'[g] = Committed[g]
  BY <1>1, <1>3
<1>5. Committed'[f] \in Value
  <2>1. \A d \in Open : saved[d][f] \in Content \cup {None}
    BY <1>1, Dirs DEF SafeInv, KeptInv, CopiesKept, TypeLoop, TypeOK, Open
  <2>2. \A d \in Open, w \in Value : Old(d, f, w) \in Value
    BY <2>1 DEF Old, Value
  <2>3. QED
    BY <1>1, <1>3, <2>2 DEF Open
<1>6. Committed' = [Committed EXCEPT ![f] = Committed'[f]]
  BY <1>4 DEF Committed
<1>7. Store!UserEdit(f, Committed'[f])
  BY <1>1, <1>2, <1>6 DEF Store!UserEdit, Mode
<1>8. QED
  BY <1>5, <1>7 DEF Store!Next, Value

\* Every step of Reverter is a step of ConfigStore or leaves it alone.
LEMMA StepRefines ==
  ASSUME RmtreeCrash = FALSE, TypeLoop, TypeLoop', SafeInv, SafeInv', [Next]_vars
  PROVE  Store!Next \/ UNCHANGED <<Committed, UndoRecords, Mode>>
<1>1. ASSUME NEW d \in Open, NEW S \in SUBSET File,
             AddToCheckpoint(d, S) \/ AddFails(d, S) \/ AddCrashes(d, S)
      PROVE  Store!Next
  BY <1>1, RecordRefines
<1>2. ASSUME NEW d \in Open, NEW f \in File, RegisterNewFile(d, f)
      PROVE  Store!Next
  <2>1. /\ pc = "idle" /\ pc' = "idle" /\ d \in Dir
        /\ new' = [new EXCEPT ![d] = @ \cup {f}]
        /\ UNCHANGED <<depth, saved>>
    BY <1>2, Dirs DEF RegisterNewFile, Open
  <2>2. \A e \in Dir : e # d => new'[e] = new[e]
    BY <2>1 DEF TypeLoop, TypeOK
  <2>3. UndoRecords' = UndoRecords
    BY <2>1, <2>2, DepthRange, SameRecords DEF UndoDepth, RollingBack
  <2>4. QED
    BY <1>2, <2>3, RegisterKeeps, ChangesMode DEF SafeInv
<1>3. ASSUME NEW f \in File, NEW v \in Content, WriteFile(f, v)
      PROVE  Store!Next
  <2>1. UndoRecords' = UndoRecords
    BY <1>3, SameRecords DEF WriteFile, dirs, UndoDepth, RollingBack
  <2>2. QED
    BY <1>3, <2>1, WriteKeeps, ChangesMode DEF SafeInv
<1>4. ASSUME FinalizeCheckpoint
      PROVE  Store!Next
  BY <1>4, FinalizeRefines
<1>5. ASSUME \/ \E d \in Open : RegisterFails(d)
             \/ Start \/ Recover \/ RevertTemporaryConfig
             \/ \E n \in 1..MaxBackups : RollbackCheckpoints(n)
             \/ RestoreFails \/ RestoreDone \/ Exit
             \/ Crash
      PROVE  Store!Next
  BY <1>5, QuietRefines
     DEF RegisterFails, Start, Recover, RecoveryRoutine, RevertTemporaryConfig,
         RollbackCheckpoints, RecoverCheckpoint, LeaveLoop, RestoreFails,
         RestoreDone, Exit, Crash, dirs
<1>6. ASSUME NEW f \in File, RestoreFile(f) \/ RemoveFile(f)
      PROVE  Store!Next
  <2>1. CASE RestoreFile(f)
    <3>1. f \in Covered(target) /\ InRecovery
      BY <2>1 DEF RestoreFile, Covered, InRecovery, TypeLoop, LoopSound
    <3>2. saved[target][f] \in Value
      BY <2>1, <3>1
         DEF RestoreFile, TypeLoop, TypeOK, LoopSound, InRecovery, Listed, Value
    <3>3. QED
      BY <2>1, <3>1, <3>2, LoopRefines DEF RestoreFile, dirs
  <2>2. CASE RemoveFile(f)
    <3>1. f \in Covered(target) /\ InRecovery
      BY <2>2 DEF RemoveFile, Covered, InRecovery, SafeInv, KeptInv, RemovedSoFar
    <3>2. QED
      BY <2>2, <3>1, LoopRefines DEF RemoveFile, dirs, Value
  <2>3. QED
    BY <1>6, <2>1, <2>2
<1>7. ASSUME RemoveDone
      PROVE  Store!Next
  BY <1>7, RemoveDoneRefines
<1>8. ASSUME \/ \E f \in File : DeleteCopy(f)
             \/ DeleteFilepaths \/ DeleteNewFiles
      PROVE  Store!Next
  <2>1. /\ pc = "rmtree" /\ pc' = "rmtree"
        /\ UNCHANGED <<disk, depth, target>>
        /\ \A d \in Dir : d # target => saved'[d] = saved[d] /\ new'[d] = new[d]
    BY <1>8
       DEF DeleteCopy, DeleteFilepaths, DeleteNewFiles, loop, TypeLoop, TypeOK
  <2>2. QED
    BY <2>1, DeletingRefines
<1>9. ASSUME RemoveDirectory
      PROVE  Store!Next
  BY <1>9, RemoveDirectoryRefines
<1>10. ASSUME NEW f \in File, NEW v \in Value, UserEdit(f, v)
       PROVE  Store!Next
  BY <1>10, UserEditRefines
<1>11. ASSUME UNCHANGED vars
       PROVE  UNCHANGED <<Committed, UndoRecords, Mode>>
  <2>1. UNCHANGED <<disk, depth, saved, new, pc, target>>
    BY <1>11 DEF vars, dirs, loop
  <2>2. QED
    BY <2>1, SameRecords, CommittedAt
       DEF UndoDepth, RollingBack, Mode, Preimage, Old
<1>12. QED
  BY <1>1, <1>2, <1>3, <1>4, <1>5, <1>6, <1>7, <1>8, <1>9, <1>10, <1>11
     DEF Next, Installing, Recovering

LEMMA InitRefines == Init => Store!Init
<1> SUFFICES ASSUME Init
             PROVE  Store!Init
  OBVIOUS
<1>1. /\ disk \in [File -> Value] /\ pc = "down" /\ depth = 0
      /\ \A d \in Dir : Covered(d) = {}
  BY DEF Init, Covered, Listed, NoCopies
<1>2. \A f \in File : Committed[f] = disk[f]
  BY <1>1, Dirs DEF Committed, Preimage, Old, Covered, Listed
<1>3. Committed \in [File -> Value]
  BY <1>1, <1>2 DEF Committed
<1>4. UndoRecords = <<>>
  BY <1>1 DEF UndoRecords, UndoDepth, RollingBack
<1>5. QED
  BY <1>1, <1>3, <1>4 DEF Store!Init, Mode

\* Unless the process dies inside rmtree, certbot's reverter keeps the promise
\* of ConfigStore for any files, contents and bounds: crashes anywhere else
\* and failed registrations included, recovery restores the last finalized
\* configuration exactly, and a rollback undoes exactly its checkpoint.
THEOREM Refinement ==
  ASSUME RmtreeCrash = FALSE
  PROVE  Spec => ImplementsConfigStore
<1>1. Init => TypeLoop /\ SafeInv
  BY TypeLoopInit, SafeInit
<1>2. TypeLoop /\ SafeInv /\ [Next]_vars => (TypeLoop /\ SafeInv)'
  BY TypeLoopStep, SafeStep
<1>3. TypeLoop /\ SafeInv /\ (TypeLoop /\ SafeInv)' /\ [Next]_vars
        => [Store!Next]_(Store!vars)
  BY StepRefines DEF Store!vars
<1>4. QED
  BY <1>1, <1>2, <1>3, InitRefines, PTL DEF Spec, ImplementsConfigStore, Store!Spec

-----------------------------------------------------------------------------
(***************************************************************************)
(* Originals survive, wherever the process dies.                           *)
(***************************************************************************)

LEMMA StepSurvives ==
  ASSUME TypeLoop, KeptInv, [Next]_vars, Mode = "running", ~ (depth' > depth),
         NEW f \in File, Committed[f] # Absent
  PROVE  Committed'[f] = Committed[f]
<1>1. pc # "down" /\ ~ RollingBack
  BY DEF Mode
<1>2. InRecovery => target \in Open
  BY <1>1, Dirs, BoundAssumption
     DEF RollingBack, InRecovery, TypeLoop, TypeOK, Dir, Open, Temp, Progress
<1>3. ASSUME NEW d \in Open, NEW S \in SUBSET File,
             AddToCheckpoint(d, S) \/ AddFails(d, S) \/ AddCrashes(d, S)
      PROVE  Committed' = Committed
  BY <1>3, AddKeeps
<1>4. ASSUME NEW d \in Open, NEW g \in File, RegisterNewFile(d, g)
      PROVE  Committed' = Committed
  BY <1>4, RegisterKeeps
<1>5. ASSUME NEW g \in File, NEW v \in Content, WriteFile(g, v)
      PROVE  Committed' = Committed
  BY <1>5, WriteKeeps
<1>6. ~ FinalizeCheckpoint
  BY DEF FinalizeCheckpoint, TypeLoop, TypeOK
<1>7. ASSUME \/ \E d \in Open : RegisterFails(d)
             \/ Recover \/ RevertTemporaryConfig
             \/ \E n \in 1..MaxBackups : RollbackCheckpoints(n)
             \/ RestoreFails \/ RestoreDone \/ Exit
      PROVE  Committed' = Committed
  BY <1>7, QuietKeeps
     DEF RegisterFails, Recover, RecoveryRoutine, RevertTemporaryConfig,
         RollbackCheckpoints, RecoverCheckpoint, LeaveLoop, RestoreFails,
         RestoreDone, Exit, dirs
<1>8. ASSUME NEW g \in File, RestoreFile(g) \/ RemoveFile(g)
      PROVE  Committed' = Committed
  <2>1. /\ InRecovery /\ pc # "rmtree" /\ pc' = pc /\ target' = target
        /\ UNCHANGED <<saved, new>>
        /\ \A h \in File : h # g => disk'[h] = disk[h]
    BY <1>8 DEF RestoreFile, RemoveFile, InRecovery, dirs, TypeLoop, TypeOK
  <2>2. g \in new[target] \/ saved[target][g] \notin {None, Lost}
    BY <1>8, <2>1
       DEF RestoreFile, RemoveFile, TypeLoop, LoopSound, Listed, KeptInv,
           RemovedSoFar
  <2>3. QED
    BY <1>2, <2>1, <2>2, LoopKeeps
<1>9. ASSUME RemoveDone
      PROVE  Committed' = Committed
  BY <1>2, <1>9, RemoveDoneKeeps DEF RemoveDone, InRecovery
<1>10. ASSUME \/ \E g \in File : DeleteCopy(g)
              \/ DeleteFilepaths \/ DeleteNewFiles
       PROVE  Committed' = Committed
  <2>1. /\ pc = "rmtree" /\ pc' = "rmtree" /\ UNCHANGED <<disk, target>>
        /\ \A d \in Dir : d # target => saved'[d] = saved[d] /\ new'[d] = new[d]
    BY <1>10
       DEF DeleteCopy, DeleteFilepaths, DeleteNewFiles, loop, TypeLoop, TypeOK
  <2>2. QED
    BY <2>1, DeletingKeeps
<1>11. ASSUME RemoveDirectory
       PROVE  Committed' = Committed
  BY <1>11, RemoveDirectoryKeeps
<1>12. ASSUME Crash
       PROVE  Committed'[f] = Committed[f]
  <2>1. CASE InRecovery
    BY <1>2, <1>12, <2>1, CrashKeeps
  <2>2. CASE ~ InRecovery
    <3>1. Committed' = Committed
      BY <1>12, <2>2, QuietKeeps DEF Crash, LeaveLoop, InRecovery, dirs
    <3>2. QED
      BY <3>1
  <2>3. QED
    BY <2>1, <2>2
<1>13. ~ Start /\ ~ \E g \in File, v \in Value : UserEdit(g, v)
  BY <1>1 DEF Start, UserEdit
<1>14. ASSUME UNCHANGED vars
       PROVE  Committed' = Committed
  BY <1>14, CommittedAt DEF vars, dirs, loop, Preimage, Old
<1>15. QED
  BY <1>3, <1>4, <1>5, <1>6, <1>7, <1>8, <1>9, <1>10, <1>11, <1>12, <1>13,
     <1>14
     DEF Next, Installing, Recovering

\* Wherever the process dies, inside rmtree too, a file of the committed
\* configuration is changed or lost only by finalizing, by rolling back, or
\* by the administrator: for any files, contents and bounds.
THEOREM Survival == Spec => OriginalsSurvive
<1> DEFINE Survives ==
      \A f \in File :
        (Committed[f] # Absent /\ Committed'[f] # Committed[f])
          => \/ Mode = "rolling" \/ Mode = "stopped" \/ depth' > depth
<1>1. Init => TypeLoop /\ KeptInv
  BY TypeLoopInit, SafeInit DEF SafeInv
<1>2. TypeLoop /\ KeptInv /\ [Next]_vars => (TypeLoop /\ KeptInv)'
  BY TypeLoopStep, KeptStep
<1>3. TypeLoop /\ KeptInv /\ [Next]_vars => Survives
  <2>1. Mode \in {"stopped", "rolling", "running"}
    BY DEF Mode
  <2>2. QED
    BY <2>1, StepSurvives
<1>4. TypeLoop /\ KeptInv /\ [Next]_vars => [Survives]_vars
  BY <1>3
<1>5. QED
  BY <1>1, <1>2, <1>4, PTL DEF Spec, OriginalsSurvive
=============================================================================
