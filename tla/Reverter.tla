------------------------------ MODULE Reverter ------------------------------
(***************************************************************************)
(* certbot/reverter.py: checkpoints of the web server's configuration.     *)
(*                                                                         *)
(* Before an installer plugin edits or creates a file it registers it in   *)
(* one of two open checkpoint directories: temp_checkpoint (challenges) or *)
(* IN_PROGRESS (lasting changes).  finalize_checkpoint renames IN_PROGRESS *)
(* into the backups directory; rollback_checkpoints takes the newest       *)
(* backups back one by one; recovery_routine drops whatever the last run   *)
(* left open, and every installer calls it before anything else.           *)
(*                                                                         *)
(* The process may die between any two steps of a recovery, and in the     *)
(* middle of a registration.  Abstracted: the order of the lines inside    *)
(* FILEPATHS and NEW_FILES (they are filled from Python sets), the notes   *)
(* in CHANGES_SINCE, the names of backups (CheckpointNames shows that      *)
(* their order is the order of finalization), and the undo commands, which *)
(* act on the server's modules and not on the files tracked here.          *)
(***************************************************************************)
EXTENDS Integers

CONSTANTS File,          \* paths the installer may touch
          Content,       \* what a file may contain
          Absent,        \* no such file
          None,          \* not listed in FILEPATHS
          Lost,          \* listed in FILEPATHS, its copy already deleted
          MaxBackups,    \* bound: finalized checkpoints that exist at once
          MaxCrashes,    \* bound: crashes in one behaviour
          RmtreeCrash    \* may the process die inside shutil.rmtree?

ASSUME ValueAssumption ==
  /\ Absent \notin Content
  /\ None \notin Content
  /\ Lost \notin Content
  /\ None # Lost
ASSUME BoundAssumption == MaxBackups \in Nat /\ MaxCrashes \in Nat
ASSUME FaultAssumption == RmtreeCrash \in BOOLEAN

VARIABLES disk,      \* the configuration files, [File -> Value]
          exists,    \* which of the two open checkpoint directories exist
          depth,     \* how many directories the backups directory holds
          saved,     \* FILEPATHS of each directory, with the copies
          new,       \* NEW_FILES of each directory
          pc,        \* where the process is; "down" when there is none
          target,    \* the directory _recover_checkpoint is working on
          left,      \* the files its current loop has not reached yet
          more,      \* how many directories the caller recovers after it
          crashes    \* crashes so far

dirs == <<exists, depth, saved, new>>
loop == <<target, left, more>>
vars == <<disk, dirs, pc, loop, crashes>>

Value == Content \cup {Absent}

Temp     == -1                    \* IConfig.temp_checkpoint_dir
Progress == 0                     \* IConfig.in_progress_dir
Open     == {Temp, Progress}
Dir      == -1..MaxBackups        \* 1..depth: backups, in the order they sort

Listed(d)  == {f \in File : saved[d][f] # None}
Covered(d) == Listed(d) \cup new[d]

\* Types of the variables, with the bounds.
TypeOK ==
  /\ disk \in [File -> Value]
  /\ exists \in SUBSET Open
  /\ depth \in 0..MaxBackups
  /\ saved \in [Dir -> [File -> Content \cup {None, Lost}]]
  /\ new \in [Dir -> SUBSET File]
  /\ pc \in {"down", "idle", "restore", "remove", "rmtree"}
  /\ target \in Dir
  /\ left \in SUBSET File
  /\ more \in 0..MaxBackups + 1
  /\ crashes \in 0..MaxCrashes

NoCopies == [f \in File |-> None]

Init ==
  /\ disk \in [File -> Value]
  /\ exists = {}
  /\ depth = 0
  /\ saved = [d \in Dir |-> NoCopies]
  /\ new = [d \in Dir |-> {}]
  /\ pc = "down"
  /\ target = Temp
  /\ left = {}
  /\ more = 0
  /\ crashes = 0

-----------------------------------------------------------------------------
(***************************************************************************)
(* Registering and editing files.                                          *)
(***************************************************************************)

\* Mutant of TempFree: _check_tempfile_saves is not called.
TempUnchecked(d, S) == TRUE

\* _check_tempfile_saves: add_to_checkpoint refuses files a temporary change
\* has already touched.
TempFree(d, S) == d = Progress => S \cap Covered(Temp) = {}

\* FILEPATHS of directory d gains the files of T, copied as they are now.
Record(d, T) ==
  /\ saved' = [saved EXCEPT ![d] = [f \in File |-> IF f \in T THEN disk[f]
                                                   ELSE saved[d][f]]]
  /\ exists' = exists \cup {d}

\* Mutant of AddToCheckpoint: files listed before are copied once more.
AddAgain(d, S) ==
  /\ pc = "idle"
  /\ TempFree(d, S)
  /\ \A f \in S : disk[f] # Absent
  /\ Record(d, S)
  /\ UNCHANGED <<disk, depth, new, pc, loop, crashes>>

\* add_to_checkpoint and add_to_temp_checkpoint for the files of S.  Files
\* listed before keep their oldest copy.
AddToCheckpoint(d, S) ==
  /\ pc = "idle"
  /\ TempFree(d, S)
  /\ \A f \in S \ Listed(d) : disk[f] # Absent
  /\ Record(d, S \ Listed(d))
  /\ UNCHANGED <<disk, depth, new, pc, loop, crashes>>

\* A copy fails, for a missing file or a full disk: the lines written so far
\* are kept, ReverterError is raised and the caller goes on.
AddFails(d, S) ==
  /\ pc = "idle"
  /\ TempFree(d, S)
  /\ \E T \in SUBSET (S \ Listed(d)) :
       /\ T # S \ Listed(d)
       /\ \A f \in T : disk[f] # Absent
       /\ Record(d, T)
  /\ UNCHANGED <<disk, depth, new, pc, loop, crashes>>

\* The process dies in the copy loop.  FILEPATHS is a buffered file: any part
\* of the lines written may have reached it.
AddCrashes(d, S) ==
  /\ pc = "idle"
  /\ crashes < MaxCrashes
  /\ TempFree(d, S)
  /\ \E T \in SUBSET (S \ Listed(d)) :
       /\ \A f \in T : disk[f] # Absent
       /\ Record(d, T)
  /\ pc' = "down"
  /\ crashes' = crashes + 1
  /\ UNCHANGED <<disk, depth, new, loop>>

\* register_file_creation.  It checks nothing itself; installers call it for
\* a path that does not exist yet and save the file otherwise, and do not
\* create for good what a pending challenge has already registered.
RegisterNewFile(d, f) ==
  /\ pc = "idle"
  /\ disk[f] = Absent
  /\ TempFree(d, {f})
  /\ new' = [new EXCEPT ![d] = @ \cup {f}]
  /\ exists' = exists \cup {d}
  /\ UNCHANGED <<disk, depth, saved, pc, loop, crashes>>

\* NEW_FILES cannot be opened: _get_cp_dir has made the directory already.
RegisterFails(d) ==
  /\ pc = "idle"
  /\ exists' = exists \cup {d}
  /\ UNCHANGED <<disk, depth, saved, new, pc, loop, crashes>>

\* The installer writes a registered file (filedump in its save method).
WriteFile(f, v) ==
  /\ pc = "idle"
  /\ f \in Covered(Temp) \cup Covered(Progress)
  /\ disk' = [disk EXCEPT ![f] = v]
  /\ UNCHANGED <<dirs, pc, loop, crashes>>

\* finalize_checkpoint: the title goes into CHANGES_SINCE, then IN_PROGRESS
\* is renamed into the backups directory in one step.  Without IN_PROGRESS
\* it returns at once.
FinalizeCheckpoint ==
  /\ pc = "idle"
  /\ Progress \in exists
  /\ depth < MaxBackups
  /\ depth' = depth + 1
  /\ saved' = [saved EXCEPT ![depth + 1] = saved[Progress],
                            ![Progress] = NoCopies]
  /\ new' = [new EXCEPT ![depth + 1] = new[Progress], ![Progress] = {}]
  /\ exists' = exists \ {Progress}
  /\ UNCHANGED <<disk, pc, loop, crashes>>

-----------------------------------------------------------------------------
(***************************************************************************)
(* _recover_checkpoint and its callers.                                    *)
(***************************************************************************)

RecoverCheckpoint(d, n) ==
  /\ target' = d
  /\ left' = Listed(d)
  /\ more' = n
  /\ pc' = "restore"

\* The process leaves the loops of _recover_checkpoint.
LeaveLoop(next) == /\ pc' = next
                   /\ target' = Temp
                   /\ left' = {}
                   /\ more' = 0

\* recovery_routine: the temporary checkpoint first, then IN_PROGRESS.
RecoveryRoutine ==
  IF exists = {}
  THEN LeaveLoop("idle")
  ELSE IF Temp \in exists
       THEN RecoverCheckpoint(Temp, IF Progress \in exists THEN 1 ELSE 0)
       ELSE RecoverCheckpoint(Progress, 0)

\* A certbot run begins: the installer's prepare calls recovery_routine.
Start == /\ pc = "down"
         /\ RecoveryRoutine
         /\ UNCHANGED <<disk, dirs, crashes>>

\* An error handler of the running process calls it (client.py).
Recover == /\ pc = "idle"
           /\ exists # {}
           /\ RecoveryRoutine
           /\ UNCHANGED <<disk, dirs, crashes>>

\* revert_temporary_config: the challenges are cleaned up.
RevertTemporaryConfig ==
  /\ pc = "idle"
  /\ Temp \in exists
  /\ RecoverCheckpoint(Temp, 0)
  /\ UNCHANGED <<disk, dirs, crashes>>

\* rollback_checkpoints(n): the newest n backups, or all there are.
\* Installers call it with no checkpoint open.
RollbackCheckpoints(n) ==
  /\ pc = "idle"
  /\ exists = {}
  /\ depth > 0
  /\ RecoverCheckpoint(depth, (IF n < depth THEN n ELSE depth) - 1)
  /\ UNCHANGED <<disk, dirs, crashes>>

\* One copy2 of the FILEPATHS loop.
RestoreFile(f) ==
  /\ pc = "restore"
  /\ f \in left
  /\ saved[target][f] # Lost
  /\ disk' = [disk EXCEPT ![f] = saved[target][f]]
  /\ left' = left \ {f}
  /\ UNCHANGED <<dirs, pc, target, more, crashes>>

\* The copy is gone: IOError, ReverterError, and the run is over.
RestoreFails ==
  /\ pc = "restore"
  /\ \E f \in left : saved[target][f] = Lost
  /\ LeaveLoop("down")
  /\ UNCHANGED <<disk, dirs, crashes>>

\* Mutant of RestoreDone: a file that is not there ends the loop.
RestoreCutShort ==
  /\ pc = "restore"
  /\ pc' = "remove"
  /\ left' = new[target]
  /\ UNCHANGED <<disk, dirs, target, more, crashes>>

RestoreDone ==
  /\ pc = "restore"
  /\ left = {}
  /\ pc' = "remove"
  /\ left' = new[target]
  /\ UNCHANGED <<disk, dirs, target, more, crashes>>

\* One turn of _remove_contained_files; a file never created is skipped.
RemoveFile(f) ==
  /\ pc = "remove"
  /\ f \in left
  /\ disk' = [disk EXCEPT ![f] = Absent]
  /\ left' = left \ {f}
  /\ UNCHANGED <<dirs, pc, target, more, crashes>>

RemoveDone ==
  /\ pc = "remove"
  /\ left = {}
  /\ pc' = "rmtree"
  /\ UNCHANGED <<disk, dirs, loop, crashes>>

\* shutil.rmtree deletes the entries of the directory in the order the
\* directory lists them, any order: a copy, FILEPATHS, or NEW_FILES.
DeleteCopy(f) ==
  /\ pc = "rmtree"
  /\ saved[target][f] \notin {None, Lost}
  /\ saved' = [saved EXCEPT ![target][f] = Lost]
  /\ UNCHANGED <<disk, exists, depth, new, pc, loop, crashes>>

DeleteFilepaths ==
  /\ pc = "rmtree"
  /\ Listed(target) # {}
  /\ saved' = [saved EXCEPT ![target] = NoCopies]
  /\ UNCHANGED <<disk, exists, depth, new, pc, loop, crashes>>

DeleteNewFiles ==
  /\ pc = "rmtree"
  /\ new[target] # {}
  /\ new' = [new EXCEPT ![target] = {}]
  /\ UNCHANGED <<disk, exists, depth, saved, pc, loop, crashes>>

\* Mutant of RemoveDirectory: the caller stops after the first directory.
RemoveOnlyDirectory ==
  /\ pc = "rmtree"
  /\ Covered(target) = {}
  /\ exists' = exists \ {target}
  /\ depth' = IF target \in Open THEN depth ELSE depth - 1
  /\ LeaveLoop("idle")
  /\ UNCHANGED <<disk, saved, new, crashes>>

\* The empty directory goes, and the caller takes up the next one: after
\* temp_checkpoint IN_PROGRESS, after a backup the one before it.
RemoveDirectory ==
  /\ pc = "rmtree"
  /\ Covered(target) = {}
  /\ exists' = exists \ {target}
  /\ depth' = IF target \in Open THEN depth ELSE depth - 1
  /\ IF more > 0
     THEN RecoverCheckpoint(IF target = Temp THEN Progress ELSE target - 1,
                            more - 1)
     ELSE LeaveLoop("idle")
  /\ UNCHANGED <<disk, saved, new, crashes>>

\* The process is killed, exits, or an exception ends it.
Crash ==
  /\ pc # "down"
  /\ pc = "rmtree" => RmtreeCrash
  /\ crashes < MaxCrashes
  /\ LeaveLoop("down")
  /\ crashes' = crashes + 1
  /\ UNCHANGED <<disk, dirs>>

\* A run that has nothing more to do ends.
Exit == /\ pc = "idle"
        /\ pc' = "down"
        /\ UNCHANGED <<disk, dirs, loop, crashes>>

\* The administrator edits, creates or deletes a file between two runs.
UserEdit(f, v) ==
  /\ pc = "down"
  /\ disk' = [disk EXCEPT ![f] = v]
  /\ UNCHANGED <<dirs, pc, loop, crashes>>

Recovering == \/ \E f \in File : \/ RestoreFile(f)
                                 \/ RemoveFile(f)
                                 \/ DeleteCopy(f)
              \/ RestoreFails
              \/ RestoreDone
              \/ RemoveDone
              \/ DeleteFilepaths
              \/ DeleteNewFiles
              \/ RemoveDirectory

Installing ==
  \/ \E d \in Open, S \in (SUBSET File) \ {{}} :
       AddToCheckpoint(d, S) \/ AddFails(d, S) \/ AddCrashes(d, S)
  \/ \E d \in Open, f \in File : RegisterNewFile(d, f)
  \/ \E d \in Open : RegisterFails(d)
  \/ \E f \in File, v \in Content : WriteFile(f, v)
  \/ FinalizeCheckpoint
  \/ Recover
  \/ RevertTemporaryConfig
  \/ \E n \in 1..MaxBackups : RollbackCheckpoints(n)

Next == \/ Installing
        \/ Recovering
        \/ Start
        \/ Exit
        \/ Crash
        \/ \E f \in File, v \in Value : UserEdit(f, v)

Spec == Init /\ [][Next]_vars

\* The process keeps running until it ends, and cron or a systemd timer keeps
\* starting certbot.
FairSpec == Spec /\ WF_vars(Start) /\ WF_vars(Recovering)

-----------------------------------------------------------------------------
(***************************************************************************)
(* The committed configuration, and the refinement of ConfigStore.         *)
(***************************************************************************)

\* What taking directory d back leaves at path f, found there with value v.
Old(d, f, v) == IF f \in new[d] THEN Absent
                ELSE IF saved[d][f] \notin {None, Lost} THEN saved[d][f]
                ELSE v

\* A directory being deleted has been taken back already.
Preimage(d, f, v) == IF pc = "rmtree" /\ target = d THEN v ELSE Old(d, f, v)

\* What recovery_routine would leave on disk if it ran to its end now.
Committed ==
  [f \in File |-> Preimage(Progress, f, Preimage(Temp, f, disk[f]))]

RollingBack == pc \in {"restore", "remove", "rmtree"} /\ target > 0

\* Backups that have not been taken back yet.
UndoDepth == IF RollingBack /\ pc = "rmtree" THEN depth - 1 ELSE depth

UndoRecords ==
  [i \in 1..UndoDepth |-> [f \in Covered(i) |-> Old(i, f, Absent)]]

Mode == IF pc = "down" THEN "stopped"
        ELSE IF RollingBack THEN "rolling"
        ELSE "running"

Store == INSTANCE ConfigStore WITH cfg <- Committed, undo <- UndoRecords,
                                   mode <- Mode

-----------------------------------------------------------------------------
(***************************************************************************)
(* The inductive invariant behind ImplementsConfigStore and                *)
(* OriginalsSurvive, in parts.                                             *)
(***************************************************************************)

InRecovery == pc \in {"restore", "remove", "rmtree"}

\* What does not exist lists nothing.
EmptyWhenGone ==
  \A d \in Dir : (d \in Open /\ d \notin exists) \/ d > depth => Covered(d) = {}

\* Copies get lost only in the directory that is being deleted.
CopiesKept ==
  \A d \in Dir, f \in File :
    saved[d][f] = Lost => pc = "rmtree" /\ target = d

\* The loop works on an existing directory, on files listed there, and has
\* no more directories to go than there are.
LoopSound ==
  InRecovery =>
    /\ target \in Open => target \in exists
    /\ target = Temp /\ more > 0 => more = 1 /\ Progress \in exists
    /\ target = Progress => exists = {Progress} /\ more = 0
    /\ target > 0 => exists = {} /\ target = depth /\ more < depth
    /\ pc = "restore" => left \subseteq Listed(target)

\* What the loops have passed is back in its old state.
RestoredSoFar ==
  pc = "restore" =>
    \A f \in Listed(target) \ left : disk[f] = saved[target][f]
RemovedSoFar ==
  pc = "remove" =>
    /\ left \subseteq new[target]
    /\ \A f \in new[target] \ left : disk[f] = Absent
    /\ \A f \in Listed(target) \ new[target] : disk[f] = saved[target][f]

\* While an installer works on IN_PROGRESS, every file saved is on disk, so
\* that what is registered as new was not saved before.
SavedOnDisk ==
  /\ pc = "idle" =>
       \A d \in Open, f \in File : f \in Listed(d) => disk[f] # Absent
  /\ InRecovery /\ target = Temp /\ more = 0 =>
       \A f \in Listed(Progress) : disk[f] # Absent
NewNotSaved == new[Temp] \cap Listed(Progress) = {}

\* While the directory is being deleted, what is left of it agrees with the
\* disk: a file that was both saved and created is gone.
RmtreeSoFar ==
  pc = "rmtree" =>
    \A f \in File :
      /\ f \in new[target] => disk[f] = Absent
      /\ saved[target][f] \notin {None, Lost} =>
           disk[f] \in {saved[target][f], Absent}

\* An installer never works on a directory with copies missing.
OpenCopiesKept ==
  /\ pc = "idle" => \A d \in Open, f \in File : saved[d][f] # Lost
  /\ InRecovery /\ target = Temp /\ more = 0 =>
       \A f \in File : saved[Progress][f] # Lost

IInv == /\ TypeOK
        /\ EmptyWhenGone
        /\ CopiesKept
        /\ LoopSound
        /\ RestoredSoFar
        /\ RemovedSoFar
        /\ RmtreeSoFar
        /\ SavedOnDisk
        /\ NewNotSaved
        /\ OpenCopiesKept

-----------------------------------------------------------------------------
(***************************************************************************)
(* Properties.                                                             *)
(***************************************************************************)

\* Registering, editing, failing, crashing at any point and recovering leave
\* the committed configuration alone: recovery_routine brings back exactly
\* the last finalized configuration ("Revert configuration to most recent
\* finalized checkpoint"), a finalized checkpoint can be undone to exactly
\* what it replaced, and a rollback touches no file outside its checkpoint.
ImplementsConfigStore == Store!Spec

\* No step takes a file that the committed configuration has out of it, or
\* changes it, except finalizing, rolling back and the administrator's own
\* edits: whatever the crash, an original file is never lost.
OriginalsSurvive ==
  [][\A f \in File :
       (Committed[f] # Absent /\ Committed'[f] # Committed[f])
         => \/ Mode = "rolling" \/ Mode = "stopped" \/ depth' > depth]_vars

Recovered == pc = "idle" /\ exists = {}

\* The process died inside shutil.rmtree, with copies deleted and not yet the
\* list that names them.
CopiesMissing == pc = "down" /\ \E d \in Dir, f \in File : saved[d][f] = Lost

\* A run gets past recovery_routine, to where an installer works, however
\* often recoveries were interrupted before, unless copies are missing.
RecoveryCompletes == (pc = "down" /\ exists # {}) ~> Recovered \/ CopiesMissing

\* The same without the exception: the temporary and in progress checkpoints
\* are "useful to protect against crashes and other execution interruptions"
\* (recovery_routine).
RecoveryAlwaysCompletes == (pc = "down" /\ exists # {}) ~> Recovered
=============================================================================
