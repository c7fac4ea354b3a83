---------------------------- MODULE ConfigStore ----------------------------
(***************************************************************************)
(* What certbot's reverter promises about the server configuration it      *)
(* edits, with checkpoints, backup directories and crash points left out.  *)
(*                                                                         *)
(* There is one committed configuration, cfg: the one a restart with       *)
(* recovery would leave on disk.  While certbot runs only a commit changes *)
(* it, and every commit leaves an undo record, the previous content of the *)
(* files it covers.  A rollback works on the newest record file by file,   *)
(* may be interrupted, and is over only when each file of the record has   *)
(* its old content back.  While certbot is stopped the administrator may   *)
(* edit any file by hand.                                                  *)
(***************************************************************************)
EXTENDS Naturals, Sequences

CONSTANTS File,    \* configuration files of the web server
          Value    \* what a path may hold: a content, or nothing at all

VARIABLES cfg,     \* the committed configuration, [File -> Value]
          undo,    \* undo records, newest last: functions from some files
          mode     \* "stopped", "running" or "rolling" (back)

vars == <<cfg, undo, mode>>

Newest == undo[Len(undo)]

Init == /\ cfg \in [File -> Value]
        /\ undo = <<>>
        /\ mode = "stopped"

\* Start, crash, exit, beginning a rollback: no configuration changes hands.
ChangeMode == /\ mode' \in {"stopped", "running", "rolling"}
              /\ UNCHANGED <<cfg, undo>>

UserEdit(f, v) == /\ mode = "stopped"
                  /\ cfg' = [cfg EXCEPT ![f] = v]
                  /\ UNCHANGED <<undo, mode>>

\* The files of S get new contents together, and can be taken back together.
Commit(S) == /\ mode = "running"
             /\ \E new \in [File -> Value] :
                  cfg' = [f \in File |-> IF f \in S THEN new[f] ELSE cfg[f]]
             /\ undo' = Append(undo, [f \in S |-> cfg[f]])
             /\ UNCHANGED mode

\* Not atomic: an interrupted rollback leaves the files of the newest record
\* in between, never any other file, and keeps the record.
RollBackFile(f, v) == /\ mode = "rolling"
                      /\ undo # <<>>
                      /\ f \in DOMAIN Newest
                      /\ cfg' = [cfg EXCEPT ![f] = v]
                      /\ UNCHANGED <<undo, mode>>

RollBackDone == /\ mode = "rolling"
                /\ undo # <<>>
                /\ \A f \in DOMAIN Newest : cfg[f] = Newest[f]
                /\ undo' = SubSeq(undo, 1, Len(undo) - 1)
                /\ UNCHANGED <<cfg, mode>>

Next == \/ ChangeMode
        \/ \E f \in File, v \in Value : UserEdit(f, v) \/ RollBackFile(f, v)
        \/ \E S \in SUBSET File : Commit(S)
        \/ RollBackDone

Spec == Init /\ [][Next]_vars
=============================================================================
