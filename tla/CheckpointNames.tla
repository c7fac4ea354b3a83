-------------------------- MODULE CheckpointNames --------------------------
(***************************************************************************)
(* certbot/reverter.py: the names of finalized checkpoints.                *)
(*                                                                         *)
(* A finalized checkpoint is a directory named after the time in seconds,  *)
(* two decimals, and rollback_checkpoints takes back the directory whose   *)
(* name sorts last.  The clock may jump either way between checkpoints, so *)
(* _checkpoint_timestamp looks at the names that exist before it picks     *)
(* one.  Times are counted in hundredths of a second.                      *)
(***************************************************************************)
EXTENDS Integers, Sequences, SequencesExt

CONSTANTS Second,    \* hundredths added by "+ 1"; fewer make smaller instances
          Wrap,      \* the time whose integer part needs one digit more
          MaxTime,   \* bound: what the clock may show
          MaxName,   \* bound: names are not pushed beyond this one
          MaxBackups \* bound: checkpoints that exist at once

VARIABLES backups,  \* the directories, in the order of their finalization
          newest    \* ghost: did the last rollback take the newest of them?

vars == <<backups, newest>>

Name == 0..MaxName

\* Names are strings and sort as strings.  Of two names with integer parts of
\* the same length the earlier sorts first.  Around Wrap the shorter part
\* starts with a 9 and the longer one with a 1, so the longer sorts first.
SortsBefore(a, b) ==
  IF a >= Wrap <=> b >= Wrap THEN a < b ELSE a >= Wrap

SortsLast(S) == CHOOSE a \in S : \A b \in S \ {a} : SortsBefore(b, a)

Init == backups = <<>> /\ newest = TRUE

\* Mutant of Timestamp: only a name that exists is avoided.
TimestampUnordered(now, names) == IF now \in names THEN now + 1 ELSE now

\* _checkpoint_timestamp: the time, unless a directory sorts after it (the
\* clock has jumped back) or has that very name (two within a hundredth).
Timestamp(now, names) ==
  LET last == SortsLast(names \cup {now})
  IN  IF last # now THEN last + Second
      ELSE IF now \in names THEN now + 1
      ELSE now

\* _timestamp_progress_dir at clock time now.
Finalize(now) ==
  LET name == Timestamp(now, ToSet(backups))
  IN  /\ Len(backups) < MaxBackups
      /\ name <= MaxName
      /\ name \notin ToSet(backups)    \* else the rename fails
      /\ backups' = Append(backups, name)
      /\ UNCHANGED newest

\* rollback_checkpoints(1): backups.sort(), then backups.pop().
Rollback ==
  LET name == SortsLast(ToSet(backups))
  IN  /\ backups # <<>>
      /\ \E i \in DOMAIN backups :
           backups[i] = name /\ backups' = RemoveAt(backups, i)
      /\ newest' = (name = Last(backups))

Next == Rollback \/ \E now \in 0..MaxTime : Finalize(now)

Spec == Init /\ [][Next]_vars

\* Types, and directory names are unique.
TypeOK == /\ backups \in Seq(Name)
          /\ IsInjective(backups)
          /\ newest \in BOOLEAN

\* However the clock jumped between finalizations and whatever was rolled
\* back in between, a rollback takes the checkpoint finalized last ("enforcing
\* monotonicity", _checkpoint_timestamp).
RollbackTakesNewest == newest

\* A finalization finds a free name: its rename never fails for the name.
NameIsFree ==
  \A now \in 0..MaxTime :
    Timestamp(now, ToSet(backups)) \notin ToSet(backups)
=============================================================================
