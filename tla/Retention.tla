----------------------------- MODULE Retention -----------------------------
(***************************************************************************)
(* cleanlog/cleanlog.sh, which is to delete the logs of a game that are    *)
(* older than seven days, and clear_bakfile/clear_bakfile, which is to     *)
(* keep six backups of each game.                                          *)
(*                                                                         *)
(* cleanlog.sh computes the day seven days ago on the decimal digits of    *)
(* the date.  clear_bakfile finds the backups of a game by grep: it counts *)
(* and deletes those of every game whose name contains this one.           *)
(***************************************************************************)
EXTENDS Naturals, FiniteSets

CONSTANTS FirstDay, LastDay,  \* bounds: the days looked at, as yyyymmdd; FirstDay is
                              \* not among the first eight of its month
          MaxMissed,          \* bound: days in a row on which cron does not run
          Games,              \* gamelist, in its order: 1, 2, ...
          Contains,           \* pairs <<q, g>>: the name of q contains that of g
          MaxBackups          \* bound: releases of each game

VARIABLES today, missed,
          logs,       \* log files: the date in their name, and their age in days
          made,       \* releases made of each game
          backups,    \* <<g, n>>: the tarball of the n-th release of g
          turn        \* the entry of gamelist the loop is at, 0: not running

logVars == <<today, missed, logs>>
backupVars == <<made, backups, turn>>

-----------------------------------------------------------------------------
(* Dates, as numbers yyyymmdd. *)

Month(date) == (date \div 100) % 100
DayOf(date) == date % 100
Leap(y) == y % 4 = 0 /\ (y % 100 # 0 \/ y % 400 = 0)
Length(y, m) ==
  IF m = 2 THEN (IF Leap(y) THEN 29 ELSE 28) ELSE IF m \in {4, 6, 9, 11} THEN 30 ELSE 31
NextDay(date) ==
  LET y == date \div 10000 IN
  IF DayOf(date) < Length(y, Month(date)) THEN date + 1
  ELSE IF Month(date) < 12 THEN date - DayOf(date) + 101
  ELSE (y + 1) * 10000 + 101

\* Mutant of Delday: no case for January.
DeldayNoJanuary(date) == IF DayOf(date) < 7 THEN date - 77 ELSE date - 7

\* `delday`: seven days before, digit by digit.
Delday(date) ==
  IF DayOf(date) < 7 THEN date - (IF Month(date) = 1 THEN 8877 ELSE 77) ELSE date - 7

TypeOK ==
  /\ today \in FirstDay..LastDay /\ missed \in 0..MaxMissed
  /\ \A l \in logs : l[1] \in (FirstDay - 9)..today /\ l[2] \in 0..(9 + MaxMissed)
  /\ made \in [Games -> 0..MaxBackups] /\ turn \in Games \cup {0}
  /\ \A b \in backups : b[1] \in Games /\ b[2] \in 1..made[b[1]]

Init ==
  /\ today = FirstDay /\ missed = 0 /\ logs = {<<FirstDay - a, a>> : a \in 0..8}
  /\ made = [g \in Games |-> 0] /\ backups = {} /\ turn = 0

-----------------------------------------------------------------------------
(* cleanlog.sh *)

\* A day begins, and the game its log file.
Midnight ==
  /\ today < LastDay /\ missed < MaxMissed
  /\ today' = NextDay(today)
  /\ logs' = {<<l[1], l[2] + 1>> : l \in logs} \cup {<<today', 0>>}
  /\ missed' = missed + 1
  /\ UNCHANGED backupVars

\* logsClean.
LogsClean ==
  /\ missed > 0
  /\ logs' = {l \in logs : l[1] >= Delday(today)}
  /\ missed' = 0
  /\ UNCHANGED <<today, backupVars>>

LogsNext == Midnight \/ LogsClean

-----------------------------------------------------------------------------
(* clear_bakfile *)

\* A release packs what the working copy held.
Pack(g) ==
  /\ made[g] < MaxBackups
  /\ made' = [made EXCEPT ![g] = @ + 1]
  /\ backups' = backups \cup {<<g, made'[g]>>}
  /\ UNCHANGED <<turn, logVars>>

\* `sort -u`: a shorter name sorts before the names it begins.
Before(b, c) == b[1] < c[1] \/ (b[1] = c[1] /\ b[2] < c[2])

\* `head -n`: the first n.
Doomed(found, n) == {b \in found : Cardinality({c \in found : Before(c, b)}) < n}

ClearBegins == turn = 0 /\ turn' = 1 /\ UNCHANGED <<made, backups, logVars>>

\* DelFileName.
DelFileName ==
  /\ turn # 0
  /\ LET found == {b \in backups : <<b[1], turn>> \in Contains}
     IN backups' = IF Cardinality(found) > 7 THEN backups \ Doomed(found, Cardinality(found) - 6)
                   ELSE backups
  /\ turn' = (turn + 1) % (Cardinality(Games) + 1)
  /\ UNCHANGED <<made, logVars>>

BackupsNext == (\E g \in Games : Pack(g)) \/ ClearBegins \/ DelFileName

Next == LogsNext \/ BackupsNext

-----------------------------------------------------------------------------
Ages == {l[2] : l \in logs}

\* Whatever the length of the month and however many days cron has missed, the
\* logs of the last six days are all there ("clean the logs of more than seven
\* days ago", with one day of slack that the digits take after a February).
LogsKept == 0..5 \subseteq Ages

\* And after a run no log is older than eight days, across month ends, the turn
\* of the year and a leap day.
LogsGone == missed = 0 => \A a \in Ages : a <= 8

\* The six newest backups of a game survive the loop, whichever games' backups
\* are found with them and whatever is released meanwhile; except for a game
\* whose name is part of another's.
SixKept ==
  \A g \in Games :
    (\A q \in Games : <<q, g>> \in Contains => q = g)
      => \A n \in 1..made[g] : n > made[g] - 6 => <<g, n>> \in backups
=============================================================================
