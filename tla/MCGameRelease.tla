--------------------------- MODULE MCGameRelease ---------------------------
(***************************************************************************)
(* GameRelease for TLC.  hbhd and hbqd are a backend and a front that      *)
(* roll-game.sh handles with server_roll and front_roll; sdmjhd and sybphd *)
(* are backends of gamed, which gamed_server_roll takes back.  A postpush  *)
(* script should read the time file of its own game; sybphd.sh reads that  *)
(* of sdmjhd.                                                              *)
(* `part` says which two games the consoles work on, or which of the two   *)
(* jobs that cron runs beside them: those delete logs and backups.  In a   *)
(* behaviour only one of them moves.                                       *)
(***************************************************************************)
EXTENDS GameRelease

CONSTANTS hbhd, hbqd, sdmjhd, sybphd

StampAsWritten == [g \in Game |-> IF g = sybphd THEN sdmjhd ELSE g]

\* gamelist, as far as names contain each other: sdmjht, sdmj; then one more.
CONSTANTS FirstDay, LastDay, MaxMissed, MaxPacked

VARIABLES part, today, missed, logs, made, backups, turn

R == INSTANCE Retention WITH Games <- {1, 2}, Contains <- {<<1, 1>>, <<2, 2>>, <<2, 1>>},
                             MaxBackups <- MaxPacked

\* The first day looked at is a day.
ASSUME RetentionAssumption ==
  /\ {FirstDay, LastDay, MaxMissed, MaxPacked} \subseteq Nat
  /\ R!Month(FirstDay) \in 1..12
  /\ R!DayOf(FirstDay) \in 9..R!Length(FirstDay \div 10000, R!Month(FirstDay))
  /\ FirstDay <= LastDay

retention == <<today, missed, logs, made, backups, turn>>

MCInit == part \in {"hb", "gamed", "logs", "backups"} /\ Init /\ R!Init

\* Bound: the games that are released and rolled back in one behaviour.
GamesInUse == IF part = "hb" THEN {hbhd, hbqd} ELSE {sdmjhd, sybphd}
ConsolesNext ==
  /\ part \in {"hb", "gamed"} /\ Next /\ UNCHANGED <<part, retention>>
  /\ \A g \in Game \ GamesInUse : work'[g] = work[g]
LogsNext == part = "logs" /\ R!LogsNext /\ UNCHANGED <<part, vars>>
BackupsNext == part = "backups" /\ R!BackupsNext /\ UNCHANGED <<part, vars>>
MCNext == ConsolesNext \/ LogsNext \/ BackupsNext

MCSpec == MCInit /\ [][MCNext]_<<part, vars, retention>>

\* Across month ends, leap days and days missed, the logs of six days stay and
\* none older than eight days does; the six newest backups of a game stay,
\* whichever games' are found with them (see Retention for the exception).
OnlyOldIsDeleted == R!LogsKept /\ R!LogsGone /\ R!SixKept
=============================================================================
