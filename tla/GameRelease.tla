---------------------------- MODULE GameRelease ----------------------------
(***************************************************************************)
(* gamedep/gamedep.sh, update/postpush/*.sh and roll-game.sh: releasing    *)
(* the games, and rolling them back.                                       *)
(*                                                                         *)
(* A deployment console pulls a game's source into its working copy, sends *)
(* it to the game's machine as directory <game>-<TIME>, appends TIME to    *)
(* <game>.time, sends all the time files, and runs the game's postpush     *)
(* script there.  That script stops the game, points the game's link at    *)
(* the version its time file names last, and starts it again.  A rollback  *)
(* console points the link at an older version.                            *)
(*                                                                         *)
(* TIME is read once, when the console is started.  Abstracted: the log    *)
(* files and their links in a version, which exclude.list keeps from the   *)
(* --delete of rsync, and the modify scripts.  Starting a game whose port  *)
(* is taken leaves the old process serving.                                *)
(***************************************************************************)
EXTENDS Naturals, FiniteSets

CONSTANTS Game,       \* the games
          Backend,    \* those with a process to stop and start
          StampOf,    \* the game whose time file a postpush script reads
          StopsFirst, \* backends whose rollback stops the game: server_roll
          None,       \* no version, no process, nothing reported
          Torn,       \* part of one revision, part of another
          RsyncFails, \* may the push to the machine fail?
          Together,   \* may both consoles be at work at the same time?
          MaxTime,    \* bound: deployment consoles started
          MaxRev      \* bound: revisions committed to the source

ASSUME GameAssumption == /\ Game # {}
                         /\ Backend \subseteq Game
                         /\ StopsFirst \subseteq Backend
                         /\ StampOf \in [Game -> Game]
ASSUME FlagAssumption == {RsyncFails, Together} \subseteq BOOLEAN
ASSUME BoundAssumption == MaxTime \in Nat \ {0} /\ MaxRev \in Nat \ {0}
ASSUME ValueAssumption == /\ None # Torn
                          /\ {None, Torn} \cap (Nat \cup Game) = {}

VARIABLES source,   \* the newest revision of the source
          work,     \* the revision in each game's working copy
          stamp,    \* the last line of each time file, 0 when empty
          sent,     \* the same on the machine
          dir,      \* the version directories, by game and TIME
          link,     \* the version each game's link names, 0 when none
          run,      \* the revision each game's process has loaded
          time,     \* TIME of the deployment console
          dep, roll, \* the two consoles: where they are, on what game ...
          said      \* what the last success message claimed, until the
                    \* next operation begins

machine == <<dir, link, run>>
stamps  == <<stamp, sent>>
vars == <<source, work, stamps, machine, time, dep, roll, said>>

Rev     == 1..MaxRev
Version == 1..MaxTime

\* A console; "version" is the one its link step is about to name.  What a console
\* that waits has worked on is forgotten.
Console(states) == [pc : states, game : Game, version : 0..MaxTime,
                    rev : Rev \cup {Torn, None}]

Waiting(pc) == [pc |-> pc, game |-> CHOOSE g \in Game : TRUE, version |-> 0, rev |-> None]

\* Types of the variables, with the bounds.
TypeOK ==
  /\ source \in Rev
  /\ work \in [Game -> Rev \cup {None, Torn}]
  /\ stamp \in [Game -> 0..MaxTime]
  /\ sent \in [Game -> 0..MaxTime]
  /\ dir \in [Game -> [Version -> Rev \cup {None, Torn}]]
  /\ link \in [Game -> 0..MaxTime]
  /\ run \in [Game -> Rev \cup {None, Torn}]
  /\ time \in 0..MaxTime
  /\ dep \in Console({"closed", "menu", "push", "stamp", "send", "script",
                      "link", "start", "check"})
  /\ roll \in Console({"menu", "stop", "link", "start", "front"})
  /\ said \in {None} \cup [by : {"release", "rollback"}, game : Game,
                           version : Version, rev : Rev \cup {Torn}]

Init ==
  /\ source = 1
  /\ work = [g \in Game |-> None]
  /\ stamp = [g \in Game |-> 0]
  /\ sent = [g \in Game |-> 0]
  /\ dir = [g \in Game |-> [t \in Version |-> None]]
  /\ link = [g \in Game |-> 0]
  /\ run = [g \in Game |-> None]
  /\ time = 0
  /\ dep = Waiting("closed") /\ roll = Waiting("menu")
  /\ said = None

\* The developers commit.
Develop == /\ source < MaxRev
           /\ source' = source + 1
           /\ UNCHANGED <<work, stamps, machine, time, dep, roll, said>>

-----------------------------------------------------------------------------
(***************************************************************************)
(* The machine.                                                            *)
(***************************************************************************)

\* What the game's link leads to: a version's content, or nothing.
Served(g) == IF link[g] = 0 THEN None ELSE dir[g][link[g]]

\* rm of the link, ln -s to version t.  ln does not ask whether t exists.
Relink(g, t) == link' = [link EXCEPT ![g] = t]

\* The stop script lies in the version the link leads to.
Stop(g) == run' = [run EXCEPT ![g] = IF Served(g) = None THEN @ ELSE None]

\* The start script too.  The code may fail to start.
Start(g) == run' \in {run} \cup
              (IF Served(g) = None \/ run[g] # None THEN {}
               ELSE {[run EXCEPT ![g] = Served(g)]})

-----------------------------------------------------------------------------
(***************************************************************************)
(* gamedep.sh.                                                             *)
(***************************************************************************)

To(pc) == dep' = [dep EXCEPT !.pc = pc]

\* A console is started: TIME=`date`.
OpenConsole == /\ dep.pc = "closed"
               /\ time < MaxTime
               /\ time' = time + 1
               /\ To("menu")
               /\ UNCHANGED <<source, work, stamps, machine, roll, said>>

\* q, or the operator hangs up between two releases.
CloseConsole == /\ dep.pc = "menu"
                /\ To("closed")
                /\ UNCHANGED <<source, work, stamps, machine, time, roll, said>>

\* A game is chosen and its source pulled: rsync or git, then modify.
Pull(g) == /\ dep.pc = "menu"
           /\ Together \/ roll.pc = "menu"
           /\ work' = [work EXCEPT ![g] = source]
           /\ dep' = [dep EXCEPT !.pc = "push", !.game = g, !.rev = source]
           /\ said' = None
           /\ UNCHANGED <<source, stamps, machine, time, roll>>

\* ... || exit 1.
PullFails(g) == /\ dep.pc = "menu"
                /\ Together \/ roll.pc = "menu"
                /\ work' \in {work, [work EXCEPT ![g] = Torn]}
                /\ dep' = Waiting("closed")
                /\ said' = None
                /\ UNCHANGED <<source, stamps, machine, time, roll>>

\* rsync to <game>-<TIME>.  The directory is there already when this console
\* has released the game before.
Push == /\ dep.pc = "push"
        /\ dir' = [dir EXCEPT ![dep.game][time] = work[dep.game]]
        /\ To("stamp")
        /\ UNCHANGED <<source, work, stamps, link, run, time, roll, said>>

\* || (echo "... failure,exit"; exit 1): the parentheses are a subshell, the
\* exit ends that one, and the script goes on.
PushFails == /\ RsyncFails
             /\ dep.pc = "push"
             /\ dir' \in {dir, [dir EXCEPT ![dep.game][time] = Torn]}
             /\ To("stamp")
             /\ UNCHANGED <<source, work, stamps, link, run, time, roll, said>>

\* echo $TIME >> <game>.time.
Stamp == /\ dep.pc = "stamp"
         /\ stamp' = [stamp EXCEPT ![dep.game] = time]
         /\ To("send")
         /\ UNCHANGED <<source, work, sent, machine, time, roll, said>>

\* rsync of the directory postpush, which holds every time file; the script
\* is started next and reads the last line of the file it knows of.  A failing
\* rsync is passed over like the one above.
SendScripts ==
  /\ dep.pc = "send"
  /\ sent' \in {stamp} \cup (IF RsyncFails THEN {sent} ELSE {})
  /\ dep' = [dep EXCEPT !.pc = "script", !.version = sent'[StampOf[dep.game]]]
  /\ UNCHANGED <<source, work, stamp, machine, time, roll, said>>

\* Mutant of ScriptStop: the script forgets to stop the game.
ScriptStopNothing ==
  /\ dep.pc = "script"
  /\ To("link")
  /\ UNCHANGED <<source, work, stamps, machine, time, roll, said>>

ScriptStop == /\ dep.pc = "script"
              /\ IF dep.game \in Backend THEN Stop(dep.game) ELSE UNCHANGED run
              /\ To("link")
              /\ UNCHANGED <<source, work, stamps, dir, link, time, roll, said>>

ScriptLink == /\ dep.pc = "link"
              /\ Relink(dep.game, dep.version)
              /\ To(IF dep.game \in Backend THEN "start" ELSE "check")
              /\ UNCHANGED <<source, work, stamps, dir, run, time, roll, said>>

ScriptStart == /\ dep.pc = "start"
               /\ Start(dep.game)
               /\ To("check")
               /\ UNCHANGED <<source, work, stamps, dir, link, time, roll, said>>

\* A backend's script counts the listeners on the game's port: none, exit 1,
\* and with it the console.  A front's script exits 0.
ScriptFails == /\ dep.pc = "check"
               /\ dep.game \in Backend /\ run[dep.game] = None
               /\ dep' = Waiting("closed")
               /\ UNCHANGED <<source, work, stamps, machine, time, roll, said>>

ScriptSucceeds ==
  /\ dep.pc = "check"
  /\ ~ (dep.game \in Backend /\ run[dep.game] = None)
  /\ said' = [by |-> "release", game |-> dep.game, version |-> time,
             rev |-> dep.rev]
  /\ dep' = Waiting("menu")
  /\ UNCHANGED <<source, work, stamps, machine, time, roll>>

Deploying == \/ OpenConsole \/ CloseConsole
             \/ \E g \in Game : Pull(g) \/ PullFails(g)
             \/ Push \/ PushFails \/ Stamp \/ SendScripts
             \/ ScriptStop \/ ScriptLink \/ ScriptStart
             \/ ScriptFails \/ ScriptSucceeds

-----------------------------------------------------------------------------
(***************************************************************************)
(* roll-game.sh.                                                           *)
(***************************************************************************)

RollTo(pc) == roll' = [roll EXCEPT !.pc = pc]

\* ls | tail -n3: the versions on the machine that sort last.
Offered(g) ==
  LET there == {t \in Version : dir[g][t] # None}
  IN  {t \in there : Cardinality({u \in there : u > t}) < 3}

\* The operator picks one of the versions shown.
Choose(g, t) ==
  /\ roll.pc = "menu"
  /\ Together \/ dep.pc \in {"closed", "menu"}
  /\ t \in Offered(g)
  /\ roll' = [pc |-> IF g \in StopsFirst THEN "stop" ELSE "link",
              game |-> g, version |-> t, rev |-> dir[g][t]]
  /\ said' = None
  /\ UNCHANGED <<source, work, stamps, machine, time, dep>>

\* Mutant of RollStop: it only changes into the directory.
RollStopNothing ==
  /\ roll.pc = "stop"
  /\ RollTo("link")
  /\ UNCHANGED <<source, work, stamps, machine, time, dep, said>>

\* server_roll only; gamed_server_roll just changes into the directory.
RollStop == /\ roll.pc = "stop"
            /\ Stop(roll.game)
            /\ RollTo("link")
            /\ UNCHANGED <<source, work, stamps, dir, link, time, dep, said>>

\* rm and ln -s in one remote command, then the directory is looked at.
RollLink == /\ roll.pc = "link"
            /\ Relink(roll.game, roll.version)
            /\ RollTo(IF roll.game \in Backend THEN "start" ELSE "front")
            /\ UNCHANGED <<source, work, stamps, dir, run, time, dep, said>>

RollStart == /\ roll.pc = "start"
             /\ Start(roll.game)
             /\ RollTo("front")
             /\ UNCHANGED <<source, work, stamps, dir, link, time, dep, said>>

\* front_roll, which main runs after server_roll too, links once more.
\* Nobody looks at what checkgame has printed: success is reported.
RollReport ==
  /\ roll.pc = "front"
  /\ IF roll.game \in Backend \ StopsFirst THEN UNCHANGED link
     ELSE Relink(roll.game, roll.version)
  /\ said' = [by |-> "rollback", game |-> roll.game, version |-> roll.version,
             rev |-> roll.rev]
  /\ roll' = Waiting("menu")
  /\ UNCHANGED <<source, work, stamps, dir, run, time, dep>>

Rolling == \/ \E g \in Game, t \in Version : Choose(g, t)
           \/ RollStop \/ RollLink \/ RollStart \/ RollReport

Next == Develop \/ Deploying \/ Rolling

Spec == Init /\ [][Next]_vars

-----------------------------------------------------------------------------
\* The game's link leads to the version the message names, which holds what the
\* message stands for.
LinkIsTrue == link[said.game] = said.version /\ Served(said.game) = said.rev
\* The process from before is not still the one that serves.
Restarted == said.game \in Backend => run[said.game] \in {None, Served(said.game)}

Says(by) == said' \notin {None, said} /\ said'.by = by

\* Both pushes of the release under way have arrived.
Arrived == dir[dep.game][time] = dep.rev /\ sent[dep.game] = time

\* When a postpush script reports success, a backend has loaded what its link leads
\* to, not the code from before; and if the release has arrived, and the script reads
\* the time file of its own game, that is the version just sent, with the code just
\* pulled; whichever earlier releases and rollbacks went wrong on the way.
ReleaseIsTrue ==
  [][Says("release") => /\ Restarted'
                        /\ Arrived /\ StampOf[dep.game] = dep.game => LinkIsTrue']_vars

\* The same of a rollback's message: the version picked is linked; and where
\* roll-game.sh stops the game first, the old process is not still the one that
\* serves.
RollbackIsTrue ==
  [][Says("rollback") => LinkIsTrue' /\ (roll.game \in StopsFirst => Restarted')]_vars

\* The success messages of both consoles are true, whichever earlier operations
\* went wrong: the version named is linked, holds what was pulled or picked, and
\* the process from before is not still the one that serves.  Excepted are games whose
\* script reads another game's time file, for the version that a release has linked,
\* and those that are not stopped before a rollback, for the process afterwards.
MessagesAreTrue == ReleaseIsTrue /\ RollbackIsTrue

\* ... of every game.  The code does not keep this: sybphd.sh links the version of
\* another game's last release, and gamed_server_roll stops nothing.
AllMessagesAreTrue ==
  [][/\ Says("release") /\ Arrived => LinkIsTrue'
     /\ Says("rollback") => Restarted']_vars

\* The stop script is reached through the game's link: a release that went
\* wrong never leaves a backend running that nobody can stop that way.
Stoppable == \A g \in Backend : run[g] # None => Served(g) # None

\* "rsync game to $M failure,exit": past the push, the console has sent the
\* whole of what it pulled.
FailureExits ==
  dep.pc \in {"stamp", "send", "script", "link", "start", "check"}
    => dir[dep.game][time] = dep.rev
=============================================================================
