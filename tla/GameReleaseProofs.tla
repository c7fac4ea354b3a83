--------------------------- MODULE GameReleaseProofs ---------------------------
(***************************************************************************)
(* What the messages of the two consoles are worth, for any number of      *)
(* games, consoles started and revisions; and what the two jobs that cron  *)
(* runs beside them delete, whatever the days, the runs missed and the     *)
(* number of releases.                                                     *)
(***************************************************************************)
EXTENDS MCGameRelease, TLAPS, FiniteSetTheorems

-----------------------------------------------------------------------------
(***************************************************************************)
(* The inductive invariant.                                                *)
(***************************************************************************)

Content == Rev \cup {None, Torn}
DepStates == {"closed", "menu", "push", "stamp", "send", "script", "link", "start", "check"}
RollStates == {"menu", "stop", "link", "start", "front"}
Messages == [by : {"release", "rollback"}, game : Game, version : Version, rev : Rev \cup {Torn}]

\* TypeOK, with names for its parts.
Types ==
  /\ source \in Rev /\ work \in [Game -> Content] /\ run \in [Game -> Content]
  /\ stamp \in [Game -> 0..MaxTime] /\ sent \in [Game -> 0..MaxTime]
  /\ link \in [Game -> 0..MaxTime] /\ dir \in [Game -> [Version -> Content]]
  /\ time \in 0..MaxTime /\ said \in {None} \cup Messages
  /\ dep \in Console(DepStates) /\ roll \in Console(RollStates)

\* One console waits while the other is at work.
Apart == Together \/ dep.pc \in {"closed", "menu"} \/ roll.pc = "menu"

\* How far a release has come.
Releasing ==
  /\ dep.pc # "closed" => time \in Version
  /\ dep.pc \notin {"closed", "menu"} => dep.rev \in Rev
  /\ dep.pc = "push" => work[dep.game] = dep.rev
  /\ dep.pc \in {"script", "link", "start", "check"} => dep.version = sent[StampOf[dep.game]]
  /\ dep.pc \in {"start", "check"} => link[dep.game] = dep.version
  /\ dep.game \in Backend =>
       /\ dep.pc \in {"link", "start"} => run[dep.game] = None
       /\ dep.pc = "check" => run[dep.game] \in {None, Served(dep.game)}

\* How far a rollback has come.
RollingBack ==
  /\ roll.pc # "menu" =>
       /\ roll.version \in Version /\ roll.rev # None
       /\ dir[roll.game][roll.version] = roll.rev
  /\ roll.pc \in {"start", "front"} => link[roll.game] = roll.version
  /\ roll.game \in StopsFirst =>
       /\ roll.pc \in {"link", "start"} => run[roll.game] = None
       /\ roll.pc = "front" => run[roll.game] \in {None, roll.rev}

IInv == Types /\ Apart /\ Stoppable /\ Releasing /\ RollingBack

-----------------------------------------------------------------------------
(***************************************************************************)
(* The invariant is inductive.                                             *)
(***************************************************************************)

USE GameAssumption, BoundAssumption, ValueAssumption

\* Versions are not 0, and contents are told from one another.
LEMMA Values ==
  /\ Version \subseteq Nat /\ 0 \notin Version /\ Version \subseteq 0..MaxTime
  /\ None \notin Rev /\ Torn \notin Rev /\ None # Torn /\ Rev \subseteq Nat
BY DEF Version, Rev

\* One version's directory changes.
LEMMA OneDirectory ==
  ASSUME Types, NEW g \in Game, NEW t \in Version, NEW c \in Content \ {None},
         dir' = [dir EXCEPT ![g][t] = c]
  PROVE  /\ dir' \in [Game -> [Version -> Content]]
         /\ dir'[g][t] = c
         /\ \A h \in Game, u \in Version : h # g \/ u # t => dir'[h][u] = dir[h][u]
         /\ \A h \in Game, u \in Version : dir[h][u] # None => dir'[h][u] # None
<1>1. dir \in [Game -> [Version -> Content]]
  BY DEF Types
<1>2. dir[g] \in [Version -> Content]
  BY <1>1
<1>3. [dir[g] EXCEPT ![t] = c] \in [Version -> Content]
  BY <1>2
<1>4. dir'[g] = [dir[g] EXCEPT ![t] = c] /\ \A h \in Game \ {g} : dir'[h] = dir[h]
  BY <1>1
<1>5. dir' \in [Game -> [Version -> Content]]
  BY <1>1, <1>3
<1>6. \A h \in Game, u \in Version : h # g \/ u # t => dir'[h][u] = dir[h][u]
  BY <1>2, <1>4
<1>7. QED
  BY <1>2, <1>4, <1>5, <1>6

\* What a link leads to, before and after.
LEMMA ServedType ==
  ASSUME Types, NEW g \in Game
  PROVE  Served(g) \in Content /\ (Served(g) # None => link[g] \in Version)
BY Values DEF Types, Served, Content, Version

\* A console that waits.
LEMMA AConsoleWaits ==
  ASSUME NEW S, NEW p \in S
  PROVE  Waiting(p) \in Console(S) /\ Waiting(p).pc = p
<1>1. (CHOOSE g \in Game : TRUE) \in Game
  BY DEF GameAssumption
<1>2. QED
  BY <1>1 DEF Waiting, Console

LEMMA InitInv == Init => IInv
<1> SUFFICES ASSUME Init PROVE IInv
  OBVIOUS
<1>1. dep.pc = "closed" /\ roll.pc = "menu" /\ run = [g \in Game |-> None]
  BY DEF Init, Waiting
<1>2. Types
  <2>1. dep \in Console(DepStates) /\ roll \in Console(RollStates)
    BY AConsoleWaits DEF Init, DepStates, RollStates
  <2>2. QED
    BY <2>1, Values DEF Init, Types, Content, Rev
<1>3. Apart /\ Stoppable
  BY <1>1 DEF Apart, Stoppable
<1>4. Releasing /\ RollingBack
  BY <1>1 DEF Releasing, RollingBack
<1>5. QED
  BY <1>2, <1>3, <1>4 DEF IInv

\* A console goes on; its other fields stay.
LEMMA DepGoesOn ==
  ASSUME Types, NEW p \in DepStates, To(p)
  PROVE  /\ dep' \in Console(DepStates) /\ dep'.pc = p
         /\ dep'.game = dep.game /\ dep'.version = dep.version /\ dep'.rev = dep.rev
<1>1. dep \in Console(DepStates)
  BY DEF Types
<1>2. QED
  BY <1>1 DEF Console, To

LEMMA RollGoesOn ==
  ASSUME Types, NEW p \in RollStates, RollTo(p)
  PROVE  /\ roll' \in Console(RollStates) /\ roll'.pc = p
         /\ roll'.game = roll.game /\ roll'.version = roll.version /\ roll'.rev = roll.rev
<1>1. roll \in Console(RollStates)
  BY DEF Types
<1>2. QED
  BY <1>1 DEF Console, RollTo

\* The fields of the consoles.
LEMMA Fields ==
  ASSUME Types
  PROVE  /\ dep.pc \in DepStates /\ dep.game \in Game /\ dep.version \in 0..MaxTime
         /\ dep.rev \in Content
         /\ roll.pc \in RollStates /\ roll.game \in Game /\ roll.version \in 0..MaxTime
         /\ roll.rev \in Content
<1>1. dep \in Console(DepStates) /\ roll \in Console(RollStates)
  BY DEF Types
<1>2. QED
  BY <1>1 DEF Console, Content

\* The content a started game has loaded.
LEMMA StartType ==
  ASSUME Types, NEW g \in Game, Start(g)
  PROVE  /\ run' \in [Game -> Content]
         /\ \A h \in Game \ {g} : run'[h] = run[h]
         /\ run'[g] \in {run[g], Served(g)}
<1>1. Served(g) \in Content
  BY ServedType
<1>2. run \in [Game -> Content]
  BY DEF Types
<1>3. run' = run \/ run' = [run EXCEPT ![g] = Served(g)]
  BY DEF Start
<1>4. QED
  BY <1>1, <1>2, <1>3

LEMMA StopType ==
  ASSUME Types, NEW g \in Game, Stop(g)
  PROVE  /\ run' \in [Game -> Content]
         /\ \A h \in Game \ {g} : run'[h] = run[h]
         /\ Served(g) # None => run'[g] = None
         /\ Served(g) = None => run'[g] = run[g]
BY DEF Types, Stop, Content

LEMMA RelinkType ==
  ASSUME Types, NEW g \in Game, NEW t \in 0..MaxTime, Relink(g, t)
  PROVE  /\ link' \in [Game -> 0..MaxTime]
         /\ \A h \in Game \ {g} : link'[h] = link[h]
         /\ link'[g] = t
BY DEF Types, Relink

\* One lemma for each step: the types after it.
LEMMA TypeStep ==
  ASSUME Types, Releasing, RollingBack, Next
  PROVE  Types'
<1>0. dep \in Console(DepStates) /\ roll \in Console(RollStates)
  BY DEF Types
<1> USE Fields DEF DepStates, RollStates
<1>1. CASE Develop
  BY <1>1 DEF Develop, Rev, Types, stamps, machine
<1>2. CASE OpenConsole \/ CloseConsole
  <2>1. time' \in 0..MaxTime
    BY <1>2 DEF OpenConsole, CloseConsole, Types
  <2>2. dep' \in Console(DepStates)
    BY <1>2, DepGoesOn DEF OpenConsole, CloseConsole
  <2>3. QED
    BY <1>2, <2>1, <2>2 DEF OpenConsole, CloseConsole, Types, stamps, machine
<1>3. ASSUME NEW g \in Game, Pull(g)
      PROVE  Types'
  <2>1. source \in Rev
    BY DEF Types
  <2>2. dep' \in Console(DepStates)
    BY <1>0, <1>3, <2>1 DEF Pull, Console
  <2>3. work' \in [Game -> Content]
    BY <1>3, <2>1 DEF Pull, Types, Content
  <2>4. QED
    BY <1>3, <2>2, <2>3 DEF Pull, Types, stamps, machine
<1>4. ASSUME NEW g \in Game, PullFails(g)
      PROVE  Types'
  <2>1. dep' \in Console(DepStates)
    BY <1>4, AConsoleWaits DEF PullFails
  <2>2. work' \in [Game -> Content]
    BY <1>4 DEF PullFails, Types, Content
  <2>3. QED
    BY <1>4, <2>1, <2>2 DEF PullFails, Types, stamps, machine
<1>5. CASE Push \/ PushFails
  <2>1. dep.game \in Game /\ time \in Version /\ (Push => work[dep.game] \in Content \ {None})
    BY <1>5, Values DEF Push, PushFails, Releasing, Content
  <2>2. Torn \in Content \ {None}
    BY Values DEF Content
  <2>3. dir' \in [Game -> [Version -> Content]]
    <3>1. CASE dir' = dir
      BY <3>1 DEF Types
    <3>2. CASE Push
      BY <2>1, <3>2, OneDirectory DEF Push
    <3>3. CASE dir' = [dir EXCEPT ![dep.game][time] = Torn]
      BY <2>1, <2>2, <3>3, OneDirectory
    <3>4. QED
      BY <1>5, <3>1, <3>2, <3>3 DEF PushFails
  <2>4. dep' \in Console(DepStates)
    BY <1>5, DepGoesOn DEF Push, PushFails
  <2>5. QED
    BY <1>5, <2>3, <2>4 DEF Push, PushFails, Types, stamps
<1>6. CASE Stamp
  <2>1. dep' \in Console(DepStates)
    BY <1>6, DepGoesOn DEF Stamp
  <2>2. QED
    BY <1>6, <2>1 DEF Stamp, Types, machine
<1>7. CASE SendScripts
  <2>1. sent' \in [Game -> 0..MaxTime] /\ sent'[StampOf[dep.game]] \in 0..MaxTime
    BY <1>7 DEF SendScripts, Types
  <2>2. dep' \in Console(DepStates)
    BY <1>0, <1>7, <2>1 DEF SendScripts, Console
  <2>3. QED
    BY <1>7, <2>1, <2>2 DEF SendScripts, Types, machine
<1>8. CASE ScriptStop
  <2>1. dep' \in Console(DepStates)
    BY <1>8, DepGoesOn DEF ScriptStop
  <2>2. run' \in [Game -> Content]
    BY <1>8, StopType DEF ScriptStop, Types
  <2>3. QED
    BY <1>8, <2>1, <2>2 DEF ScriptStop, Types, stamps
<1>9. CASE ScriptLink
  <2>1. dep' \in Console(DepStates)
    BY <1>9, DepGoesOn DEF ScriptLink
  <2>2. link' \in [Game -> 0..MaxTime]
    BY <1>9, RelinkType DEF ScriptLink
  <2>3. QED
    BY <1>9, <2>1, <2>2 DEF ScriptLink, Types, stamps
<1>10. CASE ScriptStart
  <2>1. dep' \in Console(DepStates)
    BY <1>10, DepGoesOn DEF ScriptStart
  <2>2. run' \in [Game -> Content]
    BY <1>10, StartType DEF ScriptStart
  <2>3. QED
    BY <1>10, <2>1, <2>2 DEF ScriptStart, Types, stamps
<1>11. CASE ScriptFails
  <2>1. dep' \in Console(DepStates)
    BY <1>11, AConsoleWaits DEF ScriptFails
  <2>2. QED
    BY <1>11, <2>1 DEF ScriptFails, Types, stamps, machine
<1>12. CASE ScriptSucceeds
  <2>1. dep' \in Console(DepStates)
    BY <1>12, AConsoleWaits DEF ScriptSucceeds
  <2>2. said' \in Messages
    BY <1>12 DEF ScriptSucceeds, Messages, Releasing
  <2>3. QED
    BY <1>12, <2>1, <2>2 DEF ScriptSucceeds, Types, stamps, machine
<1>13. ASSUME NEW g \in Game, NEW t \in Version, Choose(g, t)
       PROVE  Types'
  <2>1. dir[g][t] \in Content /\ t \in 0..MaxTime
    BY Values DEF Types
  <2>2. roll' \in Console(RollStates)
    BY <1>13, <2>1 DEF Choose, Console, Content
  <2>3. QED
    BY <1>13, <2>2 DEF Choose, Types, stamps, machine
<1>14. CASE RollStop
  <2>1. roll' \in Console(RollStates)
    BY <1>14, RollGoesOn DEF RollStop
  <2>2. run' \in [Game -> Content]
    BY <1>14, StopType DEF RollStop
  <2>3. QED
    BY <1>14, <2>1, <2>2 DEF RollStop, Types, stamps
<1>15. CASE RollLink
  <2>1. roll' \in Console(RollStates)
    BY <1>15, RollGoesOn DEF RollLink
  <2>2. link' \in [Game -> 0..MaxTime]
    BY <1>15, RelinkType DEF RollLink
  <2>3. QED
    BY <1>15, <2>1, <2>2 DEF RollLink, Types, stamps
<1>16. CASE RollStart
  <2>1. roll' \in Console(RollStates)
    BY <1>16, RollGoesOn DEF RollStart
  <2>2. run' \in [Game -> Content]
    BY <1>16, StartType DEF RollStart
  <2>3. QED
    BY <1>16, <2>1, <2>2 DEF RollStart, Types, stamps
<1>17. CASE RollReport
  <2>1. roll' \in Console(RollStates)
    BY <1>17, AConsoleWaits DEF RollReport
  <2>2. said' \in Messages
    BY <1>17 DEF RollReport, Messages, RollingBack, Content
  <2>3. link' \in [Game -> 0..MaxTime]
    BY <1>17, RelinkType DEF RollReport, Types
  <2>4. QED
    BY <1>17, <2>1, <2>2, <2>3 DEF RollReport, Types, stamps
<1>18. QED
  BY <1>1, <1>2, <1>3, <1>4, <1>5, <1>6, <1>7, <1>8, <1>9, <1>10, <1>11, <1>12, <1>13, <1>14,
     <1>15, <1>16, <1>17 DEF Next, Deploying, Rolling

LEMMA Games == Backend \subseteq Game /\ StopsFirst \subseteq Backend /\ StampOf \in [Game -> Game]
BY DEF GameAssumption

\* A step of the deployment console while the rollback console waits: what a
\* rollback has to do with is not under way.
LEMMA RollWaits ==
  ASSUME roll.pc = "menu", UNCHANGED roll
  PROVE  Apart' /\ RollingBack'
BY DEF Apart, RollingBack

LEMMA OpenOrClose ==
  ASSUME IInv, ~ Together, OpenConsole \/ CloseConsole
  PROVE  Apart' /\ Stoppable' /\ Releasing' /\ RollingBack'
<1> USE Fields DEF IInv, DepStates
<1>1. UNCHANGED <<dir, link, run, roll>>
  BY DEF OpenConsole, CloseConsole, machine
<1>2. dep'.pc \in {"closed", "menu"} /\ (dep'.pc # "closed" => time' \in Version)
  <2>1. CASE OpenConsole
    BY <2>1, DepGoesOn DEF OpenConsole, Types, Version
  <2>2. CASE CloseConsole
    BY <2>2, DepGoesOn DEF CloseConsole
  <2>3. QED
    BY <2>1, <2>2
<1>3. Stoppable' /\ RollingBack'
  BY <1>1 DEF Stoppable, Served, RollingBack
<1>4. Apart' /\ Releasing'
  BY <1>2 DEF Apart, Releasing
<1>5. QED
  BY <1>3, <1>4

LEMMA PullStep ==
  ASSUME IInv, ~ Together, NEW g \in Game, Pull(g) \/ PullFails(g)
  PROVE  Apart' /\ Stoppable' /\ Releasing' /\ RollingBack'
<1> USE Fields DEF IInv, DepStates
<1>1. UNCHANGED <<dir, link, run, roll, time>> /\ roll.pc = "menu"
  BY DEF Pull, PullFails, machine
<1>2. Stoppable'
  BY <1>1 DEF Stoppable, Served
<1>3. Releasing'
  <2>1. CASE Pull(g)
    <3>1. source \in Rev /\ work \in [Game -> Content] /\ dep \in Console(DepStates)
      BY DEF Types
    <3>2. dep'.pc = "push" /\ dep'.game = g /\ dep'.rev = source /\ work'[g] = source
      BY <2>1, <3>1 DEF Pull, Console
    <3>3. time' \in Version
      BY <1>1, <2>1 DEF Pull, Releasing
    <3>4. QED
      BY <3>1, <3>2, <3>3 DEF Releasing
  <2>2. CASE PullFails(g)
    BY <2>2, AConsoleWaits DEF PullFails, Releasing
  <2>3. QED
    BY <2>1, <2>2
<1>4. QED
  BY <1>1, <1>2, <1>3, RollWaits

\* The version sent was not the one that is linked, or has been there before:
\* no link loses what it leads to.
LEMMA PushStep ==
  ASSUME IInv, ~ Together, Push \/ PushFails
  PROVE  Apart' /\ Stoppable' /\ Releasing' /\ RollingBack'
<1> USE Fields DEF IInv, DepStates
<1>1. UNCHANGED <<link, run, roll, time, sent>> /\ dep.pc = "push" /\ roll.pc = "menu"
  BY DEF Push, PushFails, stamps, Apart
<1>2. time \in Version /\ work[dep.game] = dep.rev /\ dep.rev \in Rev
  BY <1>1 DEF Releasing
<1>3. \A h \in Game, u \in Version : dir[h][u] # None => dir'[h][u] # None
  <2>1. CASE dir' = dir
    BY <2>1
  <2>2. CASE Push
    <3>1. work[dep.game] \in Content \ {None}
      BY <1>2, Values DEF Content
    <3>2. QED
      BY <1>2, <2>2, <3>1, OneDirectory DEF Push
  <2>3. CASE dir' = [dir EXCEPT ![dep.game][time] = Torn]
    <3>1. Torn \in Content \ {None}
      BY Values DEF Content
    <3>2. QED
      BY <1>2, <2>3, <3>1, OneDirectory
  <2>4. QED
    BY <2>1, <2>2, <2>3 DEF PushFails
<1>4. Stoppable'
  <2> SUFFICES ASSUME NEW g \in Backend, run[g] # None
               PROVE  Served(g)' # None
    BY <1>1 DEF Stoppable
  <2>1. g \in Game /\ Served(g) # None
    BY Games DEF Stoppable
  <2>2. link[g] \in Version
    BY <2>1, ServedType
  <2>3. dir[g][link[g]] # None /\ link[g] # 0
    BY <2>1 DEF Served
  <2>4. QED
    BY <1>1, <1>3, <2>1, <2>2, <2>3 DEF Served
<1>5. Releasing'
  BY <1>1, <1>2, DepGoesOn DEF Push, PushFails, Releasing
<1>6. QED
  BY <1>1, <1>4, <1>5, RollWaits

LEMMA StampAndSend ==
  ASSUME IInv, ~ Together, Stamp \/ SendScripts
  PROVE  Apart' /\ Stoppable' /\ Releasing' /\ RollingBack'
<1> USE Fields DEF IInv, DepStates
<1>1. UNCHANGED <<dir, link, run, roll, time>> /\ roll.pc = "menu"
      /\ time \in Version /\ dep.rev \in Rev
  BY DEF Stamp, SendScripts, machine, Apart, Releasing
<1>2. Stoppable'
  BY <1>1 DEF Stoppable, Served
<1>3. CASE Stamp
  BY <1>1, <1>2, <1>3, RollWaits, DepGoesOn DEF Stamp, Releasing
<1>4. CASE SendScripts
  <2>1. dep \in Console(DepStates)
    BY DEF Types
  <2>2. /\ dep'.pc = "script" /\ dep'.game = dep.game /\ dep'.rev = dep.rev
        /\ dep'.version = sent'[StampOf[dep.game]]
    BY <1>4, <2>1 DEF SendScripts, Console
  <2>3. QED
    BY <1>1, <1>2, <2>2, RollWaits DEF Releasing
<1>5. QED
  BY <1>3, <1>4

\* The game's script: it stops the game, sets the link and starts the game.
LEMMA ScriptStep ==
  ASSUME IInv, ~ Together, ScriptStop \/ ScriptLink \/ ScriptStart
  PROVE  Apart' /\ Stoppable' /\ Releasing' /\ RollingBack'
<1> USE Fields DEF IInv, DepStates
<1>1. UNCHANGED <<dir, roll, time, sent>> /\ roll.pc = "menu" /\ dep.pc \notin {"closed", "menu"}
      /\ time \in Version /\ dep.rev \in Rev /\ dep.version = sent[StampOf[dep.game]]
  BY DEF ScriptStop, ScriptLink, ScriptStart, stamps, Apart, Releasing
<1>2. CASE ScriptStop
  <2>1. dep'.pc = "link" /\ dep'.game = dep.game /\ dep'.version = dep.version /\ dep'.rev = dep.rev
    BY <1>2, DepGoesOn DEF ScriptStop
  <2>2. link' = link /\ \A g \in Game : Served(g)' = Served(g)
    BY <1>1, <1>2 DEF ScriptStop, Served
  <2>3. /\ \A g \in Backend : run'[g] \in {run[g], None}
        /\ dep.game \in Backend => run'[dep.game] = None
    <3>1. CASE dep.game \in Backend
      <4>1. /\ \A h \in Game \ {dep.game} : run'[h] = run[h]
            /\ Served(dep.game) # None => run'[dep.game] = None
            /\ Served(dep.game) = None => run'[dep.game] = run[dep.game]
        BY <1>2, <3>1, StopType DEF ScriptStop
      <4>2. run'[dep.game] = None
        BY <3>1, <4>1 DEF Stoppable
      <4>3. QED
        BY <4>1, <4>2, Games
    <3>2. CASE dep.game \notin Backend
      BY <1>2, <3>2 DEF ScriptStop
    <3>3. QED
      BY <3>1, <3>2
  <2>4. Stoppable'
    BY <2>2, <2>3, Games DEF Stoppable
  <2>5. Releasing'
    BY <1>1, <2>1, <2>3 DEF Releasing
  <2>6. QED
    BY <1>1, <2>4, <2>5, RollWaits
<1>3. CASE ScriptLink
  <2>1. /\ dep'.pc = IF dep.game \in Backend THEN "start" ELSE "check"
        /\ dep'.game = dep.game /\ dep'.version = dep.version /\ dep'.rev = dep.rev
    BY <1>3, DepGoesOn DEF ScriptLink
  <2>2. run' = run /\ (dep.game \in Backend => run[dep.game] = None)
    BY <1>3 DEF ScriptLink, Releasing
  <2>3. link'[dep.game] = dep.version /\ \A h \in Game \ {dep.game} : link'[h] = link[h]
    BY <1>3, RelinkType DEF ScriptLink
  <2>4. Stoppable'
    BY <1>1, <2>2, <2>3, Games DEF Stoppable, Served
  <2>5. Releasing'
    BY <1>1, <2>1, <2>2, <2>3 DEF Releasing
  <2>6. QED
    BY <1>1, <2>4, <2>5, RollWaits
<1>4. CASE ScriptStart
  <2>1. dep'.pc = "check" /\ dep'.game = dep.game /\ dep'.version = dep.version /\ dep'.rev = dep.rev
    BY <1>4, DepGoesOn DEF ScriptStart
  <2>2. link' = link /\ \A g \in Game : Served(g)' = Served(g)
    BY <1>1, <1>4 DEF ScriptStart, Served
  <2>3. /\ \A h \in Game \ {dep.game} : run'[h] = run[h]
        /\ run'[dep.game] \in {run[dep.game], Served(dep.game)}
    BY <1>4, StartType DEF ScriptStart
  <2>4. dep.game \in Backend => run[dep.game] = None
    BY <1>4 DEF ScriptStart, Releasing
  <2>5. Stoppable'
    BY <2>2, <2>3, <2>4, Games DEF Stoppable
  <2>6. link[dep.game] = dep.version
    BY <1>4 DEF ScriptStart, Releasing
  <2>7. Releasing'
    BY <1>1, <2>1, <2>2, <2>3, <2>4, <2>6 DEF Releasing
  <2>8. QED
    BY <1>1, <2>5, <2>7, RollWaits
<1>5. QED
  BY <1>2, <1>3, <1>4

LEMMA ScriptEnds ==
  ASSUME IInv, ~ Together, ScriptFails \/ ScriptSucceeds
  PROVE  Apart' /\ Stoppable' /\ Releasing' /\ RollingBack'
<1> USE Fields DEF IInv, DepStates
<1>1. UNCHANGED <<dir, link, run, roll, time>> /\ roll.pc = "menu" /\ time \in Version
  BY DEF ScriptFails, ScriptSucceeds, machine, Apart, Releasing
<1>2. Stoppable'
  BY <1>1 DEF Stoppable, Served
<1>3. dep'.pc \in {"closed", "menu"}
  BY AConsoleWaits DEF ScriptFails, ScriptSucceeds
<1>4. Releasing'
  BY <1>1, <1>3 DEF Releasing
<1>5. QED
  BY <1>1, <1>2, <1>4, RollWaits

\* A step of the rollback console, while the deployment console waits.
LEMMA DepWaits ==
  ASSUME Releasing, dep.pc \in {"closed", "menu"}, UNCHANGED <<dep, time>>
  PROVE  Apart' /\ Releasing'
BY DEF Apart, Releasing

LEMMA RollStep ==
  ASSUME IInv, ~ Together, Rolling
  PROVE  Apart' /\ Stoppable' /\ Releasing' /\ RollingBack'
<1> USE Fields DEF IInv, RollStates
<1>1. UNCHANGED <<dep, time, dir>> /\ dep.pc \in {"closed", "menu"}
  BY DEF Rolling, Choose, RollStop, RollLink, RollStart, RollReport, machine, Apart
<1>2. Apart' /\ Releasing'
  BY <1>1, DepWaits
<1>3. ASSUME NEW g \in Game, NEW t \in Version, Choose(g, t)
      PROVE  Stoppable' /\ RollingBack'
  <2>1. UNCHANGED <<link, run>>
    BY <1>3 DEF Choose, machine
  <2>2. /\ roll' = [pc |-> IF g \in StopsFirst THEN "stop" ELSE "link",
                    game |-> g, version |-> t, rev |-> dir[g][t]]
        /\ dir[g][t] # None
    BY <1>3 DEF Choose, Offered
  <2>3. Stoppable'
    BY <1>1, <2>1 DEF Stoppable, Served
  <2>4. QED
    BY <1>1, <2>2, <2>3 DEF RollingBack
<1>4. CASE RollStop
  <2>1. /\ roll'.pc = "link" /\ roll'.game = roll.game /\ roll'.version = roll.version
        /\ roll'.rev = roll.rev /\ roll.pc = "stop"
    BY <1>4, RollGoesOn DEF RollStop
  <2>2. link' = link /\ \A g \in Game : Served(g)' = Served(g)
    BY <1>1, <1>4 DEF RollStop, Served
  <2>3. /\ \A h \in Game \ {roll.game} : run'[h] = run[h]
        /\ Served(roll.game) # None => run'[roll.game] = None
        /\ Served(roll.game) = None => run'[roll.game] = run[roll.game]
    BY <1>4, StopType DEF RollStop
  <2>4. roll.game \in StopsFirst => run'[roll.game] = None
    BY <2>3, Games DEF Stoppable
  <2>5. Stoppable'
    BY <2>2, <2>3, Games DEF Stoppable
  <2>6. QED
    BY <1>1, <1>2, <2>1, <2>4, <2>5 DEF RollingBack
<1>5. CASE RollLink
  <2>1. /\ roll'.pc \in {"start", "front"} /\ roll'.game = roll.game
        /\ roll'.version = roll.version /\ roll'.rev = roll.rev
    BY <1>5, RollGoesOn DEF RollLink
  <2>2. run' = run /\ (roll.game \in StopsFirst => run[roll.game] = None)
        /\ roll.version \in Version /\ roll.rev # None
        /\ dir[roll.game][roll.version] = roll.rev
    BY <1>5 DEF RollLink, RollingBack
  <2>3. /\ link'[roll.game] = roll.version
        /\ \A h \in Game \ {roll.game} : link'[h] = link[h]
    BY <1>5, RelinkType DEF RollLink
  <2>4. Stoppable'
    <3>1. \A h \in Game : h = roll.game => Served(h)' # None
      BY <1>1, <2>2, <2>3, Values DEF Served
    <3>2. \A h \in Game \ {roll.game} : Served(h)' = Served(h)
      BY <1>1, <2>3 DEF Served
    <3>3. QED
      BY <2>2, <3>1, <3>2, Games DEF Stoppable
  <2>5. QED
    BY <1>1, <1>2, <2>1, <2>2, <2>3, <2>4 DEF RollingBack
<1>6. CASE RollStart
  <2>1. /\ roll'.pc = "front" /\ roll'.game = roll.game /\ roll'.version = roll.version
        /\ roll'.rev = roll.rev
    BY <1>6, RollGoesOn DEF RollStart
  <2>2. /\ link' = link /\ link[roll.game] = roll.version /\ roll.version \in Version
        /\ roll.rev # None /\ dir[roll.game][roll.version] = roll.rev
        /\ roll.game \in StopsFirst => run[roll.game] = None
    BY <1>6 DEF RollStart, RollingBack
  <2>3. /\ Served(roll.game) = roll.rev /\ \A g \in Game : Served(g)' = Served(g)
    BY <1>1, <2>2, Values DEF Served
  <2>4. /\ \A h \in Game \ {roll.game} : run'[h] = run[h]
        /\ run'[roll.game] \in {run[roll.game], Served(roll.game)}
    BY <1>6, StartType DEF RollStart
  <2>5. Stoppable'
    BY <2>2, <2>3, <2>4, Games DEF Stoppable
  <2>6. QED
    BY <1>1, <1>2, <2>1, <2>2, <2>3, <2>4, <2>5 DEF RollingBack
<1>7. CASE RollReport
  <2>1. roll'.pc = "menu" /\ run' = run
    BY <1>7, AConsoleWaits DEF RollReport
  <2>2. link[roll.game] = roll.version
    BY <1>7 DEF RollReport, RollingBack
  <2>3. \A g \in Game : link'[g] = link[g]
    BY <1>7, <2>2, RelinkType DEF RollReport
  <2>4. Stoppable'
    BY <1>1, <2>1, <2>3, Games DEF Stoppable, Served
  <2>5. QED
    BY <1>2, <2>1, <2>4 DEF RollingBack
<1>8. QED
  BY <1>2, <1>3, <1>4, <1>5, <1>6, <1>7 DEF Rolling

LEMMA StepInv ==
  ASSUME IInv, ~ Together, [Next]_vars
  PROVE  IInv'
<1>1. CASE UNCHANGED vars
  BY <1>1 DEF vars, stamps, machine, IInv, Types, Apart, Stoppable, Served, Releasing, RollingBack
<1>2. CASE Develop
  <2>1. Types'
    BY <1>2, TypeStep DEF IInv, Next
  <2>2. QED
    BY <1>2, <2>1
       DEF Develop, stamps, machine, IInv, Apart, Stoppable, Served, Releasing, RollingBack
<1>3. CASE Deploying \/ Rolling
  <2>1. Types'
    BY <1>3, TypeStep DEF IInv, Next
  <2>2. QED
    BY <1>3, <2>1, OpenOrClose, PullStep, PushStep, StampAndSend, ScriptStep, ScriptEnds, RollStep
       DEF Deploying, IInv
<1>4. QED
  BY <1>1, <1>2, <1>3 DEF Next

-----------------------------------------------------------------------------
(***************************************************************************)
(* The theorems.                                                           *)
(***************************************************************************)

\* While one console is at work at a time, every reachable state has the games
\* and the consoles as far as release and rollback have come.
LEMMA ConsolesInvariant ==
  ASSUME ~ Together
  PROVE  Spec => []IInv
BY InitInv, StepInv, PTL DEF Spec

\* While one console is at work at a time, a release or a rollback that goes
\* wrong never leaves a backend running whose link leads to no stop script
\* (gamedep.sh, postpush/*.sh, roll-game.sh), whichever time files the scripts
\* read and whichever rollbacks do not stop their game.
THEOREM AlwaysStoppable ==
  ASSUME ~ Together
  PROVE  Spec => []Stoppable
BY ConsolesInvariant, PTL DEF IInv

\* The message of a release is true of the process, and that of a release that has
\* arrived also of the version, for a game whose script reads its own time file; that
\* of a rollback is true of the version, and also of the process where the game is
\* stopped first: whatever went wrong before, with any games of the other kinds
\* (sybphd.sh, gamed_server_roll) released and rolled back in between.
THEOREM TrueMessages ==
  ASSUME ~ Together
  PROVE  Spec => MessagesAreTrue
<1> DEFINE Released == /\ Restarted'
                       /\ Arrived /\ StampOf[dep.game] = dep.game => LinkIsTrue'
           RolledBack == LinkIsTrue' /\ (roll.game \in StopsFirst => Restarted')
<1>1. ASSUME IInv, Next
      PROVE  /\ Says("release") => Released
             /\ Says("rollback") => RolledBack
  <2> USE <1>1, Fields DEF IInv
  <2>1. CASE ScriptSucceeds
    <3>1. /\ UNCHANGED <<dir, link, run>> /\ dep.pc = "check"
          /\ said' = [by |-> "release", game |-> dep.game, version |-> time, rev |-> dep.rev]
      BY <2>1 DEF ScriptSucceeds, machine
    <3>2. link[dep.game] = sent[StampOf[dep.game]] /\ time \in Version
      BY <3>1 DEF Releasing
    <3>3. dep.game \in Backend => run[dep.game] \in {None, Served(dep.game)}
      BY <3>1 DEF Releasing
    <3>4. \A g \in Game : Served(g)' = Served(g)
      BY <3>1 DEF Served
    <3>5. Restarted'
      BY <3>1, <3>3, <3>4 DEF Restarted
    <3>6. Arrived /\ StampOf[dep.game] = dep.game =>
            link[dep.game] = time /\ Served(dep.game) = dep.rev
      BY <3>2, Values DEF Arrived, Served
    <3>7. Arrived /\ StampOf[dep.game] = dep.game => LinkIsTrue'
      BY <3>1, <3>4, <3>6 DEF LinkIsTrue
    <3>8. QED
      BY <3>1, <3>5, <3>7 DEF Says
  <2>2. CASE RollReport
    <3>1. /\ UNCHANGED <<dir, run>> /\ roll.pc = "front"
          /\ said' = [by |-> "rollback", game |-> roll.game, version |-> roll.version,
                      rev |-> roll.rev]
      BY <2>2 DEF RollReport
    <3>2. /\ link[roll.game] = roll.version /\ roll.version \in Version
          /\ dir[roll.game][roll.version] = roll.rev
          /\ roll.game \in StopsFirst => run[roll.game] \in {None, roll.rev}
      BY <3>1 DEF RollingBack
    <3>3. link'[roll.game] = roll.version
      BY <2>2, <3>2, RelinkType DEF RollReport
    <3>4. LinkIsTrue'
      BY <3>1, <3>2, <3>3, Values DEF LinkIsTrue, Served
    <3>5. roll.game \in StopsFirst => Restarted'
      BY <3>1, <3>2, <3>4 DEF LinkIsTrue, Restarted
    <3>6. QED
      BY <3>1, <3>4, <3>5 DEF Says
  <2>3. CASE ~ ScriptSucceeds /\ ~ RollReport
    <3>1. said' \in {None, said}
      BY <2>3 DEF Next, Develop, Deploying, Rolling, OpenConsole, CloseConsole, Pull, PullFails,
         Push, PushFails, Stamp, SendScripts, ScriptStop, ScriptLink, ScriptStart, ScriptFails,
         Choose, RollStop, RollLink, RollStart
    <3>2. QED
      BY <3>1 DEF Says
  <2>4. QED
    BY <2>1, <2>2, <2>3
<1>2. IInv /\ [Next]_vars => [Says("release") => Released]_vars
                             /\ [Says("rollback") => RolledBack]_vars
  BY <1>1
<1>3. QED
  BY <1>2, ConsolesInvariant, PTL DEF Spec, MessagesAreTrue, ReleaseIsTrue, RollbackIsTrue


-----------------------------------------------------------------------------
(***************************************************************************)
(* Retention.  A log bears the date of the day it was begun on; Delday     *)
(* takes digits from today's, and lands on the same day only inside a      *)
(* month.  The inductive invariant therefore says, for a log of any age,   *)
(* how far its number is from today's, in this month, in the one before    *)
(* and earlier.                                                            *)
(***************************************************************************)

Year(date) == date \div 10000

\* The number is a day of the calendar.
Valid(date) ==
  /\ date \in Nat /\ R!Month(date) \in 1..12
  /\ R!DayOf(date) \in 1..R!Length(Year(date), R!Month(date))

\* The last day of the month before.
EndBefore(date) ==
  IF R!Month(date) = 1 THEN date - R!DayOf(date) - 8869
  ELSE (date - R!DayOf(date) - 100) + R!Length(Year(date), R!Month(date) - 1)

\* The date a log bears is that of its day; of those that are older than the
\* month before, that they are.
Dated(date, age, day) ==
  /\ date \in Int /\ age \in Nat
  /\ age < R!DayOf(day) => date = day - age
  /\ age >= R!DayOf(day) /\ age <= R!DayOf(day) + 27 =>
       date = EndBefore(day) - (age - R!DayOf(day))
  /\ age > R!DayOf(day) + 27 => date < EndBefore(day) - 27

LogsInv ==
  /\ Valid(today) /\ missed \in Nat
  /\ \A l \in logs : Dated(l[1], l[2], today)
  /\ R!LogsKept /\ R!LogsGone

\* Its backups are those of its releases, and the six newest are there.
BackupsInv ==
  /\ made \in [{1, 2} -> Nat] /\ turn \in 0..2 /\ IsFiniteSet(backups)
  /\ \A b \in backups : b \in {1, 2} \X Nat /\ b[2] \in 1..made[b[1]]
  /\ R!SixKept

LEMMA Lengths ==
  ASSUME NEW y \in Nat, NEW m \in 1..12
  PROVE  R!Length(y, m) \in 28..31 /\ (m = 12 => R!Length(y, m) = 31)
BY DEF R!Length

\* The digits of a date.
LEMMA Digits ==
  ASSUME NEW date \in Nat
  PROVE  /\ date = 10000 * Year(date) + 100 * R!Month(date) + R!DayOf(date)
         /\ Year(date) \in Nat /\ R!Month(date) \in 0..99 /\ R!DayOf(date) \in 0..99
BY DEF R!Month, R!DayOf, Year

\* The date that has these digits.
Day(y, m, d) == 10000 * y + 100 * m + d

LEMMA Undigits ==
  ASSUME NEW y \in Nat, NEW m \in 0..99, NEW d \in 0..99
  PROVE  /\ Day(y, m, d) \in Nat /\ Year(Day(y, m, d)) = y
         /\ R!Month(Day(y, m, d)) = m /\ R!DayOf(Day(y, m, d)) = d
<1>1. ASSUME NEW v \in Nat, v = 10000 * y + 100 * m + d
      PROVE  v \div 10000 = y /\ v % 100 = d /\ v \div 100 = 100 * y + m
  BY <1>1
<1>2. ASSUME NEW v \in Nat, v = 100 * y + m
      PROVE  v % 100 = m
  BY <1>2
<1>3. Day(y, m, d) \in Nat /\ Day(y, m, d) = 10000 * y + 100 * m + d
  BY DEF Day
<1>4. (100 * y + m) % 100 = m
  BY <1>2
<1>5. /\ Year(Day(y, m, d)) = y /\ Day(y, m, d) % 100 = d
      /\ Day(y, m, d) \div 100 = 100 * y + m
  BY <1>1, <1>3 DEF Year
<1>6. QED
  BY <1>3, <1>4, <1>5 DEF R!Month, R!DayOf

\* What a date is made of, and how far back the month before ends.
LEMMA Dates ==
  ASSUME NEW date, Valid(date)
  PROVE  /\ date \in Nat /\ Year(date) \in Nat
         /\ R!Month(date) \in 1..12 /\ R!DayOf(date) \in 1..31
         /\ R!Month(date) # 1 => R!Length(Year(date), R!Month(date) - 1) \in 28..31
         /\ EndBefore(date) \in Int /\ EndBefore(date) < date - R!DayOf(date) - 27
<1>1. date \in Nat /\ R!Month(date) \in 1..12 /\ Year(date) \in Nat
  BY Digits DEF Valid
<1>2. R!DayOf(date) \in 1..31
  BY <1>1, Lengths DEF Valid
<1>3. CASE R!Month(date) = 1
  BY <1>1, <1>2, <1>3 DEF EndBefore
<1>4. CASE R!Month(date) # 1
  <2>1. R!Length(Year(date), R!Month(date) - 1) \in 28..31
    <3>1. R!Month(date) - 1 \in 1..12
      BY <1>1, <1>4
    <3>2. QED
      BY <1>1, <3>1, Lengths
  <2>2. QED
    BY <1>1, <1>2, <1>4, <2>1 DEF EndBefore
<1>5. QED
  BY <1>3, <1>4

\* A day follows in its month, or is the first of the next.
LEMMA Following ==
  ASSUME NEW date, Valid(date)
  PROVE  /\ Valid(R!NextDay(date))
         /\ \/ /\ R!NextDay(date) = date + 1
               /\ R!DayOf(R!NextDay(date)) = R!DayOf(date) + 1
               /\ EndBefore(R!NextDay(date)) = EndBefore(date)
            \/ /\ R!DayOf(R!NextDay(date)) = 1 /\ R!DayOf(date) >= 28
               /\ EndBefore(R!NextDay(date)) = date
<1> DEFINE y == Year(date)
           m == R!Month(date)
           d == R!DayOf(date)
           next == R!NextDay(date)
<1>1. /\ date = 10000 * y + 100 * m + d /\ y \in Nat /\ m \in 1..12
      /\ d \in 1..R!Length(y, m) /\ R!Length(y, m) \in 28..31 /\ (m = 12 => R!Length(y, m) = 31)
  <2>1. date = 10000 * y + 100 * m + d /\ y \in Nat
    BY Digits DEF Valid
  <2>2. m \in 1..12 /\ d \in 1..R!Length(y, m)
    BY DEF Valid
  <2>3. R!Length(y, m) \in 28..31 /\ (m = 12 => R!Length(y, m) = 31)
    BY <2>1, <2>2, Lengths
  <2>4. QED
    BY <2>1, <2>2, <2>3
<1>2. CASE d < R!Length(y, m)
  <2>1. next = date + 1
    BY <1>2 DEF R!NextDay, Year
  <2>2. next = 10000 * y + 100 * m + (d + 1) /\ d + 1 \in 0..99 /\ m \in 0..99
    BY <1>1, <1>2, <2>1
  <2>3. next \in Nat /\ Year(next) = y /\ R!Month(next) = m /\ R!DayOf(next) = d + 1
    <3> HIDE DEF next
    <3>1. next = Day(y, m, d + 1)
      BY <2>2 DEF Day
    <3>2. y \in Nat /\ m \in 0..99 /\ d + 1 \in 0..99
      BY <1>1, <2>2
    <3> HIDE DEF y, m, d
    <3>3. /\ Day(y, m, d + 1) \in Nat /\ Year(Day(y, m, d + 1)) = y
          /\ R!Month(Day(y, m, d + 1)) = m /\ R!DayOf(Day(y, m, d + 1)) = d + 1
      BY <3>2, Undigits
    <3>4. QED
      BY <3>1, <3>3
  <2>4. Valid(next)
    BY <1>1, <1>2, <2>3 DEF Valid
  <2>5. next - (d + 1) = date - d
    BY <1>1, <2>1
  <2>6. EndBefore(next) = EndBefore(date)
    BY <2>3, <2>5 DEF EndBefore
  <2>7. QED
    BY <2>1, <2>3, <2>4, <2>6
<1>3. CASE m < 12 /\ d = R!Length(y, m)
  <2>1. next = date - d + 101
    BY <1>1, <1>3 DEF R!NextDay, Year
  <2>2. next = 10000 * y + 100 * (m + 1) + 1 /\ m + 1 \in 0..99 /\ 1 \in 0..99
    BY <1>1, <1>3, <2>1
  <2>3. next \in Nat /\ Year(next) = y /\ R!Month(next) = m + 1 /\ R!DayOf(next) = 1
    <3> HIDE DEF next
    <3>1. next = Day(y, m + 1, 1)
      BY <2>2 DEF Day
    <3>2. y \in Nat /\ m + 1 \in 0..99 /\ 1 \in 0..99
      BY <1>1, <2>2
    <3> HIDE DEF y, m
    <3>3. QED
      BY <3>1, <3>2, Undigits
  <2>4. R!Length(y, m + 1) \in 28..31 /\ m + 1 \in 1..12
    BY <1>1, <1>3, Lengths
  <2>5. Valid(next)
    BY <2>3, <2>4 DEF Valid
  <2>6. m + 1 # 1 /\ (m + 1) - 1 = m /\ (next - 1 - 100) + R!Length(y, m) = date
    BY <1>1, <1>3, <2>1
  <2>7. EndBefore(next) = date
    BY <2>3, <2>6 DEF EndBefore
  <2>8. QED
    BY <1>1, <1>3, <2>3, <2>5, <2>7
<1>4. CASE m = 12 /\ d = R!Length(y, m)
  <2>1. next = (y + 1) * 10000 + 101
    BY <1>1, <1>4 DEF R!NextDay, Year
  <2>2. next = 10000 * (y + 1) + 100 * 1 + 1 /\ y + 1 \in Nat /\ 1 \in 0..99
    BY <1>1, <2>1
  <2>3. next \in Nat /\ Year(next) = y + 1 /\ R!Month(next) = 1 /\ R!DayOf(next) = 1
    <3> HIDE DEF next
    <3>1. next = Day(y + 1, 1, 1)
      BY <2>2 DEF Day
    <3>2. y + 1 \in Nat /\ 1 \in 0..99
      BY <2>2
    <3> HIDE DEF y
    <3>3. QED
      BY <3>1, <3>2, Undigits
  <2>4. R!Length(y + 1, 1) \in 28..31
    BY <2>2, Lengths
  <2>5. Valid(next)
    BY <2>3, <2>4 DEF Valid
  <2>6. next - 1 - 8869 = date
    BY <1>1, <1>4, <2>1
  <2>7. EndBefore(next) = date
    BY <2>3, <2>6 DEF EndBefore
  <2>8. QED
    BY <1>1, <1>4, <2>3, <2>5, <2>7
<1>5. QED
  BY <1>1, <1>2, <1>3, <1>4

\* A log is a day older, or new.
LEMMA Ageing ==
  ASSUME NEW day, Valid(day), NEW date, NEW age, Dated(date, age, day)
  PROVE  Dated(date, age + 1, R!NextDay(day))
<1> DEFINE next == R!NextDay(day)
           d == R!DayOf(day)
           e == R!DayOf(next)
           old == EndBefore(day)
           new == EndBefore(next)
<1>1. day \in Nat /\ next \in Nat /\ d \in 1..31 /\ e \in 1..31
  <2>1. Valid(next)
    BY Following
  <2> HIDE DEF next
  <2>2. QED
    BY <2>1, Dates
<1>2. \/ next = day + 1 /\ e = d + 1 /\ new = old
      \/ e = 1 /\ d >= 28 /\ new = day
  BY Following
<1>3. old \in Int /\ old < day - d - 27
  BY Dates
<1>4. /\ date \in Int /\ age \in Nat
      /\ age < d => date = day - age
      /\ age >= d /\ age <= d + 27 => date = old - (age - d)
      /\ age > d + 27 => date < old - 27
  BY DEF Dated
<1>5. /\ date \in Int /\ age + 1 \in Nat
      /\ age + 1 < e => date = next - (age + 1)
      /\ age + 1 >= e /\ age + 1 <= e + 27 => date = new - (age + 1 - e)
      /\ age + 1 > e + 27 => date < new - 27
  <2> HIDE DEF next, d, e, old, new
  <2>1. QED
    BY <1>1, <1>2, <1>3, <1>4
<1>6. QED
  BY <1>1, <1>2, <1>3, <1>5 DEF Dated

\* The log of today.
LEMMA Fresh ==
  ASSUME NEW day, Valid(day)
  PROVE  Dated(day, 0, day)
<1>1. day \in Nat /\ R!DayOf(day) \in 1..31
  BY Dates
<1>2. QED
  BY <1>1 DEF Dated

\* The three steps of the logs: at first, when a day begins, and when cron cleans.
LEMMA LogsBegin == MCInit => LogsInv
<1> SUFFICES ASSUME MCInit
             PROVE  LogsInv
  OBVIOUS
<1>1. today = FirstDay /\ missed = 0 /\ logs = {<<FirstDay - a, a>> : a \in 0..8}
  BY DEF MCInit, R!Init
<1>2. Valid(today) /\ R!DayOf(today) >= 9
  BY <1>1, RetentionAssumption, Lengths DEF Valid, Year
<1>3. ASSUME NEW a \in 0..8
      PROVE  Dated(FirstDay - a, a, today)
  <2>1. /\ FirstDay - a = today - a /\ a < R!DayOf(today) /\ a \in Nat
        /\ today - a \in Int /\ R!DayOf(today) \in Int
    BY <1>1, <1>2 DEF Valid
  <2>2. ~ (a >= R!DayOf(today)) /\ ~ (a > R!DayOf(today) + 27)
    BY <2>1
  <2>3. QED
    BY <2>1, <2>2 DEF Dated
<1>4. R!LogsKept
  <2> SUFFICES ASSUME NEW a \in 0..5
               PROVE  \E l \in logs : l[2] = a
    BY DEF R!LogsKept, R!Ages
  <2>1. a \in 0..8
    OBVIOUS
  <2>2. <<FirstDay - a, a>> \in logs /\ <<FirstDay - a, a>>[2] = a
    BY <1>1, <2>1
  <2>3. QED
    BY <2>2
<1>5. R!LogsGone
  BY <1>1 DEF R!LogsGone, R!Ages
<1>6. \A l \in logs : Dated(l[1], l[2], today)
  BY <1>1, <1>3
<1>7. QED
  BY <1>1, <1>2, <1>4, <1>5, <1>6 DEF LogsInv

LEMMA LogsMidnight ==
  ASSUME LogsInv, R!Midnight
  PROVE  LogsInv'
<1>1. /\ today' = R!NextDay(today) /\ missed' = missed + 1
      /\ logs' = {<<l[1], l[2] + 1>> : l \in logs} \cup {<<today', 0>>}
  BY DEF R!Midnight
<1>2. Valid(today) /\ Valid(today') /\ missed' \in Nat /\ missed' # 0
  BY <1>1, Following DEF LogsInv
<1>6. ASSUME NEW l \in logs
      PROVE  Dated(l[1], l[2] + 1, today')
  BY <1>1, <1>2, Ageing DEF LogsInv
<1>7. Dated(today', 0, today')
  BY <1>2, Fresh
<1>8. \A l \in logs' : Dated(l[1], l[2], today')
  BY <1>1, <1>6, <1>7
<1>9. R!LogsKept'
  <2> SUFFICES ASSUME NEW a \in 0..5
               PROVE  \E l \in logs' : l[2] = a
    BY DEF R!LogsKept, R!Ages
  <2>1. CASE a = 0
    <3>1. <<today', 0>> \in logs' /\ <<today', 0>>[2] = 0
      BY <1>1
    <3>2. QED
      BY <2>1, <3>1
  <2>2. CASE a # 0
    <3>1. a - 1 \in 0..5 /\ (a - 1) + 1 = a
      BY <2>2
    <3>2. PICK l \in logs : l[2] = a - 1
      BY <3>1 DEF LogsInv, R!LogsKept, R!Ages
    <3>3. <<l[1], l[2] + 1>> \in logs' /\ <<l[1], l[2] + 1>>[2] = l[2] + 1
      BY <1>1, <3>2
    <3>4. QED
      BY <3>1, <3>2, <3>3
  <2>3. QED
    BY <2>1, <2>2
<1>10. QED
  BY <1>2, <1>8, <1>9 DEF LogsInv, R!LogsGone

LEMMA LogsCleaned ==
  ASSUME LogsInv, R!LogsClean
  PROVE  LogsInv'
<1> DEFINE d == R!DayOf(today)
<1>1. /\ missed' = 0 /\ today' = today
      /\ logs' = {l \in logs : l[1] >= R!Delday(today)}
  BY DEF R!LogsClean
<1>2. Valid(today) /\ today \in Nat /\ d \in 1..31
  BY Dates DEF LogsInv
<1>3. ASSUME NEW l \in logs
      PROVE  /\ l[2] \in Nat
             /\ l[2] <= 5 => l[1] >= R!Delday(today)
             /\ l[1] >= R!Delday(today) => l[2] <= 8
  <2>1. /\ l[1] \in Int /\ l[2] \in Nat
        /\ l[2] < d => l[1] = today - l[2]
        /\ l[2] >= d /\ l[2] <= d + 27 => l[1] = EndBefore(today) - (l[2] - d)
        /\ l[2] > d + 27 => l[1] < EndBefore(today) - 27
    BY <1>3 DEF LogsInv, Dated
  <2> DEFINE a == l[1]
             b == l[2]
  <2> HIDE DEF a, b
  <2>2. CASE R!Month(today) = 1
    <3>1. EndBefore(today) = today - d - 8869
      BY <2>2 DEF EndBefore
    <3>2. R!Delday(today) = IF d < 7 THEN today - 8877 ELSE today - 7
      BY <2>2 DEF R!Delday
    <3> HIDE DEF d
    <3>3. /\ b \in Nat
          /\ b <= 5 => a >= R!Delday(today)
          /\ a >= R!Delday(today) => b <= 8
      BY <1>2, <2>1, <3>1, <3>2 DEF a, b
    <3>4. QED
      BY <3>3 DEF a, b
  <2>3. CASE R!Month(today) # 1
    <3>1. PICK n \in 28..31 : EndBefore(today) = (today - d - 100) + n
      <4>1. R!Length(Year(today), R!Month(today) - 1) \in 28..31
        BY <1>2, <2>3, Dates
      <4>2. QED
        BY <2>3, <4>1 DEF EndBefore
    <3>2. R!Delday(today) = IF d < 7 THEN today - 77 ELSE today - 7
      BY <2>3 DEF R!Delday
    <3> HIDE DEF d
    <3>3. /\ b \in Nat
          /\ b <= 5 => a >= R!Delday(today)
          /\ a >= R!Delday(today) => b <= 8
      BY <1>2, <2>1, <3>1, <3>2 DEF a, b
    <3>4. QED
      BY <3>3 DEF a, b
  <2>4. QED
    BY <2>2, <2>3
<1>4. R!LogsKept'
  <2> SUFFICES ASSUME NEW a \in 0..5
               PROVE  \E l \in logs' : l[2] = a
    BY DEF R!LogsKept, R!Ages
  <2>1. PICK l \in logs : l[2] = a
    BY DEF LogsInv, R!LogsKept, R!Ages
  <2>2. QED
    BY <1>1, <1>3, <2>1
<1>5. R!LogsGone'
  BY <1>1, <1>3 DEF R!LogsGone, R!Ages
<1>6. \A l \in logs' : Dated(l[1], l[2], today')
  BY <1>1 DEF LogsInv, Dated
<1>7. QED
  BY <1>1, <1>2, <1>4, <1>5, <1>6 DEF LogsInv

-----------------------------------------------------------------------------
(***************************************************************************)
(* The backups.  `head -n` deletes those with fewer than all but six       *)
(* before them; the name of the second game sorts after the first's.       *)
(***************************************************************************)

\* Retention's Cardinality is the library's.
LEMMA SameCardinality == ASSUME NEW S PROVE R!Cardinality(S) = Cardinality(S)
BY DEF R!Cardinality, Cardinality, R!IsFiniteSet, IsFiniteSet

LEMMA BackupsBegin == MCInit => BackupsInv
<1> SUFFICES ASSUME MCInit
             PROVE  BackupsInv
  OBVIOUS
<1>1. made = [g \in {1, 2} |-> 0] /\ backups = {} /\ turn = 0
  BY DEF MCInit, R!Init
<1>2. IsFiniteSet(backups)
  BY <1>1, FS_EmptySet
<1>3. R!SixKept
  BY <1>1 DEF R!SixKept
<1>4. made \in [{1, 2} -> Nat] /\ turn \in 0..2
  BY <1>1
<1>5. QED
  BY <1>1, <1>2, <1>3, <1>4 DEF BackupsInv

\* Of the two games only the second is to keep its six: the first game's name is
\* part of the other's.
LEMMA SixOfTheSecond ==
  /\ R!SixKept <=> \A n \in 1..made[2] : n > made[2] - 6 => <<2, n>> \in backups
  /\ R!SixKept' <=> \A n \in 1..made'[2] : n > made'[2] - 6 => <<2, n>> \in backups'
BY DEF R!SixKept

LEMMA Packed ==
  ASSUME BackupsInv, NEW g \in {1, 2}, R!Pack(g)
  PROVE  BackupsInv'
<1>1. /\ made' = [made EXCEPT ![g] = @ + 1] /\ turn' = turn
      /\ backups' = backups \cup {<<g, made'[g]>>}
  BY DEF R!Pack
<1>2. /\ made \in [{1, 2} -> Nat] /\ turn \in 0..2 /\ IsFiniteSet(backups)
      /\ \A b \in backups : b \in {1, 2} \X Nat /\ b[2] \in 1..made[b[1]]
      /\ \A n \in 1..made[2] : n > made[2] - 6 => <<2, n>> \in backups
  BY SixOfTheSecond DEF BackupsInv
<1>3. /\ made' \in [{1, 2} -> Nat] /\ made'[g] = made[g] + 1
      /\ \A h \in {1, 2} : h # g => made'[h] = made[h]
  BY <1>1, <1>2
<1>4. ASSUME NEW b \in backups'
      PROVE  b \in {1, 2} \X Nat /\ b[2] \in 1..made'[b[1]]
  <2>1. CASE b \in backups
    <3>1. b \in {1, 2} \X Nat /\ b[2] \in 1..made[b[1]] /\ b[1] \in {1, 2}
      BY <1>2, <2>1
    <3>2. made[b[1]] \in Nat /\ made'[b[1]] \in Nat /\ made'[b[1]] >= made[b[1]]
      BY <1>2, <1>3, <3>1
    <3>3. QED
      BY <3>1, <3>2
  <2>2. CASE b = <<g, made'[g]>>
    BY <1>2, <1>3, <2>2
  <2>3. QED
    BY <1>1, <2>1, <2>2
<1>5. ASSUME NEW n \in 1..made'[2], n > made'[2] - 6
      PROVE  <<2, n>> \in backups'
  <2>1. CASE g = 2 /\ n = made'[2]
    BY <1>1, <2>1
  <2>2. CASE g # 2 \/ n # made'[2]
    <3>1. n \in 1..made[2] /\ n > made[2] - 6
      BY <1>2, <1>3, <1>5, <2>2
    <3>2. QED
      BY <1>1, <1>2, <3>1
  <2>3. QED
    BY <2>1, <2>2
<1>6. IsFiniteSet(backups')
  BY <1>1, <1>2, FS_AddElement
<1>7. R!SixKept'
  BY <1>5, SixOfTheSecond
<1>8. QED
  BY <1>1, <1>2, <1>3, <1>4, <1>6, <1>7 DEF BackupsInv

\* At most six backups are not before one of the six newest of the second game.
LEMMA FewAfter ==
  ASSUME NEW found, IsFiniteSet(found), NEW last \in Nat, NEW m \in 1..last, m > last - 6,
         \A b \in found : b \in {1, 2} \X Nat /\ (b[1] = 2 => b[2] <= last)
  PROVE  <<2, m>> \notin R!Doomed(found, R!Cardinality(found) - 6)
<1> DEFINE before == {c \in found : R!Before(c, <<2, m>>)}
           rest == found \ before
           number == [b \in rest |-> b[2]]
<1>1. \A b \in rest : b = <<2, b[2]>> /\ b[2] \in m..last
  <2> SUFFICES ASSUME NEW b \in found, ~ R!Before(b, <<2, m>>)
               PROVE  b = <<2, b[2]>> /\ b[2] \in m..last
    OBVIOUS
  <2>1. b \in {1, 2} \X Nat /\ (b[1] = 2 => b[2] <= last)
    OBVIOUS
  <2>2. ~ (b[1] < 2) /\ ~ (b[1] = 2 /\ b[2] < m)
    BY DEF R!Before
  <2>3. b = <<b[1], b[2]>> /\ b[1] \in {1, 2} /\ b[2] \in Nat
    BY <2>1
  <2>4. QED
    BY <2>1, <2>2, <2>3
<1>2. number \in Injection(rest, m..last)
  <2> HIDE DEF rest
  <2>1. QED
    BY <1>1 DEF Injection, IsInjective
<1>3. /\ IsFiniteSet(m..last) /\ Cardinality(m..last) = last - m + 1
  BY FS_Interval
<1>4. Cardinality(rest) <= last - m + 1 /\ IsFiniteSet(rest)
  <2> HIDE DEF rest, number
  <2>1. QED
    BY <1>2, <1>3, FS_Injection
<1>5. IsFiniteSet(before) /\ Cardinality(rest) = Cardinality(found) - Cardinality(before)
  <2>1. before \in SUBSET found /\ found \cap before = before
    OBVIOUS
  <2>2. rest = found \ before
    OBVIOUS
  <2> HIDE DEF before, rest
  <2>3. IsFiniteSet(before)
    BY <2>1, FS_Subset
  <2>4. Cardinality(rest) = Cardinality(found) - Cardinality(found \cap before)
    BY <2>2, FS_Difference
  <2>5. QED
    BY <2>1, <2>3, <2>4
<1>6. Cardinality(before) \in Nat /\ Cardinality(found) \in Nat /\ Cardinality(rest) \in Nat
  <2> HIDE DEF before, rest
  <2>1. QED
    BY <1>4, <1>5, FS_CardinalityType
<1>7. ~ (Cardinality(before) < Cardinality(found) - 6)
  <2> HIDE DEF before, rest
  <2>1. QED
    BY <1>4, <1>5, <1>6
<1>8. QED
  BY <1>7, SameCardinality DEF R!Doomed

LEMMA DoomedFound ==
  ASSUME NEW found, NEW n
  PROVE  R!Doomed(found, n) \subseteq found
BY DEF R!Doomed

LEMMA Begun ==
  ASSUME BackupsInv, R!ClearBegins
  PROVE  BackupsInv'
<1>1. made' = made /\ backups' = backups /\ turn' = 1
  BY DEF R!ClearBegins
<1>2. R!SixKept'
  BY <1>1, SixOfTheSecond DEF BackupsInv
<1>3. /\ made' \in [{1, 2} -> Nat] /\ turn' \in 0..2 /\ IsFiniteSet(backups')
      /\ \A b \in backups' : b \in {1, 2} \X Nat /\ b[2] \in 1..made'[b[1]]
  BY <1>1 DEF BackupsInv
<1>4. QED
  BY <1>2, <1>3 DEF BackupsInv

LEMMA Cleared ==
  ASSUME BackupsInv, R!DelFileName
  PROVE  BackupsInv'
<1> DEFINE C == {<<1, 1>>, <<2, 2>>, <<2, 1>>}
           found == {b \in backups : <<b[1], turn>> \in C}
           n == R!Cardinality(found) - 6
<1>1. /\ made' = made /\ turn \in {1, 2} /\ turn' \in 0..2
      /\ backups' \in {backups, backups \ R!Doomed(found, n)}
  <2>1. turn # 0 /\ made' = made /\ turn' = (turn + 1) % (R!Cardinality({1, 2}) + 1)
        /\ backups' \in {backups, backups \ R!Doomed(found, n)}
    BY DEF R!DelFileName
  <2>2. R!Cardinality({1, 2}) = 2
    <3>1. {1, 2} = {1} \cup {2} /\ 2 \notin {1}
      OBVIOUS
    <3>2. IsFiniteSet({1}) /\ Cardinality({1}) = 1
      BY FS_Singleton
    <3>3. Cardinality({1} \cup {2}) = 2
      BY <3>1, <3>2, FS_AddElement
    <3>4. R!Cardinality({1, 2}) = Cardinality({1, 2})
      BY SameCardinality
    <3>5. QED
      BY <3>1, <3>3, <3>4
  <2>3. turn \in 0..2
    BY DEF BackupsInv
  <2>4. QED
    BY <2>1, <2>2, <2>3
<1>2. /\ made \in [{1, 2} -> Nat] /\ IsFiniteSet(backups)
      /\ \A b \in backups : b \in {1, 2} \X Nat /\ b[2] \in 1..made[b[1]]
      /\ \A k \in 1..made[2] : k > made[2] - 6 => <<2, k>> \in backups
  BY SixOfTheSecond DEF BackupsInv
<1>3. backups' \in SUBSET backups
  BY <1>1
<1>4. IsFiniteSet(backups')
  BY <1>2, <1>3, FS_Subset
<1>5. IsFiniteSet(found)
  <2>1. found \in SUBSET backups
    OBVIOUS
  <2> HIDE DEF found
  <2>2. QED
    BY <1>2, <2>1, FS_Subset
<1>6. ASSUME NEW k \in 1..made[2], k > made[2] - 6
      PROVE  <<2, k>> \in backups'
  <2>1. <<2, k>> \in backups
    BY <1>2, <1>6
  <2>2. \A b \in found : b \in {1, 2} \X Nat /\ (b[1] = 2 => b[2] <= made[2])
    BY <1>2
  <2> HIDE DEF found
  <2>3. <<2, k>> \notin R!Doomed(found, R!Cardinality(found) - 6)
    BY <1>2, <1>5, <1>6, <2>2, FewAfter
  <2>4. QED
    BY <1>1, <2>1, <2>3
<1>7. R!SixKept'
  BY <1>1, <1>6, SixOfTheSecond
<1>8. QED
  BY <1>1, <1>2, <1>3, <1>4, <1>7 DEF BackupsInv

-----------------------------------------------------------------------------
(***************************************************************************)
(* Both, as one invariant of the module that TLC checks.                   *)
(***************************************************************************)

LEMMA RetentionBegins == MCInit => LogsInv /\ BackupsInv
BY LogsBegin, BackupsBegin

LEMMA RetentionKept ==
  LogsInv /\ BackupsInv /\ [MCNext]_<<part, vars, retention>> => (LogsInv /\ BackupsInv)'
<1> SUFFICES ASSUME LogsInv, BackupsInv, [MCNext]_<<part, vars, retention>>
             PROVE  LogsInv' /\ BackupsInv'
  OBVIOUS
<1>1. ASSUME <<today, missed, logs>>' = <<today, missed, logs>>
      PROVE  LogsInv'
  BY <1>1 DEF LogsInv, R!LogsKept, R!LogsGone, R!Ages
<1>2. ASSUME <<made, backups, turn>>' = <<made, backups, turn>>
      PROVE  BackupsInv'
  BY <1>2 DEF BackupsInv, R!SixKept
<1>3. CASE LogsNext
  <2>1. R!Midnight \/ R!LogsClean
    BY <1>3 DEF LogsNext, R!LogsNext
  <2>2. <<made, backups, turn>>' = <<made, backups, turn>>
    BY <2>1 DEF R!Midnight, R!LogsClean, R!backupVars
  <2>3. QED
    BY <1>2, <2>1, <2>2, LogsMidnight, LogsCleaned
<1>4. CASE BackupsNext
  <2>1. (\E g \in {1, 2} : R!Pack(g)) \/ R!ClearBegins \/ R!DelFileName
    BY <1>4 DEF BackupsNext, R!BackupsNext
  <2>2. <<today, missed, logs>>' = <<today, missed, logs>>
    BY <2>1 DEF R!Pack, R!ClearBegins, R!DelFileName, R!logVars
  <2>3. QED
    BY <1>1, <2>1, <2>2, Packed, Begun, Cleared
<1>5. CASE ConsolesNext \/ UNCHANGED <<part, vars, retention>>
  <2>1. UNCHANGED retention
    BY <1>5 DEF ConsolesNext
  <2>2. QED
    BY <1>1, <1>2, <2>1 DEF retention
<1>6. QED
  BY <1>3, <1>4, <1>5 DEF MCNext

\* cleanlog.sh keeps the logs of six days and leaves none older than eight, and
\* clear_bakfile keeps the six newest backups of a game whose name is part of no
\* other's: across every month end, leap year and turn of the year, from any day
\* but the first eight of a month, however many runs cron misses and releases
\* are made.
THEOREM OldIsDeleted == MCSpec => []OnlyOldIsDeleted
<1>1. MCInit => LogsInv /\ BackupsInv
  BY RetentionBegins
<1>2. LogsInv /\ BackupsInv /\ [MCNext]_<<part, vars, retention>> => (LogsInv /\ BackupsInv)'
  BY RetentionKept
<1>3. LogsInv /\ BackupsInv => OnlyOldIsDeleted
  BY DEF LogsInv, BackupsInv, OnlyOldIsDeleted
<1>4. QED
  BY <1>1, <1>2, <1>3, PTL DEF MCSpec
=============================================================================
