--------------------------- MODULE CommandsProofs --------------------------
(***************************************************************************)
(* However an invocation of certbot ends, its log records, its messages    *)
(* and its locks have gone where they belong, for any other invocations    *)
(* beside it and any number of steps of theirs.  And what its commands do  *)
(* to the machine's files: the names of finalized checkpoints ascend, for  *)
(* any changes of the clock; renewals treat every lineage as asked and run *)
(* its hooks in pairs; lineages stay apart; a renewal uses the options of  *)
(* the issuance.                                                           *)
(***************************************************************************)
EXTENDS MCCommands, TLAPS, SequenceTheorems, FiniteSetTheorems, WellFoundedInduction

-----------------------------------------------------------------------------
(***************************************************************************)
(* The inductive invariant.                                                *)
(***************************************************************************)

Ending == {"hook", "exit", "gone"}
Causes == {"", "returns", "quits", "error", "crash", "interrupt", "killed"}
Calls == {"shutdown", "release", "print"}
Owners == Others \cup Free \cup {Me}

Types ==
  /\ attached \subseteq {"memory", "file"} /\ target \in {"temp", "file"}
  /\ hook \in {"pre", "post"}
  /\ atexit \in Seq(Calls)
  /\ locks \subseteq Dirs /\ path \in [Dirs -> Owners]
  /\ holders \in [Dirs -> SUBSET (Others \cup {Me})]
  /\ cause \in Causes

\* A record is somewhere; once the log is set up it is in the log.
Records ==
  /\ logged \subseteq memory \cup temp \cup logfile
  /\ hook = "post" => logged \subseteq logfile /\ attached = {"file"}
  /\ temp # {} => there
  /\ pc \notin {"exit", "gone"} => temp = {}
  /\ target = "temp" /\ pc \notin {"exit", "gone"} => there
  /\ attached # {} /\ (pc = "detach" => "file" \in attached)
  /\ pc = "retarget" => attached = {"file"}
  /\ pc \in {"flush", "close", "set hook"} => attached = {"file"} /\ target = "file"
  /\ pc \in {"close", "set hook"} => memory = {}

\* What has ended main() tells what has been done about it.
Ended ==
  /\ cause = "" <=> pc \notin Ending
  /\ pc = "hook" => cause \in {"error", "crash", "interrupt"}
  /\ cause = "killed" => pc = "gone"
  /\ cause \in {"quits", "returns"} => temp = {}
  /\ pc \in {"exit", "gone"} /\ cause \in {"error", "crash", "interrupt"} =>
       logged \subseteq temp \cup logfile

\* logging.shutdown is called last.
ShutDown ==
  /\ pc # "gone" => (atexit # <<>> /\ atexit[1] = "shutdown")
                    \/ (pc = "exit" /\ atexit = <<>> /\ (there => temp # {}))
  /\ pc = "gone" /\ cause # "killed" => atexit = <<>> /\ (there => temp # {})

Pending(f) == \E i \in 1..Len(atexit) : atexit[i] = f
Important == {m \in added : m.crash /\ (quiet => m.high)}

\* The messages there are will be printed, or have been.
Messages ==
  /\ pc \in {"prepare", "func"} => Pending("print") /\ messages = added
  /\ pc \notin {"prepare", "func"} \cup Ending => messages = {} /\ added = {}
  /\ \/ Pending("print") /\ messages = added
     \/ Important \subseteq printed

Once == \A i, j \in 1..Len(atexit) : atexit[i] = "release" /\ atexit[j] = "release" => i = j

\* A directory belongs to whoever's file is there, and to this process from
\* the lock until the one release.
Owned ==
  verb # "plugins" =>
    /\ \A d \in Dirs : holders[d] = IF path[d] \in Free THEN {} ELSE {path[d]}
    /\ \A d \in Dirs : path[d] = Me <=> (d \in locks /\ Pending("release") /\ pc # "gone")
    /\ Once
    /\ pc \notin Ending => (Pending("release") <=> locks # {})

\* The directories that have been set up.
SetUp ==
  verb # "plugins" =>
    /\ pc \in {"open", "attach", "detach", "retarget", "flush", "close", "set hook", "config"} =>
         "logs" \in locks
    /\ pc = "work" => {"logs", "config"} \subseteq locks
    /\ pc \in {"hook dirs", "report", "prepare", "func"} => CoreDirs \subseteq locks

IInv == Types /\ Records /\ Ended /\ ShutDown /\ Messages /\ Owned /\ SetUp

-----------------------------------------------------------------------------
(***************************************************************************)
(* The functions registered for the exit.                                  *)
(***************************************************************************)

\* What atexit.register adds comes last.
LEMMA Registers ==
  ASSUME Types, NEW f \in Calls, atexit' = Append(atexit, f)
  PROVE  /\ atexit' \in Seq(Calls) /\ atexit' # <<>> /\ Pending(f)'
         /\ atexit # <<>> => atexit'[1] = atexit[1]
         /\ \A g \in Calls \ {f} : Pending(g)' <=> Pending(g)
         /\ f # "release" => (Once => Once')
         /\ ~ Pending("release") => Once'
<1>1. atexit \in Seq(Calls) /\ Len(atexit) \in Nat
  BY DEF Types
<1>2. /\ atexit' \in Seq(Calls) /\ Len(atexit') = Len(atexit) + 1
      /\ atexit'[Len(atexit) + 1] = f
      /\ \A i \in 1..Len(atexit) : atexit'[i] = atexit[i]
  BY <1>1
<1>3. atexit' # <<>> /\ Pending(f)'
  BY <1>1, <1>2 DEF Pending
<1>4. atexit # <<>> => atexit'[1] = atexit[1]
  BY <1>1, <1>2
<1>5. 1..Len(atexit') = 1..Len(atexit) \cup {Len(atexit) + 1}
  BY <1>1, <1>2
<1>6. \A g \in Calls \ {f} : Pending(g)' <=> Pending(g)
  BY <1>2, <1>5 DEF Pending
<1>7. f # "release" => (Once => Once')
  BY <1>2, <1>5 DEF Once
<1>8. ~ Pending("release") => Once'
  BY <1>2, <1>5 DEF Once, Pending
<1>9. QED
  BY <1>2, <1>3, <1>4, <1>6, <1>7, <1>8

\* The function registered last is called, and is pending no more.
LEMMA Calling ==
  ASSUME Types, NEW f \in Calls, Call(f)
  PROVE  /\ atexit' \in Seq(Calls) /\ Pending(f) /\ pc = "exit"
         /\ atexit' # <<>> => atexit'[1] = atexit[1]
         /\ atexit' = <<>> => atexit[1] = f
         /\ \A g \in Calls \ {f} : Pending(g)' <=> Pending(g)
         /\ Once => Once'
         /\ Once /\ f = "release" => ~ Pending("release")'
<1> DEFINE n == Len(atexit)
<1>1. /\ atexit \in Seq(Calls) /\ n \in Nat /\ n >= 1 /\ atexit[n] = f /\ pc = "exit"
      /\ atexit' = SubSeq(atexit, 1, n - 1)
  BY DEF Types, Call, Front, Last
<1>2. /\ atexit' \in Seq(Calls) /\ Len(atexit') = n - 1
      /\ \A i \in 1..n - 1 : atexit'[i] = atexit[i]
  <2>1. PICK m \in Int : m = n - 1
    BY <1>1
  <2>2. \A i \in 1..m : atexit[i] \in Calls
    BY <1>1, <2>1
  <2>3. /\ SubSeq(atexit, 1, m) \in Seq(Calls)
        /\ Len(SubSeq(atexit, 1, m)) = IF 1 <= m THEN m - 1 + 1 ELSE 0
        /\ \A i \in 1..m - 1 + 1 : SubSeq(atexit, 1, m)[i] = atexit[1 + i - 1]
    BY <2>2, SubSeqProperties
  <2>4. m \in Nat /\ m - 1 + 1 = m /\ \A i \in 1..m : 1 + i - 1 = i
    BY <1>1, <2>1
  <2>5. QED
    BY <1>1, <2>1, <2>3, <2>4
<1>3. 1..n = 1..n - 1 \cup {n} /\ n \notin 1..n - 1
  BY <1>1
<1>4. Pending(f)
  BY <1>1 DEF Pending
<1>5. atexit' # <<>> => atexit'[1] = atexit[1]
  BY <1>1, <1>2
<1>6. atexit' = <<>> => atexit[1] = f
  <2> SUFFICES ASSUME atexit' = <<>> PROVE atexit[1] = f
    OBVIOUS
  <2>1. Len(atexit') = 0
    OBVIOUS
  <2>2. n = 1
    BY <1>1, <1>2, <2>1
  <2>3. QED
    BY <1>1, <2>2
<1>7. \A g \in Calls \ {f} : Pending(g)' <=> Pending(g)
  BY <1>1, <1>2, <1>3 DEF Pending
<1>8. Once => Once'
  BY <1>2, <1>3 DEF Once
<1>9. Once /\ f = "release" => ~ Pending("release")'
  BY <1>1, <1>2, <1>3 DEF Once, Pending
<1>10. QED
  BY <1>1, <1>2, <1>4, <1>5, <1>6, <1>7, <1>8, <1>9

-----------------------------------------------------------------------------
(***************************************************************************)
(* The invariant is inductive: the steps, then each part of it.            *)
(***************************************************************************)

\* Steps of main() that leave the log and the messages alone.
Plain ==
  \/ Parse \/ OpenLog \/ HookDirs \/ MakeReporter \/ Prepare \/ Finish \/ Interrupt
  \/ SetUpCoreDir("logs", "open") \/ SetUpCoreDir("config", "work")
  \/ SetUpCoreDir("work", "hook dirs")
Rewiring == Attach \/ Detach \/ Retarget \/ Flush \/ CloseTemp \/ SetHook

LEMMA Steps ==
  Next <=> \/ Plain \/ Rewiring \/ Work \/ ExceptHook \/ PrintMessages \/ ReleaseLocks
           \/ Shutdown \/ End \/ Kill \/ Elsewhere
BY DEF Next, PostArgParseSetup, NeededDirs, Exit, Plain, Rewiring

LEMMA PlainSteps ==
  ASSUME Plain
  PROVE  /\ UNCHANGED <<verb, quiet, log, wiring, report>> /\ pc \notin Ending
         /\ \/ /\ UNCHANGED cause
               /\ pc' \in {"logs", "open", "attach", "config", "work", "hook dirs", "report",
                           "prepare", "func"}
            \/ cause' \in {"returns", "quits"} /\ pc' = "exit"
            \/ cause' \in {"error", "crash", "interrupt"} /\ pc' = "hook"
         /\ atexit' \in {atexit, Append(atexit, "release"), Append(atexit, "print")}
<1>1. CASE Parse \/ OpenLog \/ HookDirs \/ Finish \/ Interrupt
  BY <1>1 DEF Parse, OpenLog, HookDirs, Finish, Interrupt, Ending, SetUpFails, Continue, Leave
<1>2. CASE MakeReporter
  BY <1>2 DEF MakeReporter, RegisterPrint, Ending, Continue
<1>3. CASE Prepare
  BY <1>3 DEF Prepare, Registered, FirstLock, Ending, Continue, Leave
<1>4. ASSUME NEW d \in {"logs", "config", "work"}, NEW next \in {"open", "work", "hook dirs"},
             SetUpCoreDir(d, next)
      PROVE  /\ UNCHANGED <<verb, quiet, log, wiring, report>> /\ pc \notin Ending
             /\ \/ UNCHANGED cause /\ pc' \in {next, "report"}
                \/ cause' = "error" /\ pc' = "hook"
             /\ atexit' \in {atexit, Append(atexit, "release")}
  BY <1>4 DEF SetUpCoreDir, Registered, FirstLock, SetUpFails, Ending, Continue, Leave
<1>5. QED
  BY <1>1, <1>2, <1>3, <1>4 DEF Plain

\* No step forgets what is registered, but to call it.
LEMMA AtExit ==
  ASSUME Types, Next
  PROVE  /\ atexit' \in Seq(Calls)
         /\ pc # "exit" =>
              /\ atexit # <<>> => atexit' # <<>> /\ atexit'[1] = atexit[1]
              /\ \A f \in Calls : Pending(f) => Pending(f)'
<1>1. CASE atexit' = atexit
  BY <1>1 DEF Types, Pending
<1>2. CASE \E f \in Calls : atexit' = Append(atexit, f)
  BY <1>2, Registers
<1>3. CASE \E f \in Calls : Call(f)
  BY <1>3, Calling
<1>4. \/ atexit' = atexit \/ \E f \in Calls : atexit' = Append(atexit, f)
      \/ \E f \in Calls : Call(f)
  <2>1. CASE Plain
    BY <2>1, PlainSteps DEF Calls
  <2>2. CASE Rewiring \/ Work \/ ExceptHook \/ End \/ Kill \/ Elsewhere
    BY <2>2 DEF Rewiring, Attach, Detach, Retarget, Flush, CloseTemp, SetHook, Rewire, Work,
       ExceptHook, End, Kill, Elsewhere
  <2>3. CASE PrintMessages \/ ReleaseLocks \/ Shutdown
    BY <2>3 DEF PrintMessages, ReleaseLocks, Shutdown, Calls
  <2>4. QED
    BY <2>1, <2>2, <2>3, Steps
<1>5. QED
  BY <1>1, <1>2, <1>3, <1>4

\* Only Prepare and the setting up of directories lock; only a release, the end
\* of the process and other invocations unlock.
LEMMA DirSteps ==
  ASSUME Next
  PROVE  \/ UNCHANGED dirs
         \/ \E d \in Dirs : Lock(d) /\ atexit' = FirstLock
         \/ ReleaseLocks \/ Kill \/ Elsewhere
<1>1. CASE Plain
  <2>1. CASE Prepare
    BY <2>1 DEF Prepare, Registered, Dirs
  <2>2. ASSUME NEW d \in {"logs", "config", "work"}, NEW next \in {"open", "work", "hook dirs"},
               SetUpCoreDir(d, next)
        PROVE  UNCHANGED dirs \/ (Lock(d) /\ atexit' = FirstLock)
    BY <2>2 DEF SetUpCoreDir, Registered, dirs
  <2>3. QED
    BY <1>1, <2>1, <2>2
       DEF Plain, Dirs, Parse, OpenLog, HookDirs, MakeReporter, Finish, Interrupt
<1>2. CASE Rewiring \/ Work \/ ExceptHook \/ PrintMessages \/ Shutdown \/ End
  BY <1>2 DEF Rewiring, Attach, Detach, Retarget, Flush, CloseTemp, SetHook, Rewire, Work,
     ExceptHook, PrintMessages, Shutdown, End
<1>3. QED
  BY <1>1, <1>2, Steps

LEMMA TypeStep ==
  ASSUME Types, Next
  PROVE  Types'
<1>1. atexit' \in Seq(Calls)
  BY AtExit
<1>2. /\ attached' \subseteq {"memory", "file"} /\ target' \in {"temp", "file"}
      /\ hook' \in {"pre", "post"} /\ cause' \in Causes
  <2>1. CASE Plain
    BY <2>1, PlainSteps DEF Types, wiring, Causes
  <2>2. CASE Rewiring
    BY <2>2 DEF Rewiring, Attach, Detach, Retarget, Flush, CloseTemp, SetHook, Rewire, Continue,
       wiring, Types
  <2>3. CASE Work \/ ExceptHook \/ PrintMessages \/ ReleaseLocks \/ Shutdown \/ End \/ Elsewhere
    BY <2>3 DEF Work, ExceptHook, PrintMessages, ReleaseLocks, Shutdown, End, Elsewhere, wiring,
       Types
  <2>4. CASE Kill
    BY <2>4 DEF Kill, wiring, Types, Causes
  <2>5. QED
    BY <2>1, <2>2, <2>3, <2>4, Steps
<1>3. /\ locks' \subseteq Dirs /\ path' \in [Dirs -> Owners]
      /\ holders' \in [Dirs -> SUBSET (Others \cup {Me})]
  <2>1. CASE UNCHANGED dirs
    BY <2>1 DEF dirs, Types
  <2>2. ASSUME NEW d \in Dirs, Lock(d)
        PROVE  /\ locks' \subseteq Dirs /\ path' \in [Dirs -> Owners]
               /\ holders' \in [Dirs -> SUBSET (Others \cup {Me})]
    BY <2>2 DEF Lock, Types, Owners
  <2>3. CASE ReleaseLocks
    BY <2>3 DEF ReleaseLocks, Types, Owners, Free
  <2>4. CASE Kill
    BY <2>4 DEF Kill, Types, Owners, Free
  <2>5. CASE Elsewhere
    BY <2>5, OthersAssumption DEF Elsewhere, OtherLocks, OtherReleases, Types, Owners, Free
  <2>6. QED
    BY <2>1, <2>2, <2>3, <2>4, <2>5, DirSteps
<1>4. QED
  BY <1>1, <1>2, <1>3 DEF Types

LogInv == Records /\ Ended /\ ShutDown

\* A step that logs nothing and goes on, or ends main().
LEMMA LogPlain ==
  ASSUME Types, LogInv, Next, Plain
  PROVE  LogInv'
<1>1. /\ UNCHANGED <<log, wiring>> /\ pc \notin Ending
      /\ \/ /\ UNCHANGED cause
            /\ pc' \in {"logs", "open", "attach", "config", "work", "hook dirs", "report",
                        "prepare", "func"}
         \/ cause' \in {"returns", "quits"} /\ pc' = "exit"
         \/ cause' \in {"error", "crash", "interrupt"} /\ pc' = "hook"
  BY PlainSteps
<1>2. Records'
  BY <1>1 DEF LogInv, Records, log, wiring, Ending
<1>3. Ended'
  BY <1>1 DEF LogInv, Records, Ended, log, wiring, Ending
<1>4. ShutDown'
  <2>1. atexit' # <<>> /\ atexit'[1] = "shutdown"
    BY <1>1, AtExit DEF LogInv, ShutDown, Ending
  <2>2. QED
    BY <1>1, <2>1 DEF ShutDown
<1>5. QED
  BY <1>2, <1>3, <1>4 DEF LogInv

\* The steps that set up the log.
LEMMA LogRewiring ==
  ASSUME Types, LogInv, Rewiring
  PROVE  LogInv'
<1>1. /\ UNCHANGED <<cause, atexit, logged>> /\ pc \notin Ending /\ pc' \notin Ending
      /\ temp = {} /\ temp' = {}
  BY DEF Rewiring, Attach, Detach, Retarget, Flush, CloseTemp, SetHook, Rewire, Continue, Ending,
     LogInv, Records, log, ToTarget
<1>2. Ended' /\ ShutDown'
  BY <1>1 DEF LogInv, Ended, ShutDown, Ending
<1>3. Records'
  <2> USE <1>1 DEF LogInv, Records, Ending, Rewire, Continue
  <2>1. CASE Attach
    BY <2>1 DEF Attach, log
  <2>2. CASE Detach
    <3>1. attached' = {"file"}
      BY <2>2 DEF Detach, Types
    <3>2. QED
      BY <2>2, <3>1 DEF Detach, log
  <2>3. CASE Retarget
    BY <2>3 DEF Retarget, log
  <2>4. CASE Flush
    BY <2>4 DEF Flush, ToTarget, wiring
  <2>5. CASE CloseTemp
    BY <2>5 DEF CloseTemp, wiring
  <2>6. CASE SetHook
    BY <2>6 DEF SetHook, log
  <2>7. QED
    BY <2>1, <2>2, <2>3, <2>4, <2>5, <2>6 DEF Rewiring
<1>4. QED
  BY <1>2, <1>3 DEF LogInv

\* A record of the command goes to the handlers there are.
LEMMA LogWork ==
  ASSUME Types, LogInv, Work
  PROVE  LogInv'
<1>1. /\ UNCHANGED <<temp, there, wiring, atexit, cause, pc>> /\ pc = "func"
      /\ logged' = logged \cup {"late"}
      /\ memory' = IF "memory" \in attached THEN memory \cup {"late"} ELSE memory
      /\ logfile' = IF "file" \in attached THEN logfile \cup {"late"} ELSE logfile
  BY DEF Work, Log
<1>2. "memory" \in attached \/ "file" \in attached
  BY DEF Types, LogInv, Records
<1>3. Records'
  BY <1>1, <1>2 DEF LogInv, Records, wiring
<1>4. Ended' /\ ShutDown'
  BY <1>1 DEF LogInv, Ended, ShutDown, Ending
<1>5. QED
  BY <1>3, <1>4 DEF LogInv

\* The excepthook brings every record to a file.
LEMMA LogExceptHook ==
  ASSUME Types, LogInv, ExceptHook
  PROVE  LogInv'
<1> DEFINE new(handler) == IF handler \in attached THEN {"last"} ELSE {}
           buffer == memory \cup new("memory")
           out(handler) == IF hook = "pre" /\ target = handler THEN buffer ELSE {}
<1>1. /\ UNCHANGED <<there, wiring, atexit, cause>> /\ pc = "hook" /\ pc' = "exit"
      /\ logged' = logged \cup {"last"}
      /\ memory' = (IF hook = "pre" THEN {} ELSE buffer)
      /\ temp' = temp \cup out("temp")
      /\ logfile' = logfile \cup new("file") \cup out("file")
  BY DEF ExceptHook, Flushed, LoggedToo
<1>2. "memory" \in attached \/ "file" \in attached
  BY DEF Types, LogInv, Records
<1>3. temp = {} /\ (target = "temp" => there)
  BY <1>1 DEF LogInv, Records
<1>4. logged' \subseteq temp' \cup logfile' /\ (hook = "post" => logged' \subseteq logfile')
  <2>1. CASE hook = "post"
    BY <1>1, <2>1 DEF LogInv, Records
  <2>2. CASE hook = "pre"
    <3>1. logged' \subseteq buffer \cup new("file") \cup logfile
      BY <1>1, <1>2, <1>3 DEF LogInv, Records
    <3>2. buffer \subseteq temp' \cup logfile'
      BY <1>1, <2>2 DEF Types
    <3>3. new("file") \cup logfile \subseteq logfile'
      BY <1>1
    <3>4. QED
      BY <2>2, <3>1, <3>2, <3>3
  <2>3. QED
    BY <2>1, <2>2 DEF Types
<1>5. temp' # {} => there'
  BY <1>1, <1>3
<1>6. Records'
  BY <1>1, <1>4, <1>5 DEF LogInv, Records, wiring
<1>7. Ended'
  BY <1>1, <1>4 DEF LogInv, Ended, Ending
<1>8. ShutDown'
  BY <1>1 DEF LogInv, ShutDown
<1>9. QED
  BY <1>6, <1>7, <1>8 DEF LogInv

\* What is called at exit; with the shutdown an unused temporary file goes.
LEMMA LogExit ==
  ASSUME Types, LogInv, PrintMessages \/ ReleaseLocks \/ Shutdown \/ End
  PROVE  LogInv'
<1>1. /\ UNCHANGED <<memory, temp, logfile, logged, wiring, cause>> /\ pc = "exit"
      /\ pc' \in {"exit", "gone"}
  BY DEF PrintMessages, ReleaseLocks, Shutdown, End, Call, log
<1>2. CASE PrintMessages \/ ReleaseLocks
  <2>1. /\ UNCHANGED <<there, pc>>
        /\ \E f \in Calls \ {"shutdown"} : Call(f)
    BY <1>2 DEF PrintMessages, ReleaseLocks, log, Calls
  <2>2. /\ atexit # <<>>
        /\ atexit' # <<>> => atexit'[1] = atexit[1]
        /\ atexit' = <<>> => atexit[1] # "shutdown"
    BY <2>1, Calling DEF Call
  <2>3. ShutDown'
    BY <1>1, <2>1, <2>2 DEF LogInv, ShutDown
  <2>4. QED
    BY <1>1, <2>1, <2>3 DEF LogInv, Records, Ended, wiring
<1>3. CASE Shutdown
  <2>1. /\ UNCHANGED pc /\ there' = (there /\ temp # {}) /\ Call("shutdown")
    BY <1>3 DEF Shutdown, StillThere
  <2>2. atexit # <<>> /\ (atexit' # <<>> => atexit'[1] = atexit[1])
    BY <2>1, Calling DEF Call, Calls
  <2>3. ShutDown'
    BY <1>1, <2>1, <2>2 DEF LogInv, ShutDown
  <2>4. QED
    BY <1>1, <2>1, <2>3 DEF LogInv, Records, Ended, wiring
<1>4. CASE End
  BY <1>1, <1>4 DEF End, LogInv, Records, Ended, ShutDown, Ending, wiring, log
<1>5. QED
  BY <1>2, <1>3, <1>4

LEMMA LogElsewhere ==
  ASSUME Types, LogInv, Kill \/ Elsewhere
  PROVE  LogInv'
<1>1. UNCHANGED <<log, wiring, atexit>>
  BY DEF Kill, Elsewhere
<1>2. CASE Kill
  <2>1. cause' = "killed" /\ pc' = "gone"
    BY <1>2 DEF Kill
  <2>2. Records'
    BY <1>1, <2>1 DEF LogInv, Records, wiring, log
  <2>3. Ended' /\ ShutDown'
    BY <2>1 DEF Ended, ShutDown, Ending
  <2>4. QED
    BY <2>2, <2>3 DEF LogInv
<1>3. CASE Elsewhere
  <2>1. UNCHANGED <<cause, pc>>
    BY <1>3 DEF Elsewhere
  <2>2. Records'
    BY <1>1, <2>1 DEF LogInv, Records, wiring, log
  <2>3. Ended' /\ ShutDown'
    BY <1>1, <2>1 DEF LogInv, Ended, ShutDown, wiring, log
  <2>4. QED
    BY <2>2, <2>3 DEF LogInv
<1>4. QED
  BY <1>2, <1>3

\* The messages: printed by what MakeReporter has registered.
LEMMA MessagesStep ==
  ASSUME Types, Messages, Next
  PROVE  Messages'
<1>1. UNCHANGED quiet
  <2>1. CASE Plain
    BY <2>1, PlainSteps
  <2>2. CASE ~ Plain
    BY <2>2, Steps DEF Rewiring, Attach, Detach, Retarget, Flush, CloseTemp, SetHook, Rewire, Work,
       ExceptHook, PrintMessages, ReleaseLocks, Shutdown, End, Kill, Elsewhere
  <2>3. QED
    BY <2>1, <2>2
<1>2. CASE MakeReporter
  <2>1. /\ UNCHANGED report /\ pc = "report" /\ pc' = "prepare"
        /\ atexit' = Append(atexit, "print")
    BY <1>2 DEF MakeReporter, RegisterPrint, Continue
  <2>2. Pending("print")'
    BY <2>1, Registers DEF Calls
  <2>3. messages' = {} /\ added' = {}
    BY <2>1 DEF Messages, Ending, report
  <2>4. QED
    BY <2>1, <2>2, <2>3 DEF Messages, Ending
<1>3. CASE Plain /\ ~ MakeReporter
  <2>1. /\ UNCHANGED report /\ pc \notin Ending /\ (Pending("print") => Pending("print")')
    BY <1>3, PlainSteps, AtExit DEF Calls, Ending
  <2>2. /\ pc' \in {"prepare", "func"} => pc \in {"prepare", "func"}
        /\ pc' \notin {"prepare", "func"} \cup Ending => pc \notin {"prepare", "func"}
    BY <1>3 DEF Plain, Parse, OpenLog, HookDirs, Prepare, Finish, Interrupt, SetUpCoreDir,
       SetUpFails, Continue, Leave, Ending
  <2>3. Important' = Important
    BY <1>1, <2>1 DEF Important, report
  <2>4. QED
    BY <2>1, <2>2, <2>3 DEF Messages, report
<1>4. CASE Rewiring
  <2>1. /\ UNCHANGED <<report, atexit>> /\ pc \notin {"prepare", "func"} \cup Ending
        /\ pc' \notin {"prepare", "func"} \cup Ending
    BY <1>4 DEF Rewiring, Attach, Detach, Retarget, Flush, CloseTemp, SetHook, Rewire, Continue,
       Ending
  <2>2. Important' = Important
    BY <1>1, <2>1 DEF Important, report
  <2>3. QED
    BY <2>1, <2>2 DEF Messages, Pending, report
<1>5. CASE Work
  <2>1. /\ UNCHANGED <<atexit, printed, pc>> /\ pc = "func"
        /\ \/ UNCHANGED <<messages, added>>
           \/ \E m \in [high : BOOLEAN, crash : BOOLEAN] :
                messages' = messages \cup {m} /\ added' = added \cup {m}
    BY <1>5 DEF Work
  <2>2. Pending("print") /\ messages = added
    BY <2>1 DEF Messages
  <2>3. Pending("print")' /\ messages' = added'
    BY <2>1, <2>2 DEF Pending
  <2>4. QED
    BY <2>1, <2>3 DEF Messages, Ending
<1>6. CASE PrintMessages
  <2>1. /\ UNCHANGED <<added, pc>> /\ Call("print") /\ pc = "exit"
        /\ printed' = printed \cup {m \in messages : quiet => m.high /\ m.crash}
    BY <1>6 DEF PrintMessages, Call
  <2>2. Important' = Important
    BY <1>1, <2>1 DEF Important
  <2>3. Important \subseteq printed'
    BY <2>1 DEF Messages, Important
  <2>4. QED
    BY <2>1, <2>2, <2>3 DEF Messages, Ending
<1>7. CASE ReleaseLocks \/ Shutdown
  <2>1. /\ UNCHANGED <<report, pc>> /\ pc = "exit" /\ \E f \in Calls \ {"print"} : Call(f)
    BY <1>7 DEF ReleaseLocks, Shutdown, Call, Calls
  <2>2. Pending("print")' <=> Pending("print")
    BY <2>1, Calling DEF Calls
  <2>3. Important' = Important
    BY <1>1, <2>1 DEF Important, report
  <2>4. QED
    BY <2>1, <2>2, <2>3 DEF Messages, Ending, report
<1>8. CASE ExceptHook \/ End \/ Kill
  <2>1. UNCHANGED <<report, atexit>> /\ pc' \in Ending
    BY <1>8 DEF ExceptHook, End, Kill, Ending
  <2>2. Important' = Important
    BY <1>1, <2>1 DEF Important, report
  <2>3. QED
    BY <2>1, <2>2 DEF Messages, Pending, Ending, report
<1>9. CASE Elsewhere
  <2>1. UNCHANGED <<report, atexit, pc>>
    BY <1>9 DEF Elsewhere
  <2>2. Important' = Important
    BY <1>1, <2>1 DEF Important, report
  <2>3. QED
    BY <2>1, <2>2 DEF Messages, Pending, report
<1>10. QED
  BY <1>2, <1>3, <1>4, <1>5, <1>6, <1>7, <1>8, <1>9, Steps

\* A command but `plugins` goes on only with what it has locked; the first lock,
\* or the first attempt, registers the release.
LEMMA PlainLocks ==
  ASSUME verb # "plugins", Types, Owned, SetUp, Plain
  PROVE  /\ \/ UNCHANGED dirs /\ atexit' \in {atexit, Append(atexit, "print")}
            \/ /\ UNCHANGED dirs /\ locks = {} /\ pc' = "hook"
               /\ atexit' = Append(atexit, "release")
            \/ \E d \in Dirs : Lock(d) /\ atexit' = FirstLock /\ pc' \notin Ending
         /\ SetUp'
<1>1. CASE Parse \/ OpenLog \/ HookDirs \/ Finish \/ Interrupt \/ MakeReporter
  <2>1. UNCHANGED <<dirs, verb>> /\ atexit' \in {atexit, Append(atexit, "print")}
    BY <1>1 DEF Parse, OpenLog, HookDirs, Finish, Interrupt, MakeReporter, RegisterPrint
  <2>2. /\ pc' = "attach" => pc = "open"
        /\ pc' = "report" => pc = "hook dirs"
        /\ pc' = "prepare" => pc = "report"
        /\ pc' \in {"attach", "report", "prepare", "logs"} \cup Ending
    BY <1>1 DEF Parse, OpenLog, HookDirs, Finish, Interrupt, MakeReporter, SetUpFails, Tolerated,
       Continue, Leave, Ending
  <2>3. SetUp'
    BY <2>1, <2>2 DEF SetUp, dirs, Ending
  <2>4. QED
    BY <2>1, <2>3
<1>2. CASE Prepare
  <2>1. UNCHANGED verb /\ pc = "prepare" /\ pc' \in {"func", "hook"} /\ CoreDirs \subseteq locks
    BY <1>2 DEF Prepare, SetUp, Continue, Leave
  <2>2. FirstLock = atexit
    BY <2>1 DEF FirstLock, CoreDirs
  <2>3. \/ Lock("server") /\ atexit' = FirstLock /\ pc' \notin Ending
        \/ UNCHANGED dirs /\ atexit' = atexit
    BY <1>2, <2>2 DEF Prepare, Registered, Continue, Ending
  <2>4. locks \subseteq locks'
    BY <2>3 DEF Lock, dirs
  <2>5. SetUp'
    BY <2>1, <2>4 DEF SetUp
  <2>6. QED
    BY <2>3, <2>5 DEF Dirs
<1>3. ASSUME NEW d \in {"logs", "config", "work"}, NEW next, SetUpCoreDir(d, next),
             <<d, next>> \in {<<"logs", "open">>, <<"config", "work">>, <<"work", "hook dirs">>}
      PROVE  /\ \/ UNCHANGED dirs /\ atexit' = atexit
                \/ /\ UNCHANGED dirs /\ locks = {} /\ pc' = "hook"
                   /\ atexit' = Append(atexit, "release")
                \/ Lock(d) /\ atexit' = FirstLock /\ pc' \notin Ending
             /\ SetUp'
  <2>1. UNCHANGED verb /\ pc = d
    BY <1>3 DEF SetUpCoreDir
  <2>2. next \notin Ending
    BY <1>3 DEF Ending
  <2>3. CASE Lock(d) /\ atexit' = FirstLock /\ pc' = next
    <3>1. locks' = locks \cup {d}
      BY <2>3 DEF Lock
    <3>2. SetUp'
      BY <1>3, <2>1, <2>3, <3>1 DEF SetUp, CoreDirs
    <3>3. QED
      BY <2>2, <2>3, <3>2
  <2>4. CASE UNCHANGED dirs /\ atexit' \in {atexit, FirstLock} /\ pc' = "hook"
    BY <2>1, <2>4 DEF SetUp, FirstLock
  <2>5. QED
    BY <1>3, <2>3, <2>4 DEF SetUpCoreDir, SetUpFails, Tolerated, Registered, Continue, Leave, dirs
<1>4. QED
  BY <1>1, <1>2, <1>3 DEF Plain, Dirs

\* The directories: FirstLock registers the one release.
LEMMA LocksStep ==
  ASSUME Types, Owned, SetUp, Next
  PROVE  Owned' /\ SetUp'
<1>1. UNCHANGED verb
  <2>1. CASE Plain
    BY <2>1, PlainSteps
  <2>2. CASE ~ Plain
    BY <2>2, Steps DEF Rewiring, Attach, Detach, Retarget, Flush, CloseTemp, SetHook, Rewire, Work,
       ExceptHook, PrintMessages, ReleaseLocks, Shutdown, End, Kill, Elsewhere
  <2>3. QED
    BY <2>1, <2>2
<1>2. SUFFICES ASSUME verb # "plugins"
               PROVE  Owned' /\ SetUp'
  BY <1>1 DEF Owned, SetUp
<1>3. /\ \A d \in Dirs : holders[d] = IF path[d] \in Free THEN {} ELSE {path[d]}
      /\ \A d \in Dirs : path[d] = Me <=> (d \in locks /\ Pending("release") /\ pc # "gone")
      /\ Once
      /\ pc \notin Ending => (Pending("release") <=> locks # {})
  BY <1>2 DEF Owned
<1>4. Me \notin Free /\ locks \subseteq Dirs
  BY DEF Me, Free, Types
<1>5. CASE Plain
  <2>1. pc \notin Ending /\ pc' # "gone"
    BY <1>5, PlainSteps DEF Ending
  <2>2. SetUp'
    BY <1>2, <1>5, PlainLocks
  <2>3. CASE UNCHANGED dirs /\ atexit' \in {atexit, Append(atexit, "print")}
    <3>1. (Pending("release")' <=> Pending("release")) /\ Once'
      BY <1>3, <2>3, Registers DEF Calls, Pending, Once
    <3>2. QED
      BY <1>3, <2>1, <2>2, <2>3, <3>1 DEF Owned, dirs, Ending
  <2>4. CASE UNCHANGED dirs /\ locks = {} /\ pc' = "hook" /\ atexit' = Append(atexit, "release")
    <3>1. ~ Pending("release")
      BY <1>3, <2>1, <2>4
    <3>2. Once' /\ Pending("release")'
      BY <2>4, <3>1, Registers DEF Calls
    <3>3. QED
      BY <1>3, <2>1, <2>2, <2>4, <3>1, <3>2 DEF Owned, dirs, Ending
  <2>5. ASSUME NEW d \in Dirs, Lock(d), atexit' = FirstLock, pc' \notin Ending
        PROVE  Owned'
    <3>1. Pending("release")' /\ Once'
      <4>1. CASE locks = {}
        <5>1. ~ Pending("release") /\ atexit' = Append(atexit, "release")
          BY <1>3, <2>1, <2>5, <4>1 DEF FirstLock
        <5>2. QED
          BY <5>1, Registers DEF Calls
      <4>2. CASE locks # {}
        BY <1>3, <2>1, <2>5, <4>2 DEF FirstLock, Pending, Once
      <4>3. QED
        BY <4>1, <4>2
    <3>2. \A e \in Dirs : path[e] = Me <=> e \in locks
      BY <1>3, <2>1 DEF Ending, Pending
    <3>3. /\ locks' = locks \cup {d} /\ path' = [path EXCEPT ![d] = Me]
          /\ holders' = [holders EXCEPT ![d] = @ \cup {Me}] /\ holders[d] = {}
      BY <1>3, <2>5 DEF Lock
    <3>4. /\ path'[d] = Me /\ holders'[d] = {Me}
          /\ \A e \in Dirs \ {d} : path'[e] = path[e] /\ holders'[e] = holders[e]
      BY <3>3 DEF Types
    <3>5. \A e \in Dirs : holders'[e] = IF path'[e] \in Free THEN {} ELSE {path'[e]}
      BY <1>3, <1>4, <3>4
    <3>6. \A e \in Dirs : path'[e] = Me <=> e \in locks'
      BY <3>2, <3>3, <3>4
    <3>7. QED
      BY <2>1, <3>1, <3>3, <3>5, <3>6 DEF Owned
  <2>6. QED
    BY <1>2, <1>5, <2>2, <2>3, <2>4, <2>5, PlainLocks
<1>6. CASE Rewiring \/ Work \/ ExceptHook
  <2>1. /\ UNCHANGED <<dirs, atexit>> /\ pc # "gone" /\ pc' # "gone"
        /\ pc \in Ending => pc' \in Ending
    BY <1>6 DEF Rewiring, Attach, Detach, Retarget, Flush, CloseTemp, SetHook, Rewire, Work,
       ExceptHook, Continue, Ending
  <2>2. Owned'
    BY <1>3, <2>1 DEF Owned, Pending, Once, dirs
  <2>3. SetUp'
    BY <1>6, <2>1 DEF SetUp, dirs, Rewiring, Attach, Detach, Retarget, Flush, CloseTemp, SetHook,
       Rewire, Work, ExceptHook, Continue
  <2>4. QED
    BY <2>2, <2>3
<1>7. CASE PrintMessages \/ Shutdown
  <2>1. UNCHANGED <<dirs, pc>> /\ pc = "exit" /\ \E f \in Calls \ {"release"} : Call(f)
    BY <1>7 DEF PrintMessages, Shutdown, Call, Calls
  <2>2. (Pending("release")' <=> Pending("release")) /\ Once'
    BY <1>3, <2>1, Calling DEF Calls
  <2>3. QED
    BY <1>3, <2>1, <2>2 DEF Owned, SetUp, dirs, Ending
<1>8. CASE End
  <2>1. UNCHANGED <<dirs, atexit>> /\ pc = "exit" /\ pc' = "gone" /\ atexit = <<>>
    BY <1>8 DEF End
  <2>2. ~ Pending("release") /\ ~ Pending("release")' /\ Once'
    BY <2>1 DEF Pending, Once
  <2>3. Owned'
    BY <1>3, <2>1, <2>2 DEF Owned, dirs, Ending
  <2>4. SetUp'
    BY <2>1 DEF SetUp
  <2>5. QED
    BY <2>3, <2>4
<1>9. CASE ReleaseLocks
  <2>1. /\ Call("release") /\ UNCHANGED <<locks, pc>>
        /\ path' = [d \in Dirs |-> IF d \in locks THEN "none" ELSE path[d]]
        /\ holders' = [d \in Dirs |-> holders[d] \ {Me}]
    BY <1>9 DEF ReleaseLocks
  <2>2. Pending("release") /\ ~ Pending("release")' /\ Once' /\ pc = "exit"
    BY <1>3, <2>1, Calling DEF Calls
  <2>3. \A d \in Dirs : path[d] = Me <=> d \in locks
    BY <1>3, <2>2
  <2>4. \A d \in Dirs : path'[d] # Me /\ holders'[d] = IF path'[d] \in Free THEN {} ELSE {path'[d]}
    BY <1>3, <1>4, <2>1, <2>3 DEF Free, Me
  <2>5. QED
    BY <2>1, <2>2, <2>4 DEF Owned, SetUp, Ending
<1>10. CASE Kill
  <2>1. /\ UNCHANGED <<locks, atexit>> /\ pc' = "gone"
        /\ path' = [d \in Dirs |-> IF path[d] = Me THEN "stale" ELSE path[d]]
        /\ holders' = [d \in Dirs |-> holders[d] \ {Me}]
    BY <1>10 DEF Kill
  <2>2. \A d \in Dirs : path'[d] # Me /\ holders'[d] = IF path'[d] \in Free THEN {} ELSE {path'[d]}
    BY <1>3, <1>4, <2>1 DEF Free, Me
  <2>3. QED
    BY <1>3, <2>1, <2>2 DEF Owned, SetUp, Ending, Once
<1>11. CASE Elsewhere
  <2>1. UNCHANGED <<locks, atexit, pc>>
    BY <1>11 DEF Elsewhere
  <2>2. PICK o \in Others, d \in Contended : OtherLocks(o, d) \/ OtherReleases(o, d)
    BY <1>11 DEF Elsewhere
  <2>3. o # Me /\ o \notin Free /\ d \in Dirs
    BY OthersAssumption
  <2>4. /\ path'[d] # Me /\ path[d] # Me
        /\ holders'[d] = IF path'[d] \in Free THEN {} ELSE {path'[d]}
        /\ \A e \in Dirs \ {d} : path'[e] = path[e] /\ holders'[e] = holders[e]
    <3>1. CASE OtherLocks(o, d)
      BY <1>3, <1>4, <2>3, <3>1 DEF OtherLocks, Types
    <3>2. CASE OtherReleases(o, d)
      <4>1. path[d] = o /\ holders[d] = {o}
        BY <1>3, <2>3, <3>2 DEF OtherReleases
      <4>2. QED
        BY <2>3, <3>2, <4>1 DEF OtherReleases, Types, Free, Me
    <3>3. QED
      BY <2>2, <3>1, <3>2
  <2>5. \A e \in Dirs : (path'[e] = Me <=> path[e] = Me)
                        /\ holders'[e] = IF path'[e] \in Free THEN {} ELSE {path'[e]}
    BY <1>3, <2>4
  <2>6. (Pending("release")' <=> Pending("release")) /\ Once'
    BY <1>3, <2>1 DEF Pending, Once
  <2>7. Owned'
    BY <1>3, <2>1, <2>5, <2>6 DEF Owned
  <2>8. SetUp'
    BY <1>1, <2>1 DEF SetUp
  <2>9. QED
    BY <2>7, <2>8
<1>12. QED
  BY <1>5, <1>6, <1>7, <1>8, <1>9, <1>10, <1>11, Steps

LEMMA InitInv == Init => IInv
<1> SUFFICES ASSUME Init PROVE IInv
  OBVIOUS
<1>1. /\ Len(atexit) = 1 /\ atexit[1] = "shutdown" /\ atexit # <<>> /\ atexit \in Seq(Calls)
  <2>1. atexit = <<"shutdown">> /\ "shutdown" \in Calls
    BY DEF Init, Calls
  <2>2. QED
    BY <2>1
<1>2. Types
  BY <1>1 DEF Init, Types, Owners, Free, Causes
<1>3. Records /\ Ended /\ ShutDown
  BY <1>1 DEF Init, Records, Ended, ShutDown, Ending
<1>4. Messages
  BY DEF Init, Messages, Ending, Important
<1>5. ~ Pending("release") /\ Once
  BY <1>1 DEF Pending, Once
<1>6. Owned /\ SetUp
  BY <1>5 DEF Init, Owned, SetUp, Free, Me, Ending
<1>7. QED
  BY <1>2, <1>3, <1>4, <1>6 DEF IInv

LEMMA StepInv ==
  ASSUME IInv, [Next]_vars
  PROVE  IInv'
<1>1. CASE Next
  <2>1. LogInv'
    BY <1>1, Steps, LogPlain, LogRewiring, LogWork, LogExceptHook, LogExit, LogElsewhere
       DEF IInv, LogInv
  <2>2. QED
    BY <1>1, <2>1, TypeStep, MessagesStep, LocksStep DEF IInv, LogInv
<1>2. CASE UNCHANGED vars
  <2>1. UNCHANGED <<verb, quiet, log, wiring, atexit, dirs, report, cause, pc>>
    BY <1>2 DEF vars
  <2>2. Types'
    BY <2>1 DEF IInv, Types, wiring, dirs
  <2>3. Records' /\ Ended' /\ ShutDown'
    BY <2>1 DEF IInv, Records, Ended, ShutDown, wiring, log
  <2>4. Messages'
    BY <2>1 DEF IInv, Messages, Pending, Important, report
  <2>5. Owned' /\ SetUp'
    BY <2>1 DEF IInv, Owned, SetUp, Pending, Once, dirs
  <2>6. QED
    BY <2>2, <2>3, <2>4, <2>5 DEF IInv
<1>3. QED
  BY <1>1, <1>2

-----------------------------------------------------------------------------
(***************************************************************************)
(* The theorems.                                                           *)
(***************************************************************************)

LEMMA SessionInvariant == Spec => []IInv
BY InitInv, StepInv, PTL DEF Spec

\* Wherever an exception ends the process, while the log is set up or after, its
\* records are in a file that is left; an unused temporary file goes; and the
\* messages for the user are printed (log.py, reporter.py, main.main), unless what runs
\* at exit is interrupted itself.
THEOREM NothingIsLost == Spec => [](NothingLost /\ (temp # {} => there))
<1>1. IInv => RecordsKept /\ (temp # {} => there)
  BY DEF IInv, Records, Ended, RecordsKept
<1>2. IInv => NoLitter
  BY DEF IInv, Ended, ShutDown, NoLitter
<1>3. IInv => Reported
  <2> SUFFICES ASSUME IInv, pc = "gone", cause # "killed"
               PROVE  Important \subseteq printed
    BY DEF Reported, Important
  <2>1. atexit = <<>>
    BY DEF IInv, ShutDown
  <2>2. ~ Pending("print")
    BY <2>1 DEF Pending
  <2>3. QED
    BY <2>2 DEF IInv, Messages
<1>4. QED
  BY <1>1, <1>2, <1>3, SessionInvariant, PTL DEF NothingLost

\* No two invocations have one directory, and a command works only while it
\* alone has its own (lock.py, util.set_up_core_dir, _release_locks); `plugins`,
\* which goes on without them, aside.
THEOREM DirectoriesAreExclusive == Spec => []Exclusive
<1>1. IInv => OneHolder
  <2> SUFFICES ASSUME IInv, verb # "plugins", NEW d \in Dirs
               PROVE  Cardinality(holders[d]) <= 1
    BY DEF OneHolder
  <2>1. holders[d] = {} \/ \E o : holders[d] = {o}
    BY DEF IInv, Owned
  <2>2. CASE holders[d] = {}
    BY <2>2, FS_EmptySet
  <2>3. CASE \E o : holders[d] = {o}
    <3>1. Cardinality(holders[d]) = 1
      BY <2>3, FS_Singleton, Zenon
    <3>2. QED
      BY <3>1
  <2>4. QED
    BY <2>1, <2>2, <2>3
<1>2. IInv => WorksAlone
  <2> SUFFICES ASSUME IInv, pc = "func", verb # "plugins", NEW d \in CoreDirs
               PROVE  path[d] = Me /\ holders[d] = {Me}
    BY DEF WorksAlone
  <2>1. d \in Dirs /\ d \in locks
    BY DEF IInv, SetUp, CoreDirs, Dirs
  <2>2. Pending("release")
    BY <2>1 DEF IInv, Owned, Ending
  <2>3. path[d] = Me
    BY <2>1, <2>2 DEF IInv, Owned
  <2>4. QED
    BY <2>1, <2>3 DEF IInv, Owned, Me, Free
<1>3. QED
  BY <1>1, <1>2, SessionInvariant, PTL DEF Exclusive

-----------------------------------------------------------------------------
(***************************************************************************)
(* The names of checkpoints, for any number of them and any jumps of the   *)
(* clock.                                                                  *)
(***************************************************************************)

\* In the order of their finalization the names ascend.
Ascending ==
  part = "checkpoints" =>
    /\ backups \in Seq(N!Name)
    /\ \A i, j \in 1..Len(backups) : i < j => backups[i] < backups[j]
    /\ newest = TRUE

\* The greatest name sorts last.
LEMMA GreatestLast ==
  ASSUME NEW S \in SUBSET Nat, \A a \in S : a < Wrap,
         NEW x \in S, \A a \in S : a <= x
  PROVE  N!SortsLast(S) = x
<1> USE TimeAssumption
<1>1. \A a \in S, b \in S : N!SortsBefore(a, b) <=> a < b
  BY DEF N!SortsBefore
<1>2. \A b \in S \ {x} : N!SortsBefore(b, x)
  BY <1>1
<1>3. ASSUME NEW y \in S, \A b \in S \ {y} : N!SortsBefore(b, y)
      PROVE  y = x
  BY <1>1, <1>3
<1>4. QED
  BY <1>2, <1>3 DEF N!SortsLast

\* A new name is above all that exist.
LEMMA TimestampAbove ==
  ASSUME OneLength, part = "checkpoints", Ascending, NEW now \in 0..MaxTime
  PROVE  /\ N!Timestamp(now, N!ToSet(backups)) \in Nat
         /\ \A i \in 1..Len(backups) :
              backups[i] < N!Timestamp(now, N!ToSet(backups))
<1> DEFINE taken == N!ToSet(backups)
           t == N!Timestamp(now, taken)
           last == N!SortsLast(taken \cup {now})
<1> USE TimeAssumption DEF OneLength
<1>1. /\ backups \in Seq(N!Name) /\ Len(backups) \in Nat
      /\ \A i \in 1..Len(backups) : backups[i] \in Nat /\ backups[i] < Wrap
      /\ \A i, j \in 1..Len(backups) : i < j => backups[i] < backups[j]
  BY DEF Ascending, N!Name
<1>2. taken = {backups[i] : i \in 1..Len(backups)}
  BY <1>1 DEF N!ToSet
<1>3. now \in Nat /\ now < Wrap /\ Second \in Nat \ {0}
  OBVIOUS
<1>4. t = IF last # now THEN last + Second ELSE IF now \in taken THEN now + 1 ELSE now
  BY DEF N!Timestamp
<1> HIDE DEF taken, t
<1>5. PICK m \in taken \cup {now} : \A a \in taken \cup {now} : a <= m
  <2>1. CASE Len(backups) = 0
    BY <1>2, <1>3, <2>1
  <2>2. CASE Len(backups) # 0
    <3> DEFINE top == backups[Len(backups)]
    <3>1. top \in taken /\ top \in Nat /\ \A a \in taken : a \in Nat /\ a <= top
      BY <1>1, <1>2, <2>2
    <3>2. QED
      BY <1>3, <3>1
  <2>3. QED
    BY <2>1, <2>2
<1>6. \A a \in taken \cup {now} : a \in Nat /\ a < Wrap
  BY <1>1, <1>2, <1>3
<1>7. last = m
  BY <1>5, <1>6, GreatestLast
<1>8. t \in Nat /\ \A a \in taken : a < t
  <2>1. m \in Nat /\ \A a \in taken : a \in Nat /\ a <= m
    BY <1>5, <1>6
  <2>2. CASE m # now
    BY <1>3, <1>4, <1>7, <2>1, <2>2
  <2>3. CASE m = now /\ now \in taken
    BY <1>3, <1>4, <1>7, <2>1, <2>3
  <2>4. CASE m = now /\ now \notin taken
    <3>1. t = now
      BY <1>4, <1>7, <2>4
    <3>2. QED
      BY <2>1, <2>4, <3>1
  <2>5. QED
    BY <2>2, <2>3, <2>4
<1>9. \A i \in 1..Len(backups) : backups[i] \in taken
  BY <1>2
<1>10. t \in Nat /\ \A i \in 1..Len(backups) : backups[i] < t
  BY <1>8, <1>9
<1>11. QED
  BY <1>10 DEF t, taken

LEMMA FinalizeAscends ==
  ASSUME OneLength, part = "checkpoints", Ascending, NEW now \in 0..MaxTime, N!Finalize(now),
         UNCHANGED part
  PROVE  Ascending'
<1> DEFINE t == N!Timestamp(now, N!ToSet(backups))
<1>1. /\ t <= MaxName /\ backups' = Append(backups, t) /\ newest' = newest
  BY DEF N!Finalize
<1>2. t \in Nat /\ \A i \in 1..Len(backups) : backups[i] < t
  BY TimestampAbove
<1> HIDE DEF t
<1>3. t \in N!Name /\ backups \in Seq(N!Name)
  BY <1>1, <1>2, TimeAssumption DEF N!Name, Ascending
<1>4. /\ backups' \in Seq(N!Name)
      /\ Len(backups') = Len(backups) + 1
      /\ \A i \in 1..Len(backups) : backups'[i] = backups[i]
      /\ backups'[Len(backups) + 1] = t
  BY <1>1, <1>3, AppendProperties
<1>5. ASSUME NEW i \in 1..Len(backups'), NEW j \in 1..Len(backups'), i < j
      PROVE  backups'[i] < backups'[j]
  <2>1. Len(backups) \in Nat /\ i \in 1..Len(backups)
    BY <1>3, <1>4, <1>5
  <2>2. CASE j \in 1..Len(backups)
    BY <1>4, <1>5, <2>1, <2>2 DEF Ascending
  <2>3. CASE j = Len(backups) + 1
    BY <1>2, <1>4, <2>1, <2>3
  <2>4. QED
    BY <1>4, <2>1, <2>2, <2>3
<1>6. QED
  BY <1>1, <1>4, <1>5 DEF Ascending

LEMMA RollbackAscends ==
  ASSUME OneLength, part = "checkpoints", Ascending, N!Rollback, UNCHANGED part
  PROVE  Ascending'
<1> DEFINE n == Len(backups)
<1> USE TimeAssumption DEF OneLength
<1>1. /\ backups \in Seq(N!Name) /\ n \in Nat \ {0}
      /\ \A i \in 1..n : backups[i] \in Nat /\ backups[i] < Wrap
      /\ \A i, j \in 1..n : i < j => backups[i] < backups[j]
  <2>1. backups # <<>> /\ backups \in Seq(N!Name)
    BY DEF N!Rollback, Ascending
  <2>2. n \in Nat \ {0}
    BY <2>1
  <2>3. QED
    BY <2>1, <2>2 DEF N!Name, Ascending
<1>2. N!ToSet(backups) = {backups[i] : i \in 1..n}
  BY <1>1 DEF N!ToSet
<1>3. N!SortsLast(N!ToSet(backups)) = backups[n]
  <2> DEFINE S == N!ToSet(backups)
  <2>1. /\ S \in SUBSET Nat /\ \A a \in S : a < Wrap
        /\ backups[n] \in S
    BY <1>1, <1>2
  <2>2. \A a \in S : a <= backups[n]
    <3>1. ASSUME NEW i \in 1..n
          PROVE  backups[i] <= backups[n]
      BY <1>1
    <3>2. QED
      BY <1>2, <3>1
  <2> HIDE DEF S
  <2>3. N!SortsLast(S) = backups[n]
    BY <2>1, <2>2, GreatestLast
  <2>4. QED
    BY <2>3 DEF S
<1>4. newest' = TRUE
  BY <1>3 DEF N!Rollback, N!Last
<1>5. PICK k \in 1..n : backups[k] = backups[n] /\ backups' = N!RemoveAt(backups, k)
  BY <1>1, <1>3 DEF N!Rollback
<1>6. k = n
  BY <1>1, <1>5
<1>7. /\ backups' \in Seq(N!Name) /\ Len(backups') = n - 1
      /\ \A i \in 1..n - 1 : backups'[i] = backups[i]
  BY <1>1, <1>5, <1>6 DEF N!RemoveAt
<1>8. \A i, j \in 1..Len(backups') : i < j => backups'[i] < backups'[j]
  <2>1. \A i \in 1..Len(backups') : i \in 1..n - 1 /\ i \in 1..n
    BY <1>1, <1>7
  <2>2. QED
    BY <1>1, <1>7, <2>1
<1>9. QED
  BY <1>4, <1>7, <1>8 DEF Ascending

\* However the clock jumps, a rollback takes the checkpoint finalized last and
\* a finalization finds a free name, as long as all names are of one length.
THEOREM NamesAscend ==
  ASSUME OneLength
  PROVE  MCSpec => []NamesInOrder
<1>1. MCInit => Ascending
  <2> SUFFICES ASSUME MCInit, part = "checkpoints"
               PROVE  Ascending
    BY DEF Ascending
  <2>1. backups = <<>> /\ newest = TRUE
    BY DEF MCInit, N!Init
  <2>2. QED
    BY <2>1 DEF Ascending
<1>2. Ascending /\ [MCNext]_mcVars => Ascending'
  <2> SUFFICES ASSUME Ascending, [MCNext]_mcVars
               PROVE  Ascending'
    OBVIOUS
  <2>1. CASE NNext
    <3>1. part = "checkpoints" /\ UNCHANGED part /\ N!Next
      BY <2>1 DEF NNext
    <3>2. QED
      BY <3>1, FinalizeAscends, RollbackAscends DEF N!Next
  <2>2. CASE RNext \/ CNext \/ ONext \/ SNext \/ UNCHANGED mcVars
    <3>1. UNCHANGED <<part, nVars>>
      BY <2>2 DEF RNext, CNext, ONext, SNext, mcVars
    <3>2. QED
      BY <3>1 DEF nVars, Ascending
  <2>3. QED
    BY <2>1, <2>2 DEF MCNext
<1>3. Ascending => NamesInOrder
  <2> SUFFICES ASSUME Ascending, part = "checkpoints"
               PROVE  N!RollbackTakesNewest /\ N!NameIsFree
    BY DEF NamesInOrder
  <2>1. N!RollbackTakesNewest
    BY DEF Ascending, N!RollbackTakesNewest
  <2>2. ASSUME NEW now \in 0..MaxTime
        PROVE  N!Timestamp(now, N!ToSet(backups)) \notin N!ToSet(backups)
    <3>1. N!ToSet(backups) = {backups[i] : i \in 1..Len(backups)}
      BY DEF Ascending, N!ToSet
    <3>2. \A i \in 1..Len(backups) : backups[i] \in Nat
      BY TimeAssumption DEF Ascending, N!Name
    <3>3. \A i \in 1..Len(backups) :
            backups[i] < N!Timestamp(now, N!ToSet(backups))
      BY TimestampAbove
    <3>4. \A a \in N!ToSet(backups) :
            a \in Nat /\ a < N!Timestamp(now, N!ToSet(backups))
      BY <3>1, <3>2, <3>3
    <3>5. QED
      BY <3>4
  <2>3. QED
    BY <2>1, <2>2 DEF N!NameIsFree
<1>4. QED
  BY <1>1, <1>2, <1>3, PTL DEF MCSpec

-----------------------------------------------------------------------------
(***************************************************************************)
(* Renewals, for any lineages, parameters and command lines.               *)
(***************************************************************************)

Hook == STRING \cup {"none", "P", "Q", "R"}
Parameters == [pre : Hook, post : Hook, renew : Hook, srv : {"prod", "test"}, inst : BOOLEAN]
Events == ({"pre", "post"} \X Hook) \cup ({"deploy"} \X R!Names \X Hook)
Trying == {"plugins", "pre", "obtain"}
Treating == Trying \cup {"saved", "deploy", "post", "reload"}
Distinct(s) == \A i, j \in DOMAIN s : s[i] = s[j] => i = j

RenTypes ==
  /\ conf \in [R!Names -> Parameters]
  /\ archive \in [R!Names -> Seq({"prod", "test"})]
  /\ live \in [R!Names -> Nat] /\ served \in [R!Names -> Nat]
  /\ opts \in Renewals /\ queue \in Seq(R!Names) /\ Distinct(queue)
  /\ hooksLeft \in Seq(Hook) /\ eventually \in Seq(Hook) /\ Distinct(eventually)
  /\ already \subseteq Hook /\ owed \subseteq Hook
  /\ ran \in Seq(Events) /\ Distinct(ran)
  /\ outcome \in [R!Names -> {"none", "success", "failure", "skipped", "parse"}]
  /\ failing \in BOOLEAN /\ aborted \in R!Stops
  /\ rpc \in Treating \cup {"next", "saved hooks", "exit"}
  /\ rpc \in Treating => queue # <<>> /\ eff \in Parameters

\* The parameters in use are the file's and those given; those of a new version
\* are the file's.
InUse ==
  /\ rpc \in Trying =>
       /\ eff.pre \in {conf[R!cur].pre, opts.pre} /\ eff.post = conf[R!cur].post
       /\ eff.renew \in {conf[R!cur].renew, opts.renew}
       /\ eff.srv # conf[R!cur].srv => opts.staging \/ opts.dry
  /\ rpc \in Treating \ Trying /\ ~ failing /\ ~ opts.dry => conf[R!cur] = eff
  /\ rpc \in Treating \ {"saved"} /\ aborted = "no" => live[R!cur] = Len(archive[R!cur])
  /\ rpc \in (Treating \cup {"next"}) \ {"post"} => ~ failing

\* The files in the queue are those that are still to be treated.
Treated ==
  /\ \A l \in R!Names : outcome[l] = "none" /\ opts.name \in {"all", l} => l \in R!ToSet(queue)
  /\ \A l \in R!ToSet(queue) : outcome[l] = "none"
  /\ \A l \in R!Names :
       /\ outcome[l] = "success" =>
            /\ live[l] = Len(archive[l])
            /\ conf[l].inst /\ ~ opts.dry => served[l] = live[l]
       /\ outcome[l] = "skipped" => l \notin due
  /\ aborted # "no" => rpc \in {"post", "saved hooks", "exit"}
  /\ aborted # "no" /\ rpc = "post" => aborted = "interrupted" /\ failing
  /\ rpc \in {"saved hooks", "exit"} /\ aborted = "no" => queue = <<>>

\* Pre-hooks: what was run is remembered.
PreRun ==
  /\ \A h \in already : <<"pre", h>> \in R!ToSet(ran)
  /\ \A e \in R!ToSet(ran) : e[1] = "pre" => e[2] \in already
  /\ rpc = "pre" =>
       R!ToSet(R!With(R!PreDir, eff.pre)) \subseteq already \cup R!ToSet(hooksLeft)
  /\ rpc = "obtain" => R!ToSet(R!With(R!PreDir, eff.pre)) \subseteq already

\* Deploy hooks: for the certificates of this command, and none twice.
DeployRun ==
  /\ \A e \in R!ToSet(ran) : e[1] = "deploy" =>
       /\ ~ opts.dry
       /\ e[2] \in R!ToSet(queue) =>
            rpc \in {"deploy", "post", "reload", "saved hooks", "exit"} /\ e[2] = R!cur
  /\ rpc \in {"saved", "deploy"} => Distinct(hooksLeft)
  /\ rpc = "deploy" =>
       \A h \in R!ToSet(hooksLeft) : <<"deploy", R!cur, h>> \notin R!ToSet(ran)
  /\ opts.dry => rpc # "saved" /\ (rpc = "deploy" => hooksLeft = <<>>)

\* Post-hooks: what is owed was run, is saved up, or is about to be.
PostRun ==
  /\ \A e \in R!ToSet(ran) : e[1] = "post" =>
       rpc \in {"saved hooks", "exit"} /\ e[2] \notin R!ToSet(eventually)
  /\ aborted \in {"no", "interrupted"} => \A h \in owed :
       \/ h \in R!ToSet(eventually) \/ <<"post", h>> \in R!ToSet(ran)
       \/ /\ rpc \in {"obtain", "saved", "deploy", "post"}
          /\ h \in R!ToSet(R!With(R!PostDir, eff.post))
  /\ rpc = "exit" /\ aborted \in {"no", "interrupted"} => eventually = <<>>

Ren == RenTypes /\ InUse /\ Treated /\ PreRun /\ DeployRun /\ PostRun
RenInv == part = "renewal" => Ren

-----------------------------------------------------------------------------
(* Of lists of hooks and of files. *)

LEMMA TailLess ==
  ASSUME NEW S, NEW s \in Seq(S), s # <<>>
  PROVE  /\ Head(s) \in S /\ Tail(s) \in Seq(S)
         /\ R!ToSet(s) = {Head(s)} \cup R!ToSet(Tail(s))
         /\ Distinct(s) => Distinct(Tail(s)) /\ Head(s) \notin R!ToSet(Tail(s))
<1>1. /\ Len(s) \in Nat \ {0} /\ Head(s) = s[1] /\ Head(s) \in S
      /\ Tail(s) \in Seq(S) /\ Len(Tail(s)) = Len(s) - 1
      /\ DOMAIN s = 1..Len(s) /\ DOMAIN Tail(s) = 1..(Len(s) - 1)
      /\ \A i \in 1..(Len(s) - 1) : Tail(s)[i] = s[i + 1]
  OBVIOUS
<1>2. R!ToSet(s) \subseteq {Head(s)} \cup R!ToSet(Tail(s))
  <2> SUFFICES ASSUME NEW i \in 1..Len(s), i # 1
               PROVE  s[i] \in R!ToSet(Tail(s))
    BY <1>1 DEF R!ToSet
  <2>1. i - 1 \in 1..(Len(s) - 1) /\ (i - 1) + 1 = i
    BY <1>1
  <2>2. QED
    BY <1>1, <2>1 DEF R!ToSet
<1>3. {Head(s)} \cup R!ToSet(Tail(s)) \subseteq R!ToSet(s)
  <2>1. 1 \in DOMAIN s /\ \A i \in 1..(Len(s) - 1) : i + 1 \in DOMAIN s
    BY <1>1
  <2>2. QED
    BY <1>1, <2>1 DEF R!ToSet
<1>4. ASSUME Distinct(s)
      PROVE  Distinct(Tail(s)) /\ Head(s) \notin R!ToSet(Tail(s))
  <2>1. \A i \in 1..(Len(s) - 1) : i + 1 \in 1..Len(s) /\ i + 1 # 1
    BY <1>1
  <2>2. 1 \in 1..Len(s)
    BY <1>1
  <2>3. Head(s) \notin R!ToSet(Tail(s))
    BY <1>1, <1>4, <2>1, <2>2 DEF R!ToSet, Distinct
  <2>4. ASSUME NEW i \in 1..(Len(s) - 1), NEW j \in 1..(Len(s) - 1), Tail(s)[i] = Tail(s)[j]
        PROVE  i = j
    <3>1. i + 1 = j + 1
      BY <1>1, <1>4, <2>1, <2>4 DEF Distinct
    <3>2. QED
      BY <3>1
  <2>5. QED
    BY <1>1, <2>3, <2>4 DEF Distinct
<1>5. QED
  BY <1>1, <1>2, <1>3, <1>4

LEMMA OneMore ==
  ASSUME NEW S, NEW s \in Seq(S), NEW e \in S
  PROVE  /\ Append(s, e) \in Seq(S)
         /\ R!ToSet(Append(s, e)) = R!ToSet(s) \cup {e}
         /\ Distinct(s) /\ e \notin R!ToSet(s) => Distinct(Append(s, e))
<1>1. /\ Append(s, e) \in Seq(S) /\ DOMAIN s = 1..Len(s) /\ Len(s) \in Nat
      /\ DOMAIN Append(s, e) = 1..(Len(s) + 1) /\ Append(s, e)[Len(s) + 1] = e
      /\ \A i \in 1..Len(s) : Append(s, e)[i] = s[i]
  OBVIOUS
<1>2. 1..(Len(s) + 1) = 1..Len(s) \cup {Len(s) + 1} /\ Len(s) + 1 \notin 1..Len(s)
  BY <1>1
<1>3. R!ToSet(Append(s, e)) = R!ToSet(s) \cup {e}
  BY <1>1, <1>2 DEF R!ToSet
<1>4. Distinct(s) /\ e \notin R!ToSet(s) => Distinct(Append(s, e))
  BY <1>1, <1>2 DEF R!ToSet, Distinct
<1>5. QED
  BY <1>1, <1>3, <1>4

LEMMA ShortLists ==
  /\ <<>> \in Seq(Hook) /\ R!ToSet(<<>>) = {} /\ Distinct(<<>>)
  /\ \A S, e : e \in S =>
        <<e>> \in Seq(S) /\ R!ToSet(<<e>>) = {e} /\ Distinct(<<e>>)
<1>1. R!ToSet(<<>>) = {} /\ Distinct(<<>>)
  BY DEF R!ToSet, Distinct
<1>2. ASSUME NEW S, NEW e \in S
      PROVE  <<e>> \in Seq(S) /\ R!ToSet(<<e>>) = {e} /\ Distinct(<<e>>)
  <2>1. <<e>> \in Seq(S) /\ DOMAIN <<e>> = {1} /\ <<e>>[1] = e
    OBVIOUS
  <2>2. QED
    BY <2>1 DEF R!ToSet, Distinct
<1>3. QED
  BY <1>1, <1>2

LEMMA Directories ==
  /\ R!PreDir \in Seq(Hook) /\ R!PostDir \in Seq(Hook) /\ R!DeployDir \in Seq(Hook)
  /\ R!ToSet(R!PostDir) = IF opts.dirs THEN {"Q"} ELSE {}
  /\ Distinct(R!DeployDir)
<1>1. "P" \in Hook /\ "Q" \in Hook /\ "R" \in Hook
  BY DEF Hook
<1>2. QED
  BY <1>1, ShortLists DEF R!PreDir, R!PostDir, R!DeployDir

LEMMA Within ==
  ASSUME NEW dir \in Seq(Hook), NEW cmd \in Hook
  PROVE  /\ R!With(dir, cmd) \in Seq(Hook)
         /\ R!ToSet(R!With(dir, cmd)) = R!ToSet(dir) \cup (IF cmd = "none" THEN {} ELSE {cmd})
         /\ Distinct(dir) /\ cmd \notin R!ToSet(dir) => Distinct(R!With(dir, cmd))
BY OneMore DEF R!With, R!NoHook

\* No deploy hook is in the list of one certificate twice.
LEMMA DeployOnce ==
  ASSUME eff \in Parameters
  PROVE  R!RenewHook \in Seq(Hook) /\ Distinct(R!RenewHook)
<1>1. eff.renew \in Hook /\ "none" \in Hook
  BY DEF Parameters, Hook
<1>2. CASE eff.renew \in R!ToSet(R!DeployDir)
  BY <1>1, <1>2, Within, Directories DEF R!RenewHook, R!DeployHooks, R!With, R!NoHook
<1>3. CASE eff.renew \notin R!ToSet(R!DeployDir)
  BY <1>1, <1>3, Within, Directories DEF R!RenewHook, R!DeployHooks
<1>4. QED
  BY <1>2, <1>3

\* The post-hooks of the directory are saved up first, each once.
LEMMA DirectoriesSaved ==
  ASSUME eventually \in Seq(Hook), Distinct(eventually)
  PROVE  /\ R!DirHooks \in Seq(Hook) /\ Distinct(R!DirHooks)
         /\ R!ToSet(R!DirHooks) = R!ToSet(eventually) \cup R!ToSet(R!PostDir)
<1>1. CASE opts.dirs
  <2>1. "Q" \in Hook
    BY DEF Hook
  <2>2. QED
    BY <1>1, <2>1, OneMore, Directories DEF R!DirHooks, R!RunEventually
<1>2. CASE ~ opts.dirs
  BY <1>2, Directories DEF R!DirHooks
<1>3. QED
  BY <1>1, <1>2

\* What is saved up for the end has every post-hook of the attempt, once.
LEMMA SavedUp ==
  ASSUME eff \in Parameters, eventually \in Seq(Hook), Distinct(eventually)
  PROVE  /\ R!PostHooks \in Seq(Hook) /\ Distinct(R!PostHooks)
         /\ R!ToSet(R!PostHooks) = R!ToSet(eventually) \cup R!ToSet(R!With(R!PostDir, eff.post))
<1>1. eff.post \in Hook /\ "Q" \in Hook
  BY DEF Parameters, Hook
<1>2. ASSUME NEW es \in Seq(Hook), NEW h \in Hook, Distinct(es)
      PROVE  /\ R!RunEventually(es, h) \in Seq(Hook) /\ Distinct(R!RunEventually(es, h))
             /\ R!ToSet(R!RunEventually(es, h)) = R!ToSet(es) \cup {h}
  BY <1>2, OneMore DEF R!RunEventually
<1>3. /\ R!DirHooks \in Seq(Hook) /\ Distinct(R!DirHooks)
      /\ R!ToSet(R!DirHooks) = R!ToSet(eventually) \cup R!ToSet(R!PostDir)
  BY DirectoriesSaved
<1>4. R!ToSet(R!With(R!PostDir, eff.post))
        = R!ToSet(R!PostDir) \cup (IF eff.post = "none" THEN {} ELSE {eff.post})
  BY <1>1, Within, Directories
<1>5. CASE eff.post = "none"
  BY <1>3, <1>4, <1>5 DEF R!PostHooks, R!NoHook
<1>6. CASE eff.post # "none"
  <2>1. R!PostHooks = R!RunEventually(R!DirHooks, eff.post)
    BY <1>6 DEF R!PostHooks, R!NoHook
  <2>2. /\ R!PostHooks \in Seq(Hook) /\ Distinct(R!PostHooks)
        /\ R!ToSet(R!PostHooks) = R!ToSet(R!DirHooks) \cup {eff.post}
    BY <1>1, <1>2, <1>3, <2>1
  <2>3. QED
    BY <1>3, <1>4, <1>6, <2>2
<1>7. QED
  BY <1>5, <1>6

-----------------------------------------------------------------------------
(* One lemma for each step. *)

LEMMA Current ==
  ASSUME RenTypes
  PROVE  /\ opts.pre \in Hook /\ opts.renew \in Hook
         /\ {opts.dirs, opts.staging, opts.dry, opts.force, opts.break} \subseteq BOOLEAN
         /\ opts.name \in {"all"} \cup R!Names
         /\ queue # <<>> => /\ R!cur \in R!Names /\ conf[R!cur] \in Parameters
                            /\ archive[R!cur] \in Seq({"prod", "test"})
                            /\ Len(archive[R!cur]) \in Nat
                            /\ R!cur \in R!ToSet(queue)
<1>1. /\ opts.pre \in Hook /\ opts.renew \in Hook
      /\ {opts.dirs, opts.staging, opts.dry, opts.force, opts.break} \subseteq BOOLEAN
      /\ opts.name \in {"all"} \cup R!Names
  BY RenewalAssumption DEF RenTypes, Hook, R!Names, R!ToSet
<1>2. ASSUME queue # <<>>
      PROVE  R!cur \in R!Names /\ R!cur \in R!ToSet(queue)
  <2>1. queue \in Seq(R!Names)
    BY DEF RenTypes
  <2>2. R!cur = Head(queue)
    BY DEF R!cur
  <2>3. QED
    BY <1>2, <2>1, <2>2, TailLess
<1>3. ASSUME queue # <<>>
      PROVE  /\ conf[R!cur] \in Parameters /\ archive[R!cur] \in Seq({"prod", "test"})
             /\ Len(archive[R!cur]) \in Nat
  <2>1. conf[R!cur] \in Parameters
    BY <1>2, <1>3 DEF RenTypes
  <2>2. archive[R!cur] \in Seq({"prod", "test"})
    BY <1>2, <1>3 DEF RenTypes
  <2>3. QED
    BY <2>1, <2>2
<1>4. QED
  BY <1>1, <1>2, <1>3

\* A file that is put on a list leaves the queue, and nothing else changes.
LEMMA Concluded ==
  ASSUME RenTypes, queue # <<>>, NEW list \in {"success", "failure", "skipped", "parse"},
         R!Put(list)
  PROVE  /\ outcome' = [outcome EXCEPT ![R!cur] = list]
         /\ outcome' \in [R!Names -> {"none", "success", "failure", "skipped", "parse"}]
         /\ outcome'[R!cur] = list /\ \A l \in R!Names \ {R!cur} : outcome'[l] = outcome[l]
         /\ queue' \in Seq(R!Names) /\ Distinct(queue')
         /\ R!ToSet(queue) = {R!cur} \cup R!ToSet(queue') /\ R!cur \notin R!ToSet(queue')
         /\ R!ToSet(queue') \subseteq R!Names
         /\ rpc' = "next" /\ ~ failing' /\ failing' \in BOOLEAN
<1>1. R!cur \in R!Names
  BY Current
<1>2. /\ outcome' = [outcome EXCEPT ![R!cur] = list] /\ queue' = Tail(queue)
      /\ rpc' = "next" /\ failing' = FALSE
  BY DEF R!Put, R!Conclude
<1>3. /\ queue' \in Seq(R!Names) /\ Distinct(queue')
      /\ R!ToSet(queue) = {R!cur} \cup R!ToSet(queue') /\ R!cur \notin R!ToSet(queue')
  BY <1>2, TailLess DEF RenTypes, R!cur
<1>4. R!ToSet(queue') \subseteq R!Names
  BY <1>3 DEF R!ToSet
<1>5. QED
  BY <1>1, <1>2, <1>3, <1>4 DEF RenTypes

\* The lists stay true.
LEMMA PutAway ==
  ASSUME RenTypes, Treated, DeployRun, queue # <<>>, aborted = "no",
         NEW list \in {"success", "failure", "skipped", "parse"}, R!Put(list),
         UNCHANGED <<conf, archive, due, opts, ran, aborted>>,
         list = "skipped" => R!cur \notin due,
         \A l \in R!Names : outcome'[l] = "success" =>
            live'[l] = Len(archive[l]) /\ (conf[l].inst /\ ~ opts.dry => served'[l] = live'[l])
  PROVE  Treated' /\ DeployRun'
<1>1. /\ outcome'[R!cur] = list /\ \A l \in R!Names \ {R!cur} : outcome'[l] = outcome[l]
      /\ R!ToSet(queue) = {R!cur} \cup R!ToSet(queue') /\ R!cur \notin R!ToSet(queue')
      /\ R!ToSet(queue') \subseteq R!Names
      /\ rpc' = "next"
  BY Concluded
<1>2. \A l \in R!Names : outcome'[l] = "skipped" => l \notin due
  BY <1>1 DEF Treated
<1>3. \A l \in R!Names : outcome'[l] = "none" => l # R!cur /\ outcome[l] = "none"
  BY <1>1
<1>4. \A l \in R!Names : outcome'[l] = "none" /\ opts.name \in {"all", l} =>
        l \in R!ToSet(queue')
  BY <1>1, <1>3 DEF Treated
<1>5. \A l \in R!ToSet(queue') : outcome'[l] = "none"
  BY <1>1 DEF Treated
<1>6. Treated'
  BY <1>1, <1>2, <1>4, <1>5 DEF Treated
<1>7. DeployRun'
  BY <1>1 DEF DeployRun
<1>8. QED
  BY <1>6, <1>7

LEMMA RenReconstitute ==
  ASSUME Ren, R!Reconstitute
  PROVE  Ren'
<1>1. /\ rpc = "next" /\ queue # <<>>
      /\ UNCHANGED <<readable, due, opts, runs, conf, archive, served, hooksLeft, already,
                     eventually, ran, owed, aborted>>
  BY DEF R!Reconstitute, R!world, R!hooks
<1>2. RenTypes /\ InUse /\ Treated /\ PreRun /\ DeployRun /\ PostRun /\ ~ failing
  BY <1>1 DEF Ren, InUse
<1>c. R!cur \in R!Names /\ conf[R!cur] \in Parameters /\ Len(archive[R!cur]) \in Nat
      /\ R!cur \in R!ToSet(queue)
  BY <1>1, <1>2, Current
<1>3. live' \in [R!Names -> Nat] /\ \A l \in R!Names : live'[l] \in {live[l], Len(archive[l])}
  BY <1>2, <1>c DEF R!Reconstitute, R!LatestCommonVersion, RenTypes
<1>4. CASE R!cur \notin readable \/ ~ R!ShouldRenew(R!cur)
  <2>1. \/ R!Put("parse")
        \/ R!Put("skipped") /\ R!cur \notin due
    BY <1>4 DEF R!Reconstitute, R!ShouldRenew
  <2> PICK list \in {"skipped", "parse"} : R!Put(list) /\ (list = "skipped" => R!cur \notin due)
    BY <2>1
  <2>2. /\ outcome' \in [R!Names -> {"none", "success", "failure", "skipped", "parse"}]
        /\ outcome'[R!cur] = list /\ \A l \in R!Names \ {R!cur} : outcome'[l] = outcome[l]
        /\ queue' \in Seq(R!Names) /\ Distinct(queue')
        /\ R!ToSet(queue) = {R!cur} \cup R!ToSet(queue') /\ R!cur \notin R!ToSet(queue')
        /\ rpc' = "next" /\ ~ failing' /\ failing' \in BOOLEAN
    BY <1>1, <1>2, Concluded
  <2>3. RenTypes'
    BY <1>1, <1>2, <1>3, <2>2 DEF RenTypes, R!Stops, Treating, Trying
  <2>4. InUse'
    BY <2>2 DEF InUse, Treating, Trying
  <2>5. Treated' /\ DeployRun'
    <3>1. \A l \in R!Names : outcome'[l] = "success" =>
            live'[l] = Len(archive[l]) /\ (conf[l].inst /\ ~ opts.dry => served'[l] = live'[l])
      BY <1>1, <1>2, <1>3, <2>2 DEF Treated
    <3>2. aborted = "no"
      BY <1>1, <1>2 DEF Treated
    <3>3. QED
      BY <1>1, <1>2, <3>1, <3>2, PutAway
  <2>6. PreRun'
    BY <1>1, <1>2, <2>2 DEF PreRun
  <2>8. PostRun'
    BY <1>1, <1>2, <2>2 DEF PostRun
  <2>9. QED
    BY <2>3, <2>4, <2>5, <2>6, <2>8 DEF Ren
<1>5. CASE R!cur \in readable /\ R!ShouldRenew(R!cur)
  <2>1. /\ eff' = R!Restore(R!cur) /\ live' = [live EXCEPT ![R!cur] = Len(archive[R!cur])]
        /\ rpc' = "plugins" /\ UNCHANGED <<outcome, queue, failing>>
    BY <1>5 DEF R!Reconstitute, R!LatestCommonVersion
  <2>2. /\ eff' \in Parameters
        /\ eff'.pre \in {conf[R!cur].pre, opts.pre} /\ eff'.post = conf[R!cur].post
        /\ eff'.renew \in {conf[R!cur].renew, opts.renew}
        /\ eff'.srv # conf[R!cur].srv => opts.staging \/ opts.dry
    <3>1. /\ opts.pre \in Hook /\ opts.renew \in Hook /\ conf[R!cur].pre \in Hook
          /\ conf[R!cur].post \in Hook /\ conf[R!cur].renew \in Hook
          /\ conf[R!cur].srv \in {"prod", "test"} /\ conf[R!cur].inst \in BOOLEAN
      BY <1>2, <1>c, Current DEF Parameters
    <3>2. eff' = [pre |-> R!Given(opts.pre, conf[R!cur].pre), post |-> conf[R!cur].post,
                  renew |-> R!Given(opts.renew, conf[R!cur].renew),
                  srv |-> IF opts.staging \/ opts.dry THEN "test" ELSE conf[R!cur].srv,
                  inst |-> conf[R!cur].inst]
      BY <2>1 DEF R!Restore, R!Given, R!LineageConfig, R!NoHook
    <3>3. QED
      BY <3>1, <3>2 DEF Parameters, R!Given
  <2>3. RenTypes'
    BY <1>1, <1>2, <1>3, <2>1, <2>2 DEF RenTypes, R!Stops, Treating, Trying
  <2>4. live'[R!cur] = Len(archive[R!cur])
    BY <1>2, <1>c, <2>1 DEF RenTypes
  <2>5. InUse'
    BY <1>1, <1>2, <2>1, <2>2, <2>4 DEF InUse, Treating, Trying, R!cur
  <2>6. Treated'
    <3>1. \A l \in R!Names : outcome'[l] = "success" =>
            live'[l] = Len(archive[l]) /\ (conf[l].inst /\ ~ opts.dry => served[l] = live'[l])
      BY <1>2, <1>3, <2>1 DEF Treated
    <3>2. QED
      BY <1>1, <1>2, <2>1, <3>1 DEF Treated
  <2>7. PreRun'
    BY <1>1, <1>2, <2>1 DEF PreRun
  <2>8. DeployRun'
    BY <1>1, <1>2, <2>1 DEF DeployRun
  <2>9. PostRun'
    BY <1>1, <1>2, <2>1 DEF PostRun
  <2>10. QED
    BY <2>3, <2>5, <2>6, <2>7, <2>8, <2>9 DEF Ren
<1>6. QED
  BY <1>4, <1>5

LEMMA RenChoosePlugins ==
  ASSUME Ren, NEW ok \in BOOLEAN, NEW usable \in BOOLEAN, R!ChoosePlugins(ok, usable)
  PROVE  Ren'
<1>1. /\ rpc = "plugins"
      /\ UNCHANGED <<readable, due, opts, runs, conf, archive, live, served, already,
                     eventually, ran, owed, aborted>>
  BY DEF R!ChoosePlugins, R!world, R!store
<1>2. RenTypes /\ InUse /\ Treated /\ PreRun /\ DeployRun /\ PostRun
  BY DEF Ren
<1>3. queue # <<>> /\ eff \in Parameters /\ ~ failing /\ aborted = "no"
  BY <1>1, <1>2 DEF RenTypes, InUse, Treated, Treating, Trying
<1>4. /\ eff' \in Parameters
      /\ eff'.pre = eff.pre /\ eff'.post = eff.post /\ eff'.renew = eff.renew /\ eff'.srv = eff.srv
  <2>1. eff' = eff \/ eff' = [eff EXCEPT !.inst = FALSE]
    BY DEF R!ChoosePlugins
  <2>2. QED
    BY <1>3, <2>1 DEF Parameters
<1>5. CASE ~ ok
  <2>1. R!Put("failure") /\ hooksLeft' = hooksLeft
    BY <1>5 DEF R!ChoosePlugins
  <2>2. /\ outcome' \in [R!Names -> {"none", "success", "failure", "skipped", "parse"}]
        /\ outcome'[R!cur] = "failure" /\ \A l \in R!Names \ {R!cur} : outcome'[l] = outcome[l]
        /\ queue' \in Seq(R!Names) /\ Distinct(queue')
        /\ rpc' = "next" /\ ~ failing' /\ failing' \in BOOLEAN
    BY <1>2, <1>3, <2>1, Concluded
  <2>3. RenTypes'
    BY <1>1, <1>2, <2>1, <2>2 DEF RenTypes, R!Stops, Treating, Trying
  <2>4. InUse'
    BY <2>2 DEF InUse, Treating, Trying
  <2>5. Treated' /\ DeployRun'
    <3>1. \A l \in R!Names : outcome'[l] = "success" =>
            live'[l] = Len(archive[l]) /\ (conf[l].inst /\ ~ opts.dry => served'[l] = live'[l])
      BY <1>1, <1>2, <2>2 DEF Treated
    <3>2. QED
      BY <1>1, <1>2, <1>3, <2>1, <3>1, PutAway
  <2>6. PreRun'
    BY <1>1, <1>2, <2>2 DEF PreRun
  <2>7. PostRun'
    BY <1>1, <1>2, <2>2 DEF PostRun
  <2>8. QED
    BY <2>3, <2>4, <2>5, <2>6, <2>7 DEF Ren
<1>6. CASE ok
  <2>1. /\ rpc' = "pre" /\ hooksLeft' = R!With(R!PreDir, eff.pre)
        /\ UNCHANGED <<outcome, queue, failing>>
    BY <1>6 DEF R!ChoosePlugins
  <2>2. hooksLeft' \in Seq(Hook)
    BY <1>3, <2>1, Within, Directories DEF Parameters
  <2>3. RenTypes'
    BY <1>1, <1>2, <1>3, <1>4, <2>1, <2>2 DEF RenTypes, R!Stops, Treating, Trying
  <2>4. InUse'
    BY <1>1, <1>2, <1>4, <2>1 DEF InUse, Treating, Trying, R!cur
  <2>5. Treated'
    BY <1>1, <1>2, <1>3, <2>1 DEF Treated
  <2>6. PreRun'
    BY <1>1, <1>2, <1>4, <2>1 DEF PreRun, R!PreDir
  <2>7. DeployRun'
    BY <1>1, <1>2, <2>1 DEF DeployRun
  <2>8. PostRun'
    BY <1>1, <1>2, <2>1 DEF PostRun
  <2>9. QED
    BY <2>3, <2>4, <2>5, <2>6, <2>7, <2>8 DEF Ren
<1>7. QED
  BY <1>5, <1>6

\* One more hook has run, and it was none of those before.
LEMMA RunOne ==
  ASSUME RenTypes, NEW e \in Events, e \notin R!ToSet(ran), ran' = Append(ran, e)
  PROVE  ran' \in Seq(Events) /\ Distinct(ran') /\ R!ToSet(ran') = R!ToSet(ran) \cup {e}
<1>1. ran \in Seq(Events) /\ Distinct(ran)
  BY DEF RenTypes
<1>2. QED
  BY <1>1, OneMore

LEMMA RenRunPreHook ==
  ASSUME Ren, R!RunPreHook
  PROVE  Ren'
<1>1. /\ rpc = "pre" /\ rpc' = "pre" /\ hooksLeft # <<>> /\ hooksLeft' = Tail(hooksLeft)
      /\ UNCHANGED <<readable, due, opts, runs, conf, archive, live, served, queue, eff,
                     eventually, owed, outcome, failing, aborted>>
  BY DEF R!RunPreHook, R!world, R!store
<1>2. RenTypes /\ InUse /\ Treated /\ PreRun /\ DeployRun /\ PostRun
  BY DEF Ren
<1> DEFINE h == Head(hooksLeft)
<1>3. /\ h \in Hook /\ hooksLeft' \in Seq(Hook)
      /\ R!ToSet(hooksLeft) = {h} \cup R!ToSet(hooksLeft')
  BY <1>1, <1>2, TailLess DEF RenTypes
<1>4. /\ already' = already \cup {h}
      /\ ran' \in Seq(Events) /\ Distinct(ran')
      /\ R!ToSet(ran') \subseteq R!ToSet(ran) \cup {<<"pre", h>>}
      /\ R!ToSet(ran) \subseteq R!ToSet(ran') /\ <<"pre", h>> \in R!ToSet(ran')
  <2>1. CASE h \in already
    <3>1. already' = already /\ ran' = ran
      BY <2>1 DEF R!RunPreHook
    <3>2. <<"pre", h>> \in R!ToSet(ran)
      BY <1>2, <2>1 DEF PreRun
    <3>3. QED
      BY <1>2, <2>1, <3>1, <3>2 DEF RenTypes
  <2>2. CASE h \notin already
    <3>1. already' = already \cup {h} /\ ran' = Append(ran, <<"pre", h>>)
      BY <2>2 DEF R!RunPreHook
    <3>2. <<"pre", h>> \in Events /\ <<"pre", h>>[1] = "pre" /\ <<"pre", h>>[2] = h
      BY <1>3 DEF Events
    <3>3. <<"pre", h>> \notin R!ToSet(ran)
      BY <1>2, <2>2, <3>2 DEF PreRun
    <3>4. ran' \in Seq(Events) /\ Distinct(ran') /\ R!ToSet(ran') = R!ToSet(ran) \cup {<<"pre", h>>}
      BY <1>2, <3>1, <3>2, <3>3, RunOne
    <3>5. QED
      BY <3>1, <3>4
  <2>3. QED
    BY <2>1, <2>2
<1> HIDE DEF h
<1>5. RenTypes'
  BY <1>1, <1>2, <1>3, <1>4 DEF RenTypes, R!Stops, Treating, Trying
<1>6. InUse'
  BY <1>1, <1>2 DEF InUse, Treating, Trying, R!cur
<1>7. Treated'
  BY <1>1, <1>2 DEF Treated
<1>8. PreRun'
  <2>1. \A g \in already' : <<"pre", g>> \in R!ToSet(ran')
    BY <1>2, <1>4 DEF PreRun
  <2>2. \A e \in R!ToSet(ran') : e[1] = "pre" => e[2] \in already'
    BY <1>2, <1>4 DEF PreRun
  <2>3. R!ToSet(R!With(R!PreDir, eff.pre)) \subseteq already' \cup R!ToSet(hooksLeft')
    BY <1>1, <1>2, <1>3, <1>4 DEF PreRun
  <2>4. QED
    BY <1>1, <2>1, <2>2, <2>3 DEF PreRun, R!With, R!PreDir
<1>9. DeployRun'
  BY <1>1, <1>2, <1>4 DEF DeployRun, R!cur
<1>10. PostRun'
  BY <1>1, <1>2, <1>4 DEF PostRun, R!With, R!PostDir
<1>11. QED
  BY <1>5, <1>6, <1>7, <1>8, <1>9, <1>10 DEF Ren

LEMMA RenBeginObtain ==
  ASSUME Ren, R!BeginObtain
  PROVE  Ren'
<1>1. /\ rpc = "pre" /\ hooksLeft = <<>> /\ rpc' = "obtain"
      /\ owed' = owed \cup R!ToSet(R!With(R!PostDir, eff.post))
      /\ UNCHANGED <<readable, due, opts, runs, conf, archive, live, served, queue, eff,
                     hooksLeft, already, eventually, ran, outcome, failing, aborted>>
  BY DEF R!BeginObtain, R!world, R!store
<1>2. RenTypes /\ InUse /\ Treated /\ PreRun /\ DeployRun /\ PostRun
  BY DEF Ren
<1>3. R!ToSet(R!With(R!PostDir, eff.post)) \subseteq Hook
  <2>1. eff.post \in Hook
    BY <1>1, <1>2 DEF RenTypes, R!Stops, Treating, Trying, Parameters
  <2>2. R!With(R!PostDir, eff.post) \in Seq(Hook)
    BY <2>1, Within, Directories
  <2>3. QED
    BY <2>2 DEF R!ToSet
<1>4. RenTypes'
  BY <1>1, <1>2, <1>3 DEF RenTypes, R!Stops, Treating, Trying
<1>5. InUse'
  BY <1>1, <1>2 DEF InUse, Treating, Trying, R!cur
<1>6. Treated'
  BY <1>1, <1>2 DEF Treated
<1>7. PreRun'
  <2>1. R!ToSet(R!With(R!PreDir, eff.pre)) \subseteq already
    BY <1>1, <1>2, ShortLists DEF PreRun
  <2>2. QED
    BY <1>1, <1>2, <2>1 DEF PreRun, R!With, R!PreDir
<1>8. DeployRun'
  BY <1>1, <1>2 DEF DeployRun
<1>9. PostRun'
  BY <1>1, <1>2 DEF PostRun, R!With, R!PostDir
<1>10. QED
  BY <1>4, <1>5, <1>6, <1>7, <1>8, <1>9 DEF Ren

LEMMA RenObtain ==
  ASSUME Ren, NEW ok \in BOOLEAN, R!Obtain(ok)
  PROVE  Ren'
<1>1. /\ rpc = "obtain"
      /\ UNCHANGED <<readable, opts, runs, live, served, queue, eff, already, eventually, ran,
                     owed, outcome, aborted>>
  BY DEF R!Obtain
<1>2. RenTypes /\ InUse /\ Treated /\ PreRun /\ DeployRun /\ PostRun
  BY DEF Ren
<1>3. queue # <<>> /\ eff \in Parameters /\ ~ failing /\ aborted = "no"
  BY <1>1, <1>2 DEF RenTypes, InUse, Treated, Treating, Trying
<1>4. R!cur \in R!Names /\ R!cur \in R!ToSet(queue) /\ archive[R!cur] \in Seq({"prod", "test"})
      /\ Len(archive[R!cur]) \in Nat
  BY <1>2, <1>3, Current
<1>5. outcome[R!cur] = "none"
  BY <1>2, <1>4 DEF Treated
<1>6. hooksLeft' = IF opts.dry THEN <<>> ELSE R!RenewHook
  BY DEF R!Obtain
<1>7. hooksLeft' \in Seq(Hook) /\ Distinct(hooksLeft')
  BY <1>3, <1>6, DeployOnce, ShortLists
<1>8. \A e \in R!ToSet(ran) : e[1] = "deploy" => e[2] \notin R!ToSet(queue)
  BY <1>1, <1>2 DEF DeployRun
<1>9. PreRun' /\ PostRun'
  <2>1. rpc' \in {"saved", "deploy", "post"}
    BY DEF R!Obtain
  <2>2. PreRun'
    BY <1>1, <1>2, <2>1 DEF PreRun
  <2>3. PostRun'
    BY <1>1, <1>2, <2>1 DEF PostRun, R!With, R!PostDir
  <2>4. QED
    BY <2>2, <2>3
<1>10. CASE ~ ok \/ R!AvoidInvalidating
  <2>1. failing' = TRUE /\ rpc' = "post" /\ UNCHANGED <<archive, conf, due>>
    BY <1>10 DEF R!Obtain
  <2>2. RenTypes'
    BY <1>1, <1>2, <1>3, <1>7, <2>1 DEF RenTypes, R!Stops, Treating, Trying
  <2>3. InUse'
    BY <1>1, <1>2, <2>1 DEF InUse, Treating, Trying, R!cur
  <2>4. Treated'
    BY <1>1, <1>2, <1>3, <2>1 DEF Treated
  <2>5. DeployRun'
    BY <1>1, <1>2, <1>8, <2>1 DEF DeployRun
  <2>6. QED
    BY <1>9, <2>2, <2>3, <2>4, <2>5 DEF Ren
<1>11. CASE ok /\ ~ R!AvoidInvalidating /\ opts.dry
  <2>1. UNCHANGED failing /\ rpc' = "deploy" /\ UNCHANGED <<archive, conf, due>>
    BY <1>11 DEF R!Obtain, R!DryRun
  <2>2. RenTypes'
    BY <1>1, <1>2, <1>3, <1>7, <2>1 DEF RenTypes, R!Stops, Treating, Trying
  <2>3. InUse'
    BY <1>1, <1>2, <1>11, <2>1 DEF InUse, Treating, Trying, R!cur
  <2>4. Treated'
    BY <1>1, <1>2, <1>3, <2>1 DEF Treated
  <2>5. DeployRun'
    BY <1>1, <1>2, <1>6, <1>7, <1>8, <1>11, <2>1, ShortLists DEF DeployRun
  <2>6. QED
    BY <1>9, <2>2, <2>3, <2>4, <2>5 DEF Ren
<1>12. CASE ok /\ ~ R!AvoidInvalidating /\ ~ opts.dry
  <2>1. /\ UNCHANGED failing /\ rpc' = "saved" /\ due' = due \ {R!cur}
        /\ archive' = [archive EXCEPT ![R!cur] = Append(@, eff.srv)]
        /\ conf' = [conf EXCEPT ![R!cur] = eff]
    BY <1>12 DEF R!Obtain, R!DryRun
  <2>2. /\ conf' \in [R!Names -> Parameters] /\ conf'[R!cur] = eff
        /\ \A l \in R!Names \ {R!cur} : conf'[l] = conf[l]
    BY <1>2, <1>3, <1>4, <2>1 DEF RenTypes
  <2>3. /\ archive' \in [R!Names -> Seq({"prod", "test"})]
        /\ \A l \in R!Names \ {R!cur} : archive'[l] = archive[l]
    <3>1. eff.srv \in {"prod", "test"}
      BY <1>3 DEF Parameters
    <3>2. Append(archive[R!cur], eff.srv) \in Seq({"prod", "test"})
      BY <1>4, <3>1
    <3>3. QED
      BY <1>2, <1>4, <2>1, <3>2 DEF RenTypes
  <2>4. RenTypes'
    BY <1>1, <1>2, <1>3, <1>7, <2>1, <2>2, <2>3 DEF RenTypes, R!Stops, Treating, Trying
  <2>5. InUse'
    BY <1>1, <1>3, <2>1, <2>2 DEF InUse, Treating, Trying, R!cur
  <2>6. Treated'
    <3>1. \A l \in R!Names : outcome[l] = "success" => l # R!cur
      BY <1>5
    <3>2. \A l \in R!Names : outcome'[l] = "success" =>
            live'[l] = Len(archive'[l]) /\ (conf'[l].inst /\ ~ opts.dry => served'[l] = live'[l])
      BY <1>1, <1>2, <2>2, <2>3, <3>1 DEF Treated
    <3>3. QED
      BY <1>1, <1>2, <1>3, <2>1, <3>2 DEF Treated
  <2>7. DeployRun'
    BY <1>1, <1>2, <1>7, <1>8, <1>12, <2>1 DEF DeployRun
  <2>8. QED
    BY <1>9, <2>4, <2>5, <2>6, <2>7 DEF Ren
<1>13. QED
  BY <1>10, <1>11, <1>12

LEMMA RenLink ==
  ASSUME Ren, R!Link
  PROVE  Ren'
<1>1. /\ rpc = "saved" /\ rpc' = "deploy"
      /\ live' = [live EXCEPT ![R!cur] = Len(archive[R!cur])]
      /\ UNCHANGED <<readable, due, opts, runs, conf, archive, served, queue, eff, hooksLeft,
                     already, eventually, ran, owed, outcome, failing, aborted>>
  BY DEF R!Link, R!world, R!hooks, R!LatestCommonVersion
<1>2. RenTypes /\ InUse /\ Treated /\ PreRun /\ DeployRun /\ PostRun
  BY DEF Ren
<1>3. queue # <<>> /\ eff \in Parameters /\ ~ failing /\ aborted = "no"
  BY <1>1, <1>2 DEF RenTypes, InUse, Treated, Treating, Trying
<1>4. R!cur \in R!Names /\ R!cur \in R!ToSet(queue) /\ Len(archive[R!cur]) \in Nat
  BY <1>2, <1>3, Current
<1>5. /\ live' \in [R!Names -> Nat] /\ live'[R!cur] = Len(archive[R!cur])
      /\ \A l \in R!Names \ {R!cur} : live'[l] = live[l]
  BY <1>1, <1>2, <1>4 DEF RenTypes
<1>6. RenTypes'
  BY <1>1, <1>2, <1>3, <1>5 DEF RenTypes, R!Stops, Treating, Trying
<1>7. InUse'
  BY <1>1, <1>2, <1>5 DEF InUse, Treating, Trying, R!cur
<1>8. Treated'
  <2>1. \A l \in R!Names : outcome[l] = "success" => l # R!cur
    BY <1>2, <1>4 DEF Treated
  <2>2. \A l \in R!Names : outcome[l] = "success" =>
          live'[l] = Len(archive[l]) /\ (conf[l].inst /\ ~ opts.dry => served[l] = live'[l])
    BY <1>2, <1>5, <2>1 DEF Treated
  <2>3. QED
    BY <1>1, <1>2, <1>3, <2>2 DEF Treated
<1>9. PreRun'
  BY <1>1, <1>2 DEF PreRun
<1>10. DeployRun'
  <2>1. \A e \in R!ToSet(ran) : e[1] = "deploy" => e[2] # R!cur
    BY <1>1, <1>2, <1>4 DEF DeployRun
  <2>2. \A h : <<"deploy", R!cur, h>>[1] = "deploy" /\ <<"deploy", R!cur, h>>[2] = R!cur
    OBVIOUS
  <2>3. \A h \in R!ToSet(hooksLeft) : <<"deploy", R!cur, h>> \notin R!ToSet(ran)
    BY <2>1, <2>2
  <2>4. QED
    BY <1>1, <1>2, <2>3 DEF DeployRun, R!cur
<1>11. PostRun'
  BY <1>1, <1>2 DEF PostRun, R!With, R!PostDir
<1>12. QED
  BY <1>6, <1>7, <1>8, <1>9, <1>10, <1>11 DEF Ren

LEMMA RenRunDeployHook ==
  ASSUME Ren, R!RunDeployHook
  PROVE  Ren'
<1> DEFINE h == Head(hooksLeft)
           e == <<"deploy", R!cur, h>>
<1>1. /\ rpc = "deploy" /\ rpc' = "deploy" /\ hooksLeft # <<>> /\ hooksLeft' = Tail(hooksLeft)
      /\ ran' = Append(ran, e)
      /\ UNCHANGED <<readable, due, opts, runs, conf, archive, live, served, queue, eff, already,
                     eventually, owed, outcome, failing, aborted>>
  BY DEF R!RunDeployHook, R!world, R!store
<1>2. RenTypes /\ InUse /\ Treated /\ PreRun /\ DeployRun /\ PostRun
  BY DEF Ren
<1>3. /\ h \in Hook /\ hooksLeft' \in Seq(Hook) /\ Distinct(hooksLeft')
      /\ R!ToSet(hooksLeft) = {h} \cup R!ToSet(hooksLeft') /\ h \notin R!ToSet(hooksLeft')
  BY <1>1, <1>2, TailLess DEF RenTypes, DeployRun
<1>4. queue # <<>> /\ R!cur \in R!Names /\ R!cur \in R!ToSet(queue) /\ ~ opts.dry
  <2>1. queue # <<>> /\ ~ opts.dry
    BY <1>1, <1>2, Current DEF RenTypes, R!Stops, Treating, Trying, DeployRun
  <2>2. QED
    BY <1>2, <2>1, Current
<1>5. e \in Events /\ e[1] = "deploy" /\ e[2] = R!cur /\ e[3] = h
  BY <1>3, <1>4 DEF Events
<1>6. e \notin R!ToSet(ran)
  BY <1>1, <1>2, <1>3 DEF DeployRun
<1>7. ran' \in Seq(Events) /\ Distinct(ran') /\ R!ToSet(ran') = R!ToSet(ran) \cup {e}
  BY <1>1, <1>2, <1>5, <1>6, RunOne
<1>8. RenTypes'
  BY <1>1, <1>2, <1>3, <1>7 DEF RenTypes, R!Stops, Treating, Trying
<1>9. DeployRun'
  <2>1. \A g \in R!ToSet(hooksLeft') : <<"deploy", R!cur, g>> \notin R!ToSet(ran')
    <3> SUFFICES ASSUME NEW g \in R!ToSet(hooksLeft')
                 PROVE  <<"deploy", R!cur, g>> \notin R!ToSet(ran')
      OBVIOUS
    <3>1. <<"deploy", R!cur, g>> \notin R!ToSet(ran) /\ g # h
      BY <1>1, <1>2, <1>3 DEF DeployRun
    <3>2. <<"deploy", R!cur, g>> # e
      BY <3>1
    <3>3. QED
      BY <1>7, <3>1, <3>2
  <2> HIDE DEF e, h
  <2>2. \A f \in R!ToSet(ran') : f[1] = "deploy" =>
          /\ ~ opts.dry
          /\ f[2] \in R!ToSet(queue) => f[2] = R!cur
    BY <1>1, <1>2, <1>4, <1>5, <1>7 DEF DeployRun
  <2>3. QED
    BY <1>1, <1>3, <1>4, <2>1, <2>2 DEF DeployRun, R!cur
<1> HIDE DEF e, h
<1>10. InUse'
  BY <1>1, <1>2 DEF InUse, Treating, Trying, R!cur
<1>11. Treated'
  BY <1>1, <1>2 DEF Treated
<1>12. PreRun'
  BY <1>1, <1>2, <1>5, <1>7 DEF PreRun
<1>13. PostRun'
  BY <1>1, <1>2, <1>5, <1>7 DEF PostRun, R!With, R!PostDir
<1>14. QED
  BY <1>8, <1>9, <1>10, <1>11, <1>12, <1>13 DEF Ren

LEMMA RenDeployed ==
  ASSUME Ren, R!Deployed
  PROVE  Ren'
<1>1. /\ rpc = "deploy" /\ rpc' = "post"
      /\ UNCHANGED <<readable, due, opts, runs, conf, archive, live, served, queue, eff, hooksLeft,
                     already, eventually, ran, owed, outcome, failing, aborted>>
  BY DEF R!Deployed, R!world, R!store, R!hooks
<1>2. RenTypes /\ InUse /\ Treated /\ PreRun /\ DeployRun /\ PostRun
  BY DEF Ren
<1>3. RenTypes'
  BY <1>1, <1>2 DEF RenTypes, R!Stops, Treating, Trying
<1>4. InUse'
  BY <1>1, <1>2 DEF InUse, Treating, Trying, R!cur
<1>5. Treated'
  BY <1>1, <1>2 DEF Treated
<1>6. PreRun'
  BY <1>1, <1>2 DEF PreRun
<1>7. DeployRun'
  BY <1>1, <1>2 DEF DeployRun, R!cur
<1>8. PostRun'
  BY <1>1, <1>2 DEF PostRun, R!With, R!PostDir
<1>9. QED
  BY <1>3, <1>4, <1>5, <1>6, <1>7, <1>8 DEF Ren

LEMMA RenPostHook ==
  ASSUME Ren, R!PostHook
  PROVE  Ren'
<1>1. /\ rpc = "post" /\ eventually' = R!PostHooks
      /\ UNCHANGED <<readable, due, opts, runs, conf, archive, live, served, eff, hooksLeft,
                     already, ran, owed, aborted>>
  BY DEF R!PostHook, R!world, R!store
<1>2. RenTypes /\ InUse /\ Treated /\ PreRun /\ DeployRun /\ PostRun
  BY DEF Ren
<1>3. /\ queue # <<>> /\ eff \in Parameters
      /\ aborted \in {"no", "interrupted"} /\ (aborted # "no" => failing)
  BY <1>1, <1>2 DEF RenTypes, Treated, Treating, Trying
<1>4. /\ eventually' \in Seq(Hook) /\ Distinct(eventually')
      /\ R!ToSet(eventually')
           = R!ToSet(eventually) \cup R!ToSet(R!With(R!PostDir, eff.post))
  BY <1>1, <1>2, <1>3, SavedUp DEF RenTypes
<1>5. rpc' \in {"next", "reload", "saved hooks"}
  BY DEF R!PostHook, R!Put, R!Conclude
<1>6. PreRun'
  BY <1>1, <1>2, <1>5 DEF PreRun
<1>7. PostRun'
  <2>1. \A e \in R!ToSet(ran) : e[1] # "post"
    BY <1>1, <1>2 DEF PostRun
  <2>2. \A h \in owed : h \in R!ToSet(eventually') \/ <<"post", h>> \in R!ToSet(ran)
    BY <1>2, <1>3, <1>4 DEF PostRun
  <2>3. QED
    BY <1>1, <1>5, <2>1, <2>2 DEF PostRun
<1>8. CASE failing /\ aborted = "no"
  <2>1. R!Put("failure")
    BY <1>8 DEF R!PostHook
  <2>2. /\ outcome' \in [R!Names -> {"none", "success", "failure", "skipped", "parse"}]
        /\ outcome'[R!cur] = "failure" /\ \A l \in R!Names \ {R!cur} : outcome'[l] = outcome[l]
        /\ queue' \in Seq(R!Names) /\ Distinct(queue')
        /\ rpc' = "next" /\ ~ failing' /\ failing' \in BOOLEAN
    BY <1>2, <1>3, <2>1, Concluded
  <2>3. RenTypes'
    BY <1>1, <1>2, <1>4, <2>2 DEF RenTypes, R!Stops, Treating, Trying
  <2>4. InUse'
    BY <2>2 DEF InUse, Treating, Trying
  <2>5. Treated' /\ DeployRun'
    <3>1. \A l \in R!Names : outcome'[l] = "success" =>
            live'[l] = Len(archive[l]) /\ (conf[l].inst /\ ~ opts.dry => served'[l] = live'[l])
      BY <1>1, <1>2, <2>2 DEF Treated
    <3>2. QED
      BY <1>1, <1>2, <1>3, <1>8, <2>1, <3>1, PutAway
  <2>6. QED
    BY <1>6, <1>7, <2>3, <2>4, <2>5 DEF Ren
<1>9. CASE ~ failing
  <2>1. rpc' = "reload" /\ UNCHANGED <<outcome, queue, failing>>
    BY <1>3, <1>9 DEF R!PostHook
  <2>2. RenTypes'
    BY <1>1, <1>2, <1>3, <1>4, <2>1 DEF RenTypes, R!Stops, Treating, Trying
  <2>3. InUse'
    BY <1>1, <1>2, <1>3, <1>9, <2>1 DEF InUse, Treating, Trying, R!cur
  <2>4. Treated'
    BY <1>1, <1>2, <1>3, <1>9, <2>1 DEF Treated
  <2>5. DeployRun'
    BY <1>1, <1>2, <2>1 DEF DeployRun, R!cur
  <2>6. QED
    BY <1>6, <1>7, <2>2, <2>3, <2>4, <2>5 DEF Ren
<1>10. CASE aborted # "no"
  <2>1. rpc' = "saved hooks" /\ UNCHANGED <<outcome, queue, failing>>
    BY <1>10 DEF R!PostHook
  <2>2. RenTypes'
    BY <1>1, <1>2, <1>3, <1>4, <2>1 DEF RenTypes, R!Stops, Treating, Trying
  <2>3. InUse'
    BY <2>1 DEF InUse, Treating, Trying
  <2>4. Treated'
    BY <1>1, <1>2, <1>3, <1>10, <2>1 DEF Treated
  <2>5. DeployRun'
    BY <1>1, <1>2, <2>1 DEF DeployRun, R!cur
  <2>6. QED
    BY <1>6, <1>7, <2>2, <2>3, <2>4, <2>5 DEF Ren
<1>11. QED
  BY <1>3, <1>8, <1>9, <1>10

LEMMA RenReload ==
  ASSUME Ren, NEW ok \in BOOLEAN, R!Reload(ok)
  PROVE  Ren'
<1>1. /\ rpc = "reload"
      /\ UNCHANGED <<readable, due, opts, runs, conf, archive, live, eff, hooksLeft,
                     already, eventually, ran, owed, aborted>>
  BY DEF R!Reload, R!world, R!store, R!hooks
<1>2. RenTypes /\ InUse /\ Treated /\ PreRun /\ DeployRun /\ PostRun
  BY DEF Ren
<1>3. queue # <<>> /\ eff \in Parameters /\ aborted = "no" /\ ~ failing
  BY <1>1, <1>2 DEF RenTypes, InUse, Treated, Treating, Trying
<1>4. R!cur \in R!Names
  BY <1>2, <1>3, Current
<1>5. /\ live[R!cur] = Len(archive[R!cur])
      /\ ~ opts.dry => conf[R!cur] = eff
  BY <1>1, <1>2, <1>3 DEF InUse, Treating, Trying
<1>6. served' \in {served, live}
  BY DEF R!Reload, R!RestartServer
<1>7. PICK list \in {"success", "failure"} :
        /\ R!Put(list)
        /\ list = "success" => ~ eff.inst \/ served' = live
  BY DEF R!Reload, R!RestartServer
<1>8. /\ outcome' \in [R!Names -> {"none", "success", "failure", "skipped", "parse"}]
      /\ outcome'[R!cur] = list /\ \A l \in R!Names \ {R!cur} : outcome'[l] = outcome[l]
      /\ queue' \in Seq(R!Names) /\ Distinct(queue')
      /\ rpc' = "next" /\ ~ failing' /\ failing' \in BOOLEAN
  BY <1>2, <1>3, <1>7, Concluded
<1>9. RenTypes'
  BY <1>1, <1>2, <1>6, <1>8 DEF RenTypes, R!Stops, Treating, Trying
<1>10. InUse'
  BY <1>8 DEF InUse, Treating, Trying
<1>11. Treated' /\ DeployRun'
  <2>1. ASSUME NEW l \in R!Names, outcome'[l] = "success"
        PROVE  live'[l] = Len(archive[l]) /\ (conf[l].inst /\ ~ opts.dry => served'[l] = live'[l])
    <3>1. CASE l = R!cur
      BY <1>1, <1>5, <1>7, <1>8, <2>1, <3>1
    <3>2. CASE l # R!cur
      BY <1>1, <1>2, <1>6, <1>8, <2>1, <3>2 DEF Treated
    <3>3. QED
      BY <3>1, <3>2
  <2>2. QED
    BY <1>1, <1>2, <1>3, <1>7, <2>1, PutAway
<1>12. PreRun'
  BY <1>1, <1>2, <1>8 DEF PreRun
<1>13. PostRun'
  BY <1>1, <1>2, <1>8 DEF PostRun
<1>14. QED
  BY <1>9, <1>10, <1>11, <1>12, <1>13 DEF Ren

LEMMA RenInterrupt ==
  ASSUME Ren, R!Interrupt
  PROVE  Ren'
<1>1. /\ rpc # "exit"
      /\ UNCHANGED <<readable, due, opts, runs, conf, archive, live, served, queue, eff, hooksLeft,
                     already, ran, owed, outcome>>
  BY DEF R!Interrupt, R!world, R!store
<1>2. RenTypes /\ InUse /\ Treated /\ PreRun /\ DeployRun /\ PostRun
  BY DEF Ren
<1>3. /\ aborted' \in R!Stops \ {"no"} /\ rpc' \in {"post", "saved hooks", "exit"}
      /\ rpc' = "post" => /\ aborted' = "interrupted" /\ failing' /\ eventually' = eventually
                          /\ rpc \in {"obtain", "saved", "deploy"}
      /\ failing' \in BOOLEAN
      /\ aborted' = "interrupted" => /\ rpc \in Treating \cup {"next"} /\ rpc # "post"
                                     /\ rpc' # "exit" /\ eventually' = eventually
                                     /\ rpc \notin {"obtain", "saved", "deploy"} => rpc' = "saved hooks"
                                     /\ rpc \in {"obtain", "saved", "deploy"} => rpc' = "post"
  BY <1>2 DEF R!Interrupt, R!Stops, RenTypes, Treating, Trying
<1>4. /\ R!DirHooks \in Seq(Hook) /\ Distinct(R!DirHooks)
      /\ R!ToSet(R!DirHooks) = R!ToSet(eventually) \cup R!ToSet(R!PostDir)
  BY <1>2, DirectoriesSaved DEF RenTypes
<1>5. eventually' \in {eventually, R!DirHooks} /\ (rpc # "post" => eventually' = eventually)
  BY DEF R!Interrupt
<1>6. eventually' \in Seq(Hook) /\ Distinct(eventually')
  BY <1>2, <1>4, <1>5 DEF RenTypes
<1>7. RenTypes'
  BY <1>1, <1>2, <1>3, <1>6 DEF RenTypes, R!Stops, Treating, Trying
<1>8. InUse'
  BY <1>3 DEF InUse, Treating, Trying
<1>9. Treated'
  BY <1>1, <1>2, <1>3 DEF Treated
<1>10. PreRun'
  BY <1>1, <1>2, <1>3 DEF PreRun
<1>11. DeployRun'
  <2>1. rpc' \in {"post", "saved hooks", "exit"} /\ R!cur' = R!cur
    BY <1>1, <1>3 DEF R!cur
  <2>2. rpc \in {"deploy", "post", "reload", "saved hooks"} \/ rpc \in Trying \cup {"saved", "next"}
    BY <1>1, <1>2 DEF RenTypes, Treating, Trying
  <2>3. QED
    BY <1>1, <1>2, <2>1, <2>2 DEF DeployRun
<1>12. PostRun'
  <2>1. rpc # "saved hooks" => \A e \in R!ToSet(ran) : e[1] # "post"
    BY <1>1, <1>2 DEF PostRun
  <2>2. CASE aborted' = "interrupted"
    <3>1. aborted = "no"
      BY <1>2, <1>3, <2>2 DEF Treated, Treating, Trying
    <3>2. \A h \in owed : \/ h \in R!ToSet(eventually) \/ <<"post", h>> \in R!ToSet(ran)
                         \/ /\ rpc' = "post" /\ h \in R!ToSet(R!With(R!PostDir, eff.post))
      BY <1>2, <1>3, <2>2, <3>1 DEF PostRun
    <3>3. R!With(R!PostDir, eff.post)' = R!With(R!PostDir, eff.post)
      BY <1>1 DEF R!With, R!PostDir
    <3>4. rpc # "saved hooks"
      BY <1>3, <2>2 DEF Treating, Trying
    <3>5. QED
      BY <1>1, <1>3, <2>1, <2>2, <3>2, <3>3, <3>4 DEF PostRun
  <2>3. CASE aborted' # "interrupted"
    <3>1. rpc = "saved hooks" => eventually' = eventually
      BY <1>5
    <3>2. \A e \in R!ToSet(ran) : e[1] = "post" => e[2] \notin R!ToSet(eventually')
      BY <1>2, <2>1, <3>1 DEF PostRun
    <3>3. rpc' \in {"saved hooks", "exit"} /\ aborted' \notin {"no", "interrupted"}
      BY <1>3, <2>3
    <3>4. QED
      BY <1>1, <3>2, <3>3 DEF PostRun
  <2>4. QED
    BY <2>2, <2>3
<1>13. QED
  BY <1>7, <1>8, <1>9, <1>10, <1>11, <1>12 DEF Ren

LEMMA RenEndOfLoop ==
  ASSUME Ren, R!EndOfLoop
  PROVE  Ren'
<1>1. /\ rpc = "next" /\ queue = <<>> /\ rpc' = "saved hooks"
      /\ UNCHANGED <<readable, due, opts, runs, conf, archive, live, served, queue, eff, hooksLeft,
                     already, eventually, ran, owed, outcome, failing, aborted>>
  BY DEF R!EndOfLoop, R!world, R!store, R!hooks
<1>2. RenTypes /\ InUse /\ Treated /\ PreRun /\ DeployRun /\ PostRun
  BY DEF Ren
<1>3. RenTypes'
  BY <1>1, <1>2 DEF RenTypes, R!Stops, Treating, Trying
<1>4. InUse'
  BY <1>1 DEF InUse, Treating, Trying
<1>5. Treated'
  BY <1>1, <1>2 DEF Treated
<1>6. PreRun'
  BY <1>1, <1>2 DEF PreRun
<1>7. DeployRun'
  BY <1>1, <1>2 DEF DeployRun, R!cur
<1>8. PostRun'
  BY <1>1, <1>2 DEF PostRun
<1>9. QED
  BY <1>3, <1>4, <1>5, <1>6, <1>7, <1>8 DEF Ren

LEMMA RenRunSavedPostHook ==
  ASSUME Ren, R!RunSavedPostHook
  PROVE  Ren'
<1>1. /\ rpc = "saved hooks" /\ rpc' \in {"saved hooks", "exit"}
      /\ UNCHANGED <<readable, due, opts, runs, conf, archive, live, served, queue, eff, hooksLeft,
                     already, owed, outcome, failing, aborted>>
  BY DEF R!RunSavedPostHook, R!world, R!store
<1>2. RenTypes /\ InUse /\ Treated /\ PreRun /\ DeployRun /\ PostRun
  BY DEF Ren
<1>3. InUse'
  BY <1>1 DEF InUse, Treating, Trying
<1>4. Treated'
  BY <1>1, <1>2 DEF Treated
<1>5. CASE eventually = <<>>
  <2>1. rpc' = "exit" /\ UNCHANGED <<eventually, ran>>
    BY <1>5 DEF R!RunSavedPostHook
  <2>2. RenTypes'
    BY <1>1, <1>2, <2>1 DEF RenTypes, R!Stops, Treating, Trying
  <2>3. PreRun'
    BY <1>1, <1>2, <2>1 DEF PreRun
  <2>4. DeployRun'
    BY <1>1, <1>2, <2>1 DEF DeployRun, R!cur
  <2>5. PostRun'
    BY <1>1, <1>2, <1>5, <2>1 DEF PostRun
  <2>6. QED
    BY <1>3, <1>4, <2>2, <2>3, <2>4, <2>5 DEF Ren
<1>6. CASE eventually # <<>>
  <2> DEFINE h == Head(eventually)
             e == <<"post", h>>
  <2>1. /\ rpc' = "saved hooks" /\ eventually' = Tail(eventually) /\ ran' = Append(ran, e)
    BY <1>1, <1>6 DEF R!RunSavedPostHook
  <2>2. /\ h \in Hook /\ eventually' \in Seq(Hook) /\ Distinct(eventually')
        /\ R!ToSet(eventually) = {h} \cup R!ToSet(eventually') /\ h \notin R!ToSet(eventually')
    BY <1>2, <1>6, <2>1, TailLess DEF RenTypes
  <2>3. e \in Events /\ e[1] = "post" /\ e[2] = h
    BY <2>2 DEF Events
  <2>4. e \notin R!ToSet(ran)
    BY <1>2, <2>2, <2>3 DEF PostRun
  <2>5. ran' \in Seq(Events) /\ Distinct(ran') /\ R!ToSet(ran') = R!ToSet(ran) \cup {e}
    BY <1>2, <2>1, <2>3, <2>4, RunOne
  <2>6. aborted \in {"no", "interrupted"} =>
          \A g \in owed : g \in R!ToSet(eventually') \/ <<"post", g>> \in R!ToSet(ran')
    <3> SUFFICES ASSUME aborted \in {"no", "interrupted"}, NEW g \in owed, g # h
                 PROVE  g \in R!ToSet(eventually') \/ <<"post", g>> \in R!ToSet(ran')
      BY <2>5
    <3>1. g \in R!ToSet(eventually) \/ <<"post", g>> \in R!ToSet(ran)
      BY <1>1, <1>2 DEF PostRun
    <3>2. QED
      BY <2>2, <2>5, <3>1
  <2> HIDE DEF e, h
  <2>7. \A f \in R!ToSet(ran') : f[1] = "post" => f[2] \notin R!ToSet(eventually')
    BY <1>2, <2>2, <2>3, <2>5 DEF PostRun
  <2>8. RenTypes'
    BY <1>1, <1>2, <2>1, <2>2, <2>5 DEF RenTypes, R!Stops, Treating, Trying
  <2>9. PreRun'
    BY <1>1, <1>2, <2>1, <2>3, <2>5 DEF PreRun
  <2>10. DeployRun'
    BY <1>1, <1>2, <2>1, <2>3, <2>5 DEF DeployRun, R!cur
  <2>11. PostRun'
    BY <1>1, <2>1, <2>6, <2>7 DEF PostRun
  <2>12. QED
    BY <1>3, <1>4, <2>8, <2>9, <2>10, <2>11 DEF Ren
<1>7. QED
  BY <1>5, <1>6

LEMMA RenKill ==
  ASSUME Ren, R!Kill
  PROVE  Ren'
<1>1. /\ rpc # "exit" /\ rpc' = "exit" /\ aborted' = "killed" /\ aborted' \in R!Stops
      /\ UNCHANGED <<readable, due, opts, runs, conf, archive, live, served, queue, eff, hooksLeft,
                     already, eventually, ran, owed, outcome, failing>>
  BY DEF R!Kill, R!world, R!store, R!hooks, R!Stops
<1>2. RenTypes /\ InUse /\ Treated /\ PreRun /\ DeployRun /\ PostRun
  BY DEF Ren
<1>3. RenTypes'
  BY <1>1, <1>2 DEF RenTypes, R!Stops, Treating, Trying
<1>4. InUse'
  BY <1>1 DEF InUse, Treating, Trying
<1>5. Treated'
  BY <1>1, <1>2 DEF Treated
<1>6. PreRun'
  BY <1>1, <1>2 DEF PreRun
<1>7. DeployRun'
  BY <1>1, <1>2 DEF DeployRun, R!cur
<1>8. PostRun'
  BY <1>1, <1>2 DEF PostRun
<1>9. QED
  BY <1>3, <1>4, <1>5, <1>6, <1>7, <1>8 DEF Ren

-----------------------------------------------------------------------------

\* What a process begins with: the file it was told, or all of them.
LEMMA Begun ==
  ASSUME NEW o \in Renewals, NEW q, q = (IF o.name = "all" THEN Files ELSE <<o.name>>)
  PROVE  /\ q \in Seq(R!Names) /\ Distinct(q)
         /\ \A l \in R!Names : o.name \in {"all", l} => l \in R!ToSet(q)
         /\ R!ToSet(q) \subseteq R!Names
<1>1. Files \in Seq(STRING) /\ Distinct(Files) /\ \A l \in R!Names : l # "all"
  BY RenewalAssumption DEF Distinct, R!Names, R!ToSet
<1>2. o.name \in {"all"} \cup R!Names
  BY RenewalAssumption DEF R!Names, R!ToSet
<1>3. CASE o.name = "all"
  <2>1. q = Files /\ Len(Files) \in Nat /\ Files \in [1..Len(Files) -> STRING]
        /\ DOMAIN Files = 1..Len(Files)
    BY <1>1, <1>3
  <2>2. \A i \in 1..Len(Files) : Files[i] \in R!Names
    BY <2>1 DEF R!Names, R!ToSet
  <2>3. Files \in [1..Len(Files) -> R!Names]
    BY <2>1, <2>2
  <2>4. Files \in Seq(R!Names)
    BY <2>1, <2>3
  <2>5. QED
    BY <1>1, <2>1, <2>4 DEF R!Names
<1>4. CASE o.name # "all"
  <2>1. q = <<o.name>> /\ o.name \in R!Names
    BY <1>2, <1>4
  <2>2. QED
    BY <1>1, <2>1, ShortLists
<1>5. QED
  BY <1>3, <1>4

LEMMA RenInit == R!Init => Ren
<1> SUFFICES ASSUME R!Init
             PROVE  Ren
  OBVIOUS
<1>1. /\ conf \in [R!Names -> Confs] /\ live = [l \in R!Names |-> 1]
      /\ served = [l \in R!Names |-> 1] /\ opts \in Renewals /\ rpc = "next"
      /\ queue = (IF opts.name = "all" THEN Files ELSE <<opts.name>>)
      /\ hooksLeft = <<>> /\ already = {} /\ eventually = <<>> /\ ran = <<>>
      /\ owed = {} /\ outcome = [l \in R!Names |-> "none"] /\ failing = FALSE /\ aborted = "no"
  BY DEF R!Init, R!Fresh
<1>2. archive \in [R!Names -> Seq({"prod", "test"})]
  <2>1. archive \in [R!Names -> {<<"prod">>, <<"test">>}]
    BY DEF R!Init
  <2>2. <<"prod">> \in Seq({"prod", "test"}) /\ <<"test">> \in Seq({"prod", "test"})
    OBVIOUS
  <2>3. QED
    BY <2>1, <2>2
<1>3. conf \in [R!Names -> Parameters]
  <2>1. Confs \subseteq Parameters
    BY RenewalAssumption DEF Parameters, Hook
  <2>2. QED
    BY <1>1, <2>1
<1>4. /\ queue \in Seq(R!Names) /\ Distinct(queue)
      /\ \A l \in R!Names : opts.name \in {"all", l} => l \in R!ToSet(queue)
      /\ R!ToSet(queue) \subseteq R!Names
  BY <1>1, Begun
<1>5. ran \in Seq(Events) /\ Distinct(ran) /\ R!ToSet(ran) = {}
  BY <1>1, ShortLists
<1>6. RenTypes
  BY <1>1, <1>2, <1>3, <1>4, <1>5, ShortLists DEF RenTypes, R!Stops, Treating, Trying
<1>7. InUse
  BY <1>1 DEF InUse, Treating, Trying
<1>8. Treated
  BY <1>1, <1>4 DEF Treated
<1>9. PreRun /\ DeployRun /\ PostRun
  BY <1>1, <1>5 DEF PreRun, DeployRun, PostRun
<1>10. QED
  BY <1>6, <1>7, <1>8, <1>9 DEF Ren

LEMMA RenAgain ==
  ASSUME Ren, R!Again
  PROVE  Ren'
<1>1. /\ rpc' = "next" /\ opts' \in Renewals
      /\ queue' = (IF opts'.name = "all" THEN Files ELSE <<opts'.name>>)
      /\ hooksLeft' = <<>> /\ already' = {} /\ eventually' = <<>> /\ ran' = <<>>
      /\ owed' = {} /\ outcome' = [l \in R!Names |-> "none"] /\ failing' = FALSE /\ aborted' = "no"
      /\ UNCHANGED <<conf, archive, live, served>>
  BY DEF R!Again, R!store
<1>2. RenTypes
  BY DEF Ren
<1>4. /\ queue' \in Seq(R!Names) /\ Distinct(queue')
      /\ \A l \in R!Names : opts'.name \in {"all", l} => l \in R!ToSet(queue')
      /\ R!ToSet(queue') \subseteq R!Names
  BY <1>1, Begun
<1>5. ran' \in Seq(Events) /\ Distinct(ran') /\ R!ToSet(ran') = {}
  BY <1>1, ShortLists
<1>6. RenTypes'
  BY <1>1, <1>2, <1>4, <1>5, ShortLists DEF RenTypes, R!Stops, Treating, Trying
<1>7. InUse'
  BY <1>1 DEF InUse, Treating, Trying
<1>8. Treated'
  BY <1>1, <1>4 DEF Treated
<1>9. PreRun' /\ DeployRun' /\ PostRun'
  BY <1>1, <1>5 DEF PreRun, DeployRun, PostRun
<1>10. QED
  BY <1>6, <1>7, <1>8, <1>9 DEF Ren

LEMMA RenStep ==
  ASSUME Ren, R!Next
  PROVE  Ren'
<1>1. CASE R!Certbot
  BY <1>1, RenReconstitute, RenChoosePlugins, RenRunPreHook, RenBeginObtain, RenObtain, RenLink,
     RenRunDeployHook, RenDeployed, RenPostHook, RenReload, RenEndOfLoop, RenRunSavedPostHook
     DEF R!Certbot
<1>2. CASE R!Over
  <2>1. UNCHANGED rVars
    BY <1>2 DEF R!Over, R!vars, rVars
  <2>2. RenTypes' /\ InUse' /\ Treated'
    BY <2>1 DEF rVars, Ren, RenTypes, InUse, Treated, R!cur
  <2>3. PreRun' /\ DeployRun' /\ PostRun'
    BY <2>1 DEF rVars, Ren, PreRun, DeployRun, PostRun, R!cur, R!With, R!PreDir, R!PostDir
  <2>4. QED
    BY <2>2, <2>3 DEF Ren
<1>3. QED
  BY <1>1, <1>2, RenInterrupt, RenKill, RenAgain DEF R!Next

LEMMA RenInvariant == MCSpec => []RenInv
<1>1. MCInit => RenInv
  BY RenInit DEF MCInit, RenInv
<1>2. RenInv /\ [MCNext]_mcVars => RenInv'
  <2> SUFFICES ASSUME RenInv, [MCNext]_mcVars, part' = "renewal"
               PROVE  Ren'
    BY DEF RenInv
  <2>1. part = "renewal" /\ Ren
    BY DEF MCNext, RNext, CNext, ONext, NNext, SNext, mcVars, RenInv
  <2>2. CASE RNext
    BY <2>1, <2>2, RenStep DEF RNext
  <2>3. CASE ~ RNext
    <3>1. UNCHANGED rVars
      BY <2>1, <2>3 DEF MCNext, CNext, ONext, NNext, SNext, mcVars
    <3>2. RenTypes' /\ InUse' /\ Treated'
      BY <2>1, <3>1 DEF rVars, Ren, RenTypes, InUse, Treated, R!cur
    <3>3. PreRun' /\ DeployRun' /\ PostRun'
      BY <2>1, <3>1 DEF rVars, Ren, PreRun, DeployRun, PostRun, R!cur, R!With, R!PreDir, R!PostDir
    <3>4. QED
      BY <3>2, <3>3 DEF Ren
  <2>4. QED
    BY <2>2, <2>3
<1>3. QED
  BY <1>1, <1>2, PTL DEF MCSpec

\* A certificate is obtained between its pre-hooks and any post-hook; a command
\* that ends has run the post-hooks of all its attempts, failed and interrupted
\* ones too, unless it was killed, or an interrupt came while those very hooks were
\* saved up or run; and no hook ran twice for one purpose.  For any lineages,
\* parameters and command lines.
THEOREM HooksInPairs == MCSpec => []HooksPaired
<1>1. RenInv => HooksPaired
  <2> SUFFICES ASSUME Ren
               PROVE  R!Prepared /\ R!Balanced
    BY DEF RenInv, HooksPaired
  <2>1. RenTypes /\ PreRun /\ PostRun
    BY DEF Ren
  <2>2. R!Prepared
    <3> SUFFICES ASSUME rpc = "obtain"
                 PROVE  /\ \A h \in R!ToSet(R!With(R!PreDir, eff.pre)) :
                             <<"pre", h>> \in R!ToSet(ran)
                        /\ \A i \in DOMAIN ran : ran[i][1] # "post"
      BY DEF R!Prepared
    <3>1. \A h \in R!ToSet(R!With(R!PreDir, eff.pre)) : <<"pre", h>> \in R!ToSet(ran)
      BY <2>1 DEF PreRun
    <3>2. \A e \in R!ToSet(ran) : e[1] # "post"
      BY <2>1 DEF PostRun
    <3>3. QED
      BY <3>1, <3>2 DEF R!ToSet
  <2>3. R!Balanced
    <3>1. aborted \in {"no", "interrupted"} => R!PostHooksRun
      BY <2>1, ShortLists DEF PostRun, R!PostHooksRun
    <3>2. \A i, j \in DOMAIN ran : i # j => ran[i] # ran[j]
      BY <2>1 DEF RenTypes, Distinct
    <3>3. QED
      BY <3>1, <3>2 DEF R!Balanced
  <2>4. QED
    BY <2>2, <2>3
<1>2. QED
  BY <1>1, RenInvariant, PTL

\* A command that comes to its end has treated every file, whatever happened to
\* the others, and what it calls a success is in use.  For any lineages,
\* parameters and command lines.
THEOREM NoneIsForgotten == MCSpec => []ReportIsTrue
<1>1. RenInv => ReportIsTrue
  <2> SUFFICES ASSUME Ren, rpc = "exit", aborted = "no", NEW l \in R!Names
               PROVE  /\ outcome[l] = "none" => opts.name \notin {"all", l}
                      /\ outcome[l] = "success" =>
                           /\ live[l] = Len(archive[l])
                           /\ conf[l].inst /\ ~ opts.dry => served[l] = live[l]
                      /\ outcome[l] = "skipped" => l \notin due
    BY DEF RenInv, ReportIsTrue, R!ReportIsTrue
  <2>1. Treated /\ R!ToSet(queue) = {}
    BY ShortLists DEF Ren, Treated
  <2>2. QED
    BY <2>1 DEF Treated
<1>2. QED
  BY <1>1, RenInvariant, PTL

\* No step of a dry run saves anything or runs a deploy hook, and what it puts in
\* place was saved before; a valid certificate gives way to one of a test server only
\* on request, and a lineage's parameters change by what the command line says.  For
\* any lineages, parameters and command lines.
THEOREM ChangesAsAsked == MCSpec => RenewsAsAsked
<1> DEFINE Asked == R!DryRunHarmlessStep /\ R!ValidStaysStep /\ R!OwnParametersStep
<1>1. ASSUME Ren, R!Next
      PROVE  R!DryRunHarmlessStep
  <2> SUFFICES ASSUME opts.dry
               PROVE  /\ UNCHANGED <<conf, archive>>
                      /\ \A i \in DOMAIN ran' : ran'[i][1] # "deploy"
                      /\ \A l \in R!Names : /\ live'[l] \in {live[l], Len(archive[l])}
                                             /\ served'[l] \in {served[l], live[l]}
    BY DEF R!DryRunHarmlessStep
  <2>0. \A l \in R!Names : /\ live'[l] \in {live[l], Len(archive[l])}
                           /\ served'[l] \in {served[l], live[l]}
    <3>1. live \in [R!Names -> Nat]
      BY <1>1 DEF Ren, RenTypes
    <3>2. live' \in {live, [live EXCEPT ![R!cur] = Len(archive[R!cur])]} /\ served' \in {served, live}
      BY <1>1
         DEF R!Next, R!Certbot, R!Reconstitute, R!ChoosePlugins, R!RunPreHook, R!BeginObtain,
           R!Obtain, R!Link, R!RunDeployHook, R!Deployed, R!PostHook, R!Reload, R!RestartServer,
           R!LatestCommonVersion, R!Interrupt, R!EndOfLoop, R!RunSavedPostHook, R!Kill, R!Again,
           R!Over, R!store, R!vars
    <3>3. QED
      BY <3>1, <3>2
  <2>1. UNCHANGED <<conf, archive>>
    BY <1>1 DEF R!Next, R!Certbot, R!Reconstitute, R!ChoosePlugins, R!RunPreHook, R!BeginObtain,
           R!Obtain, R!DryRun, R!Link, R!RunDeployHook, R!Deployed, R!PostHook, R!Reload,
           R!Interrupt, R!EndOfLoop, R!RunSavedPostHook, R!Kill, R!Again, R!Over, R!store, R!vars
  <2>2. Ren'
    BY <1>1, RenStep
  <2>3. CASE opts' = opts
    <3>1. \A e \in R!ToSet(ran') : e[1] # "deploy"
      BY <2>2, <2>3 DEF Ren, DeployRun
    <3>2. \A i \in DOMAIN ran' : ran'[i] \in R!ToSet(ran')
      BY DEF R!ToSet
    <3>3. QED
      BY <2>0, <2>1, <3>1, <3>2
  <2>4. CASE opts' # opts
    <3>1. R!Again
      BY <1>1, <2>4
         DEF R!Next, R!Certbot, R!Reconstitute, R!ChoosePlugins, R!RunPreHook, R!BeginObtain,
           R!Obtain, R!Link, R!RunDeployHook, R!Deployed, R!PostHook, R!Reload,
           R!Interrupt, R!EndOfLoop, R!RunSavedPostHook, R!Kill, R!Over, R!world, R!vars
    <3>2. ran' = <<>>
      BY <3>1 DEF R!Again
    <3>3. DOMAIN ran' = {}
      BY <3>2
    <3>4. QED
      BY <2>0, <2>1, <3>3
  <2>5. QED
    BY <2>3, <2>4
<1>2. ASSUME Ren, R!Next, conf' # conf \/ archive' # archive
      PROVE  \E ok \in BOOLEAN : R!Obtain(ok)
  BY <1>2
     DEF R!Next, R!Certbot, R!Reconstitute, R!ChoosePlugins, R!RunPreHook, R!BeginObtain,
         R!Link, R!RunDeployHook, R!Deployed, R!PostHook, R!Reload,
         R!Interrupt, R!EndOfLoop, R!RunSavedPostHook, R!Kill, R!Again, R!Over, R!store, R!vars
<1>3. ASSUME Ren, NEW ok \in BOOLEAN, R!Obtain(ok), conf' # conf \/ archive' # archive
      PROVE  R!ValidStaysStep /\ R!OwnParametersStep
  <2>1. /\ rpc = "obtain" /\ ~ opts.dry /\ ~ R!AvoidInvalidating
        /\ archive' = [archive EXCEPT ![R!cur] = Append(@, eff.srv)]
        /\ conf' = [conf EXCEPT ![R!cur] = eff]
    BY <1>3 DEF R!Obtain, R!DryRun
  <2>2. RenTypes /\ InUse /\ queue # <<>> /\ eff \in Parameters
    BY <1>3, <2>1 DEF Ren, RenTypes, Treating, Trying
  <2>3. /\ R!cur \in R!Names /\ archive[R!cur] \in Seq({"prod", "test"})
        /\ Len(archive[R!cur]) \in Nat
    BY <2>2, Current
  <2>4. /\ \A l \in R!Names \ {R!cur} : archive'[l] = archive[l] /\ conf'[l] = conf[l]
        /\ archive'[R!cur] = Append(archive[R!cur], eff.srv) /\ conf'[R!cur] = eff
    BY <2>1, <2>2, <2>3 DEF RenTypes
  <2>5. R!Last(archive'[R!cur]) = eff.srv
    <3>1. eff.srv \in {"prod", "test"}
      BY <2>2 DEF Parameters
    <3>2. /\ Len(Append(archive[R!cur], eff.srv)) = Len(archive[R!cur]) + 1
          /\ Append(archive[R!cur], eff.srv)[Len(archive[R!cur]) + 1] = eff.srv
      BY <2>3, <3>1
    <3>3. QED
      BY <2>4, <3>2 DEF R!Last
  <2>6. R!ValidStaysStep
    BY <2>1, <2>4, <2>5 DEF R!ValidStaysStep, R!AvoidInvalidating, R!Invalidates
  <2>7. R!OwnParametersStep
    BY <2>1, <2>2, <2>4 DEF R!OwnParametersStep, InUse, Trying
  <2>8. QED
    BY <2>6, <2>7
<1>4. ASSUME RenInv, [MCNext]_mcVars, ~ UNCHANGED mcVars, part = "renewal"
      PROVE  Asked
  <2>1. R!Next /\ Ren
    BY <1>4 DEF MCNext, RNext, CNext, ONext, NNext, SNext, RenInv
  <2>2. CASE conf' = conf /\ archive' = archive
    BY <1>1, <2>1, <2>2 DEF R!ValidStaysStep, R!OwnParametersStep
  <2>3. CASE conf' # conf \/ archive' # archive
    BY <1>1, <1>2, <1>3, <2>1, <2>3
  <2>4. QED
    BY <2>2, <2>3
<1>5. RenInv /\ [MCNext]_mcVars => [part = "renewal" => Asked]_mcVars
  BY <1>4
<1>6. QED
  BY <1>5, RenInvariant, PTL DEF MCSpec, RenewsAsAsked

-----------------------------------------------------------------------------
(***************************************************************************)
(* The lineages of a machine, for any domains and suffixes, commands and   *)
(* kills.                                                                  *)
(***************************************************************************)

Operations ==
  [verb : {"none", "new", "renew", "delete", "revoke"}, doms : SUBSET Domains,
   at : C!Names \cup {C!Nobody}, dir : C!Names \cup {C!Nobody, C!Absent, C!Empty},
   agreed : BOOLEAN, fewer : BOOLEAN]

CertTypes ==
  /\ lineage \in [C!Names -> C!Names \cup {C!Absent, C!Empty}]
  /\ links \in [C!Names -> {"absent", "empty", "links"}]
  /\ names \in [C!Names -> (SUBSET Domains) \cup {C!Missing}]
  /\ newer \in [C!Names -> SUBSET Domains]
  /\ shared \in BOOLEAN
  /\ op \in Operations
  /\ cpc \in {"idle", "name", "dirs", "files", "write", "renew", "link", "unlist", "unlink", "prune"}
  /\ cpc # "idle" => op.at \in C!Names

\* A lineage in the making has an empty renewal file and no other's directories.
Making ==
  /\ cpc \in {"name", "dirs", "files", "write"} => op.verb = "new" /\ op.doms # {}
  /\ cpc \in {"dirs", "files", "write"} => lineage[op.at] = C!Empty
  /\ cpc = "write" => links[op.at] = "links" /\ names[op.at] \in C!Obtained

\* A lineage that is renewed can be used, and the names it loses were named.
Renewing ==
  /\ cpc \in {"renew", "link"} => op.verb = "renew" /\ op.doms # {} /\ C!Usable(op.at)
  /\ cpc = "renew" => C!Sans(op.at) \subseteq op.doms \/ op.agreed
  /\ cpc = "link" => newer[lineage[op.at]] \in C!Obtained

\* A deletion has got this far.
Deleting ==
  /\ cpc \in {"unlist", "unlink", "prune"} => op.verb \in {"delete", "revoke"}
  /\ cpc \in {"unlink", "prune"} => op.dir \in C!Names
  /\ cpc = "prune" => links[op.dir] = "absent"

\* What a revocation deletes is no other lineage's.
Alone ==
  cpc # "idle" /\ op.verb = "revoke" =>
    /\ cpc \in {"unlist", "unlink", "prune"}
    /\ \A n \in C!Names \ {op.at} :
         C!Usable(n) => lineage[n] # (IF cpc = "unlist" THEN lineage[op.at] ELSE op.dir)

\* Where no renewal file was copied all of them can be used, each leads to a
\* directory of its own, and none to that of a lineage in the making or of one
\* whose deletion has begun.
Apart ==
  ~ shared =>
    /\ C!NothingShared
    /\ \A n \in C!Names : lineage[n] \in C!Names => C!Usable(n)
    /\ cpc \in {"files", "write"} => \A n \in C!Names : lineage[n] # op.at
    /\ cpc \in {"unlink", "prune"} => \A n \in C!Names : lineage[n] # op.dir

Certs ==
  /\ CertTypes /\ Making /\ Renewing /\ Deleting /\ Alone /\ Apart
  /\ C!RequestMet /\ C!NothingLeft
CertInv == part = "certificates" => Certs

\* A name is no mark.
LEMMA MarksApart ==
  /\ C!Absent \notin C!Names /\ C!Empty \notin C!Names /\ C!Nobody \notin C!Names
  /\ C!Absent # C!Empty
  /\ C!Missing \notin SUBSET Domains
  /\ \A d \in Domains : <<d, 0>> \in C!Names
BY DomainsAssumption DEF C!Absent, C!Empty, C!Nobody, C!Names, C!Missing

\* unique_lineage_name finds a name without a renewal file, if one is left.
LEMMA SuffixIsFree ==
  ASSUME NEW n, C!FreeSuffixes(n) # {}
  PROVE  C!Min(C!FreeSuffixes(n)) \in C!FreeSuffixes(n)
<1> DEFINE S == C!FreeSuffixes(n)
<1>1. S \subseteq Nat
  BY DomainsAssumption DEF C!FreeSuffixes
<1> HIDE DEF S
<1>2. \E x \in S : \A y \in S : ~ (<<y, x>> \in OpToRel(<, Nat))
  BY <1>1, NatLessThanWellFounded, WFMin DEF S
<1>3. PICK x \in S : \A y \in S : ~ (y < x)
  BY <1>1, <1>2 DEF OpToRel
<1>4. \A y \in S : x <= y
  BY <1>1, <1>3
<1>5. C!Min(S) \in S
  BY <1>3, <1>4 DEF C!Min
<1>6. QED
  BY <1>5 DEF S

LEMMA CertCopy ==
  ASSUME Certs, C!Copy
  PROVE  Certs'
BY MarksApart
   DEF Operations, Certs, CertTypes, Making, Renewing, Deleting, Alone, Apart,
       C!RequestMet, C!Obtained, C!NothingLeft,
       C!NothingShared, C!Usable, C!Sans, C!Lineages, C!End, C!Begin, C!Idle, C!Requests, C!store,
       C!PutInPlace,
       C!Copy

LEMMA CertRefuse ==
  ASSUME Certs, C!Refuse
  PROVE  Certs'
BY MarksApart
   DEF Operations, Certs, CertTypes, Making, Renewing, Deleting, Alone, Apart,
       C!RequestMet, C!Obtained, C!NothingLeft,
       C!NothingShared, C!Usable, C!Sans, C!Lineages, C!End, C!Begin, C!Idle, C!Requests, C!store,
       C!PutInPlace,
       C!Refuse

LEMMA CertSaveSuccessor ==
  ASSUME Certs, C!SaveSuccessor
  PROVE  Certs'
BY MarksApart
   DEF Operations, Certs, CertTypes, Making, Renewing, Deleting, Alone, Apart,
       C!RequestMet, C!Obtained, C!NothingLeft,
       C!NothingShared, C!Usable, C!Sans, C!Lineages, C!End, C!Begin, C!Idle, C!Requests, C!store,
       C!PutInPlace,
       C!SaveSuccessor

LEMMA CertUpdateLinks ==
  ASSUME Certs, C!UpdateLinks
  PROVE  Certs'
BY MarksApart
   DEF Operations, Certs, CertTypes, Making, Renewing, Deleting, Alone, Apart,
       C!RequestMet, C!Obtained, C!NothingLeft,
       C!NothingShared, C!Usable, C!Sans, C!Lineages, C!End, C!Begin, C!Idle, C!Requests, C!store,
       C!PutInPlace,
       C!UpdateLinks

LEMMA CertWriteFiles ==
  ASSUME Certs, C!WriteFiles
  PROVE  Certs'
BY MarksApart
   DEF Operations, Certs, CertTypes, Making, Renewing, Deleting, Alone, Apart,
       C!RequestMet, C!Obtained, C!NothingLeft,
       C!NothingShared, C!Usable, C!Sans, C!Lineages, C!End, C!Begin, C!Idle, C!Requests, C!store,
       C!PutInPlace,
       C!WriteFiles

LEMMA CertWriteRenewalConfig ==
  ASSUME Certs, C!WriteRenewalConfig
  PROVE  Certs'
BY MarksApart
   DEF Operations, Certs, CertTypes, Making, Renewing, Deleting, Alone, Apart,
       C!RequestMet, C!Obtained, C!NothingLeft,
       C!NothingShared, C!Usable, C!Sans, C!Lineages, C!End, C!Begin, C!Idle, C!Requests, C!store,
       C!PutInPlace,
       C!WriteRenewalConfig

LEMMA CertUnlist ==
  ASSUME Certs, C!Unlist
  PROVE  Certs'
BY MarksApart
   DEF Operations, Certs, CertTypes, Making, Renewing, Deleting, Alone, Apart,
       C!RequestMet, C!Obtained, C!NothingLeft,
       C!NothingShared, C!Usable, C!Sans, C!Lineages, C!End, C!Begin, C!Idle, C!Requests, C!store,
       C!PutInPlace,
       C!Unlist

LEMMA CertUnlink ==
  ASSUME Certs, C!Unlink
  PROVE  Certs'
BY MarksApart
   DEF Operations, Certs, CertTypes, Making, Renewing, Deleting, Alone, Apart,
       C!RequestMet, C!Obtained, C!NothingLeft,
       C!NothingShared, C!Usable, C!Sans, C!Lineages, C!End, C!Begin, C!Idle, C!Requests, C!store,
       C!PutInPlace,
       C!Unlink

LEMMA CertKill ==
  ASSUME Certs, C!Kill
  PROVE  Certs'
BY MarksApart
   DEF Operations, Certs, CertTypes, Making, Renewing, Deleting, Alone, Apart,
       C!RequestMet, C!Obtained, C!NothingLeft,
       C!NothingShared, C!Usable, C!Sans, C!Lineages, C!End, C!Begin, C!Idle, C!Requests, C!store,
       C!PutInPlace,
       C!Kill

LEMMA CertMakeDirectories ==
  ASSUME Certs, C!MakeDirectories
  PROVE  Certs'
BY MarksApart
   DEF Operations, Certs, CertTypes, Making, Renewing, Deleting, Alone, Apart,
       C!RequestMet, C!Obtained, C!NothingLeft,
       C!NothingShared, C!Usable, C!Sans, C!Lineages, C!End, C!Begin, C!Idle, C!Requests, C!store,
       C!PutInPlace,
       C!MakeDirectories, C!Fits, C!BothAbsent

LEMMA CertPrune ==
  ASSUME Certs, C!Prune
  PROVE  Certs'
BY MarksApart
   DEF Operations, Certs, CertTypes, Making, Renewing, Deleting, Alone, Apart,
       C!RequestMet, C!Obtained, C!NothingLeft,
       C!NothingShared, C!Usable, C!Sans, C!Lineages, C!End, C!Begin, C!Idle, C!Requests, C!store,
       C!PutInPlace,
       C!Prune, C!Archive

LEMMA CertUniqueLineageName ==
  ASSUME Certs, C!UniqueLineageName
  PROVE  Certs'
<1> USE MarksApart DEF Operations, Certs, CertTypes, Making, Renewing, Deleting, Alone, Apart,
       C!RequestMet, C!Obtained, C!NothingLeft,
       C!NothingShared, C!Usable, C!Sans, C!Lineages, C!End, C!Begin, C!Idle, C!Requests, C!store,
       C!PutInPlace
<1>0. CertTypes'
  BY SuffixIsFree DEF C!UniqueLineageName, C!FreeSuffixes, C!Names
<1>1. Making' /\ Renewing' /\ Deleting'
  BY SuffixIsFree DEF C!UniqueLineageName, C!FreeSuffixes, C!Names
<1>2. Alone'
  BY SuffixIsFree DEF C!UniqueLineageName, C!FreeSuffixes, C!Names
<1>3. Apart'
  BY SuffixIsFree DEF C!UniqueLineageName, C!FreeSuffixes, C!Names
<1>4. C!RequestMet' /\ C!NothingLeft'
  BY SuffixIsFree DEF C!UniqueLineageName, C!FreeSuffixes, C!Names
<1>5. QED
  BY <1>0, <1>1, <1>2, <1>3, <1>4

LEMMA CertDelete ==
  ASSUME Certs, NEW n \in C!Names, C!Delete(n)
  PROVE  Certs'
BY MarksApart
   DEF Operations, Certs, CertTypes, Making, Renewing, Deleting, Alone, Apart,
       C!RequestMet, C!Obtained, C!NothingLeft,
       C!NothingShared, C!Usable, C!Sans, C!Lineages, C!End, C!Begin, C!Idle, C!Requests, C!store,
       C!PutInPlace,
       C!Delete, C!Given

LEMMA CertRename ==
  ASSUME Certs, NEW n \in C!Names, NEW k \in Domains \X {0}, C!Rename(n, k)
  PROVE  Certs'
BY MarksApart
   DEF Operations, Certs, CertTypes, Making, Renewing, Deleting, Alone, Apart,
       C!RequestMet, C!Obtained, C!NothingLeft,
       C!NothingShared, C!Usable, C!Sans, C!Lineages, C!End, C!Begin, C!Idle, C!Requests, C!store,
       C!PutInPlace,
       C!Rename, C!Given

LEMMA Choose ==
  ASSUME CertTypes, NEW n \in C!Lineages
  PROVE  /\ n \in C!Names /\ lineage[n] \in C!Names /\ names[lineage[n]] \in C!Requests
         /\ C!Usable(n)
BY DEF C!Lineages, C!Usable

\* _handle_identical_cert_request and the expansion lead to a renewal.
LEMMA CertRenewCert ==
  ASSUME Certs, cpc = "idle", UNCHANGED <<shared, lineage, links, names, newer>>,
         NEW n \in C!Lineages, NEW doms \in C!Requests, NEW agreed \in BOOLEAN,
         NEW fewer \in BOOLEAN, C!Sans(n) \subseteq doms \/ agreed,
         C!RenewCert(n, doms, agreed, fewer)
  PROVE  Certs'
<1>1. n \in C!Names /\ C!Usable(n)
  BY Choose DEF Certs
<1>2. /\ op' = [verb |-> "renew", doms |-> doms, at |-> n, dir |-> C!Nobody, agreed |-> agreed,
              fewer |-> fewer]
      /\ cpc' = "renew" /\ cended' = ""
  BY DEF C!RenewCert, C!Begin, C!Idle
<1>3. op' \in Operations
  BY <1>1, <1>2 DEF Operations, C!Requests
<1>4. op'.verb = "renew" /\ op'.doms = doms /\ op'.at = n /\ op'.agreed = agreed
  BY <1>2
<1>5. CertTypes'
  BY <1>1, <1>2, <1>3, <1>4 DEF Certs, CertTypes
<1>6. Renewing'
  BY <1>1, <1>2, <1>4 DEF Renewing, C!Usable, C!Sans, C!Requests
<1>7. QED
  BY <1>2, <1>4, <1>5, <1>6
     DEF Certs, Making, Deleting, Alone, Apart, C!NothingShared, C!Usable, C!RequestMet, C!Obtained,
         C!NothingLeft

LEMMA CertHandleIdentical ==
  ASSUME Certs, cpc = "idle", UNCHANGED shared,
         NEW n \in C!Lineages, NEW doms \in C!Requests, C!Sans(n) = doms,
         NEW again \in BOOLEAN, NEW fewer \in BOOLEAN,
         C!HandleIdentical(n, doms, again, fewer)
  PROVE  Certs'
<1>1. /\ n \in C!Names /\ lineage[n] \in C!Names /\ C!Usable(n)
  BY Choose DEF Certs
<1>2. UNCHANGED <<lineage, links>>
  BY DEF C!HandleIdentical
<1>3. CASE newer[lineage[n]] # {} \/ ~ again
  <2>1. /\ C!PutInPlace(lineage[n]) /\ cpc' = "idle"
        /\ cended' = IF newer[lineage[n]] = {} THEN "kept" ELSE "deployed"
    BY <1>3 DEF C!HandleIdentical, C!End
  <2>2. op' = [verb |-> "none", doms |-> doms, at |-> n, dir |-> C!Nobody, agreed |-> FALSE,
              fewer |-> FALSE]
    BY <1>3 DEF C!HandleIdentical, C!Idle
  <2>3. op' \in Operations /\ op'.doms = doms /\ op'.at = n /\ ~ op'.fewer
    BY <1>1, <2>2 DEF Operations, C!Requests
  <2>4. /\ names' \in [C!Names -> (SUBSET Domains) \cup {C!Missing}]
        /\ newer' \in [C!Names -> SUBSET Domains]
        /\ \A k \in C!Names : names'[k] # names[k] => names'[k] \in C!Requests
        /\ newer[lineage[n]] = {} => names' = names
    BY <1>1, <2>1 DEF Certs, CertTypes, C!PutInPlace, C!Requests
  <2>5. CertTypes'
    BY <1>2, <2>1, <2>3, <2>4 DEF Certs, CertTypes
  <2>6. \A k \in C!Names : C!Usable(k) => C!Usable(k)'
    BY <1>2, <2>4 DEF C!Usable
  <2>7. Apart'
    BY <1>2, <2>1, <2>6 DEF Certs, Apart, C!NothingShared, C!Usable
  <2>8. C!RequestMet'
    BY <1>1, <1>2, <2>1, <2>3, <2>4, <2>6 DEF C!RequestMet, C!Obtained, C!Sans
  <2>9. QED
    BY <2>1, <2>5, <2>7, <2>8
       DEF Certs, Making, Renewing, Deleting, Alone, C!NothingLeft
<1>4. CASE ~ (newer[lineage[n]] # {} \/ ~ again)
  <2>1. C!RenewCert(n, doms, FALSE, fewer) /\ UNCHANGED <<names, newer>>
    BY <1>4 DEF C!HandleIdentical
  <2>2. QED
    BY <1>2, <2>1, CertRenewCert
<1>5. QED
  BY <1>3, <1>4

\* A step that ends a command before it has begun anything.
LEMMA CertEnd ==
  ASSUME Certs, cpc = "idle", UNCHANGED <<shared, lineage, links, names, newer>>,
         op' \in Operations, cpc' = "idle",
         \/ cended' = "failed"
         \/ cended' = "kept" /\ op'.doms = {}
  PROVE  Certs'
BY DEF Certs, CertTypes, Making, Renewing, Deleting, Alone, Apart, C!NothingShared, C!Usable,
       C!RequestMet, C!Obtained, C!NothingLeft

LEMMA CertRevoke ==
  ASSUME Certs, NEW n \in C!Names, NEW named \in C!Names, NEW wants \in BOOLEAN,
         C!Revoke(n, named, wants)
  PROVE  Certs'
<1>1. /\ cpc = "idle" /\ n \in C!Lineages
      /\ UNCHANGED <<shared, lineage, links, names, newer>>
  BY DEF C!Revoke, C!Given, C!store
<1>2. [C!Idle EXCEPT !.verb = "revoke"] \in Operations /\ C!Idle.doms = {}
  BY DEF Operations, C!Idle
<1>3. CASE /\ op' = [C!Idle EXCEPT !.verb = "revoke"]
           /\ cpc' = "idle" /\ cended' \in {"kept", "failed"}
  BY <1>1, <1>2, <1>3, CertEnd DEF C!Idle
<1>4. ASSUME NEW chosen \in {n, named}, named \in C!Lineages, ~ C!Overlaps(chosen),
             op' = [C!Idle EXCEPT !.verb = "revoke", !.at = chosen], cpc' = "unlist",
             cended' = ""
      PROVE  Certs'
  <2>1. /\ chosen \in C!Names /\ lineage[chosen] \in C!Names
    BY <1>1, <1>4, Choose DEF Certs
  <2>2. op' = [verb |-> "revoke", doms |-> {}, at |-> chosen, dir |-> C!Nobody, agreed |-> FALSE,
              fewer |-> FALSE]
    BY <1>4 DEF C!Idle
  <2>3. op' \in Operations /\ op'.verb = "revoke" /\ op'.at = chosen
    BY <2>1, <2>2 DEF Operations
  <2>4. \A k \in C!Names \ {chosen} : C!Usable(k) => lineage[k] # lineage[chosen]
    BY <1>4 DEF C!Overlaps, C!Lineages
  <2>5. Alone'
    BY <1>1, <1>4, <2>3, <2>4 DEF Alone, C!Usable
  <2>6. QED
    BY <1>1, <1>4, <2>1, <2>3, <2>5
       DEF Certs, CertTypes, Making, Renewing, Deleting, Apart, C!NothingShared, C!Usable,
           C!RequestMet, C!Obtained, C!NothingLeft
<1>5. QED
  BY <1>2, <1>3, <1>4 DEF C!Revoke, C!OverlapFound, C!Begin, C!End

LEMMA CertNewCert ==
  ASSUME Certs, cpc = "idle", UNCHANGED <<shared, lineage, links, names, newer>>, NEW n \in C!Names,
         NEW doms \in C!Requests, NEW fewer \in BOOLEAN, C!NewCert(doms, n, fewer)
  PROVE  Certs'
BY MarksApart
   DEF Operations, Certs, CertTypes, Making, Renewing, Deleting, Alone, Apart,
       C!RequestMet, C!Obtained, C!NothingLeft,
       C!NothingShared, C!Usable, C!Sans, C!Lineages, C!End, C!Begin, C!Idle, C!Requests, C!store,
       C!PutInPlace,
       C!NewCert

LEMMA CertCommand ==
  ASSUME Certs, C!Command
  PROVE  Certs'
<1>1. ASSUME NEW doms \in C!Requests, NEW yes \in BOOLEAN, NEW duplicate \in BOOLEAN,
             NEW fewer \in BOOLEAN, C!ForDomains(doms, duplicate, yes, fewer)
      PROVE  Certs'
  <2>1. cpc = "idle" /\ UNCHANGED shared
    BY <1>1 DEF C!ForDomains, C!Given
  <2>2. CASE \E n \in C!Identical(doms) : C!HandleIdentical(n, doms, yes, fewer)
    BY <2>1, <2>2, CertHandleIdentical DEF C!Identical
  <2>3. ASSUME UNCHANGED C!store, NEW n \in C!Subset(doms), C!Expand(n, doms, yes, fewer)
        PROVE  Certs'
    <3>1. n \in C!Lineages /\ C!Sans(n) \subseteq doms
      BY DEF C!Subset
    <3>2. CASE yes
      BY <2>1, <2>3, <3>1, <3>2, CertRenewCert DEF C!Expand, C!store
    <3>3. CASE ~ yes
      <4>1. cpc' = "idle" /\ cended' = "failed"
        BY <2>3, <3>3 DEF C!Expand, C!End
      <4>2. op' \in Operations
        BY <2>3, <3>3 DEF C!Expand, Certs, CertTypes
      <4>3. QED
        BY <2>1, <2>3, <4>1, <4>2, CertEnd DEF C!store
    <3>4. QED
      BY <3>2, <3>3
  <2>4. CASE UNCHANGED C!store /\ \E d \in doms : C!NewCert(doms, <<d, 0>>, fewer)
    BY <2>1, <2>4, CertNewCert, MarksApart DEF C!store, C!Requests
  <2>5. QED
    BY <1>1, <2>2, <2>3, <2>4 DEF C!ForDomains
<1>2. ASSUME NEW doms \in C!Requests, NEW yes \in BOOLEAN, NEW d \in Domains,
             NEW fewer \in BOOLEAN, C!ForCertname(<<d, 0>>, doms, yes, fewer)
      PROVE  Certs'
  <2> DEFINE n == <<d, 0>>
  <2>1. n \in C!Names
    BY MarksApart
  <2> HIDE DEF n
  <2>2. C!ForCertname(n, doms, yes, fewer)
    BY <1>2 DEF n
  <2>3. cpc = "idle" /\ UNCHANGED shared
    BY <2>2 DEF C!ForCertname, C!Given
  <2>4. CASE n \in C!Lineages /\ C!Sans(n) = doms
    BY <2>2, <2>3, <2>4, CertHandleIdentical DEF C!ForCertname
  <2>5. CASE ~ (n \in C!Lineages /\ C!Sans(n) = doms)
    <3>1. UNCHANGED <<lineage, links, names, newer>>
      BY <2>2, <2>5 DEF C!ForCertname, C!store
    <3>2. CASE n \notin C!Lineages
      BY <2>1, <2>2, <2>3, <2>5, <3>1, <3>2, CertNewCert DEF C!ForCertname
    <3>3. CASE n \in C!Lineages /\ yes
      BY <2>2, <2>3, <2>5, <3>1, <3>3, CertRenewCert DEF C!ForCertname, C!ConfirmNewNames
    <3>4. CASE n \in C!Lineages /\ ~ yes
      <4>1. cpc' = "idle" /\ cended' = "failed"
        BY <2>2, <2>5, <3>4 DEF C!ForCertname, C!ConfirmNewNames, C!End
      <4>2. op' \in Operations
        BY <2>2, <2>5, <3>4 DEF C!ForCertname, C!ConfirmNewNames, Certs, CertTypes
      <4>3. QED
        BY <2>3, <3>1, <4>1, <4>2, CertEnd
    <3>5. QED
      BY <3>2, <3>3, <3>4
  <2>6. QED
    BY <2>4, <2>5
<1>3. QED
  BY <1>1, <1>2, CertDelete, CertRename, CertRevoke DEF C!Command

LEMMA CertStep ==
  ASSUME Certs, C!Next
  PROVE  Certs'
<1>1. CASE C!Over
  BY <1>1 DEF C!Over, C!vars, Operations, Certs, CertTypes, Making, Renewing, Deleting, Alone,
              Apart, C!NothingShared, C!Usable, C!Sans, C!RequestMet, C!Obtained, C!NothingLeft
<1>2. CASE C!Step
  BY <1>2, CertRefuse, CertSaveSuccessor, CertUpdateLinks, CertUniqueLineageName,
     CertMakeDirectories, CertWriteFiles, CertWriteRenewalConfig, CertUnlist, CertUnlink,
     CertPrune
     DEF C!Step
<1>3. QED
  BY <1>1, <1>2, CertCommand, CertCopy, CertKill DEF C!Next

LEMMA CertInvariant == MCSpec => []CertInv
<1>1. MCInit => CertInv
  <2> SUFFICES ASSUME MCInit, part = "certificates"
               PROVE  Certs
    BY DEF CertInv
  <2>1. C!Init
    BY DEF MCInit
  <2>2. op \in Operations /\ op.doms = {}
    BY <2>1 DEF C!Init, C!Idle, Operations
  <2>3. CertTypes
    BY <2>1, <2>2 DEF C!Init, CertTypes
  <2>4. QED
    BY <2>1, <2>2, <2>3, MarksApart
       DEF C!Init, Certs, Making, Renewing, Deleting, Alone, Apart, C!NothingShared,
           C!RequestMet, C!Obtained, C!NothingLeft
<1>2. CertInv /\ [MCNext]_mcVars => CertInv'
  <2> SUFFICES ASSUME CertInv, [MCNext]_mcVars, part' = "certificates"
               PROVE  Certs'
    BY DEF CertInv
  <2>1. part = "certificates" /\ Certs
    BY DEF MCNext, RNext, CNext, ONext, NNext, SNext, mcVars, CertInv
  <2>2. CASE CNext
    BY <2>1, <2>2, CertStep DEF CNext
  <2>3. CASE ~ CNext
    <3>1. UNCHANGED cVars
      BY <2>1, <2>3 DEF MCNext, RNext, ONext, NNext, SNext, mcVars
    <3>2. QED
      BY <2>1, <3>1
         DEF cVars, Operations, Certs, CertTypes, Making, Renewing, Deleting, Alone, Apart,
             C!NothingShared, C!Usable, C!Sans, C!RequestMet, C!Obtained, C!NothingLeft
  <2>4. QED
    BY <2>2, <2>3
<1>3. QED
  BY <1>1, <1>2, PTL DEF MCSpec

\* Through any sequence of issues, renewals, renames, deletions, copies and kills
\* no new lineage settles in another's archive, a command that gets or keeps a
\* certificate leaves a usable one for the names asked for, or for some of them if
\* --allow-subset-of-names is given, and a deletion leaves nothing; for any domains.
THEOREM EachInItsPlace == MCSpec => []LineagesApart
<1>1. CertInv => LineagesApart
  BY DEF CertInv, Certs, Apart, C!NothingShared, LineagesApart
<1>2. QED
  BY <1>1, CertInvariant, PTL

\* Which directories a step makes or takes away, and which versions.
LEMMA OthersLeft ==
  ASSUME Certs, C!Next
  PROVE  C!OthersSurviveStep
<1> SUFFICES ASSUME cpc # "idle", op.verb = "revoke",
                    NEW n \in C!Names \ {op.at}, C!Usable(n)
             PROVE  C!Usable(n)'
  BY DEF C!OthersSurviveStep
<1>1. cpc \in {"unlist", "unlink", "prune"} /\ op.at \in C!Names
  BY DEF Certs, CertTypes, Alone
<1>2. CASE C!Unlist
  BY <1>2 DEF C!Unlist, Certs, CertTypes, C!Usable
<1>3. CASE C!Unlink
  BY <1>3 DEF C!Unlink, Certs, CertTypes, Alone, C!Usable
<1>4. CASE C!Prune
  BY <1>4 DEF C!Prune, C!Archive, Certs, CertTypes, Alone, C!Usable
<1>5. CASE C!Kill
  BY <1>5 DEF C!Kill, C!store, C!Usable
<1>6. ~ C!Command /\ ~ C!Copy /\ ~ C!Over
  BY DEF C!Command, C!Copy, C!Over, C!ForDomains, C!ForCertname, C!Delete, C!Rename, C!Revoke,
         C!Given
<1>7. QED
  BY <1>1, <1>2, <1>3, <1>4, <1>5, <1>6
     DEF C!Next, C!Step, C!Refuse, C!SaveSuccessor, C!UpdateLinks, C!UniqueLineageName,
         C!MakeDirectories, C!WriteFiles, C!WriteRenewalConfig

LEMMA NamesGrow ==
  ASSUME Certs, C!Next
  PROVE  C!NeverShrinksStep
<1> USE DEF Certs, CertTypes
<1>1. CASE C!SaveSuccessor
  BY <1>1 DEF C!SaveSuccessor, C!NeverShrinksStep, C!Obtained, Renewing, C!Usable, C!Sans
<1>2. ASSUME NEW c \in C!Names, C!PutInPlace(c), NEW d \in C!Names
      PROVE  newer'[d] \in {newer[d], {}}
  BY <1>2 DEF C!PutInPlace
<1>3. ASSUME NEW n \in C!Lineages, NEW doms, NEW again, NEW fewer,
             C!HandleIdentical(n, doms, again, fewer), NEW d \in C!Names
      PROVE  newer'[d] \in {newer[d], {}}
  <2>1. lineage[n] \in C!Names
    BY Choose
  <2>2. QED
    BY <1>2, <1>3, <2>1 DEF C!HandleIdentical
<1>4. ASSUME C!Command, NEW d \in C!Names
      PROVE  newer'[d] \in {newer[d], {}}
  <2>1. ASSUME NEW doms, NEW yes, NEW fewer, NEW duplicate, C!ForDomains(doms, duplicate, yes, fewer)
        PROVE  newer'[d] \in {newer[d], {}}
    BY <1>3, <2>1 DEF C!ForDomains, C!Identical, C!store
  <2>2. ASSUME NEW doms, NEW yes, NEW fewer, NEW n, C!ForCertname(n, doms, yes, fewer)
        PROVE  newer'[d] \in {newer[d], {}}
    BY <1>3, <2>2 DEF C!ForCertname, C!store
  <2>3. QED
    BY <1>4, <2>1, <2>2 DEF C!Command, C!Delete, C!Rename, C!Revoke, C!store
<1>5. ASSUME ~ C!SaveSuccessor, ~ C!Command, NEW d \in C!Names
      PROVE  newer'[d] \in {newer[d], {}}
  <2>1. CASE C!UpdateLinks
    BY <1>2, <2>1 DEF C!UpdateLinks, Renewing, C!Usable
  <2>2. CASE ~ C!UpdateLinks
    BY <1>5, <2>2
       DEF C!Next, C!Step, C!Over, C!vars, C!Copy, C!Kill, C!Refuse, C!UniqueLineageName,
           C!MakeDirectories, C!WriteFiles, C!WriteRenewalConfig, C!Unlist, C!Unlink, C!Prune,
           C!store
  <2>3. QED
    BY <2>1, <2>2
<1>6. QED
  BY <1>1, <1>4, <1>5 DEF C!NeverShrinksStep

\* A revocation's deletion makes no other lineage unusable, and no version drops
\* names of its lineage unless the user has said so, or given
\* --allow-subset-of-names; for any domains.
THEOREM NoneIsHarmed == MCSpec => OthersSurvive
<1>1. ASSUME CertInv, [MCNext]_mcVars, part = "certificates"
      PROVE  C!OthersSurviveStep /\ C!NeverShrinksStep
  <2>1. CASE CNext
    BY <1>1, <2>1, OthersLeft, NamesGrow DEF CNext, CertInv
  <2>2. CASE ~ CNext
    <3>1. UNCHANGED cVars
      BY <1>1, <2>2 DEF MCNext, RNext, ONext, NNext, SNext, mcVars
    <3>2. QED
      BY <3>1 DEF cVars, C!OthersSurviveStep, C!NeverShrinksStep, C!Usable
  <2>3. QED
    BY <2>1, <2>2
<1>2. CertInv /\ [MCNext]_mcVars =>
        [part = "certificates" => C!OthersSurviveStep /\ C!NeverShrinksStep]_mcVars
  BY <1>1
<1>3. QED
  BY <1>2, CertInvariant, PTL DEF MCSpec, OthersSurvive

-----------------------------------------------------------------------------
(***************************************************************************)
(* Options and plugins, for any plugins, machines and command lines.       *)
(***************************************************************************)

Plugged == O!Names \cup {O!None}
\* (Of literals no backend knows that they are strings.)
Text == STRING \cup {"None", "unset", "v01", "staging", "2048"}
Values == [auth : Text, inst : Text, server : Text, account : Text, size : Text]

Given ==
  [verb : STRING \cup {"none"}, flags : SUBSET (STRING \X STRING), server : Text,
   test : STRING \cup {"no"}, account : Text, size : Text, force : BOOLEAN, batch : BOOLEAN]
OptTypes ==
  /\ params \in Values /\ config \in Values /\ wanted \in Values
  /\ cli \in Given
  /\ picked \in [auth : Plugged, inst : Plugged]
  /\ opc \in {"idle", "restore", "request", "installer", "authenticator", "account", "save"}

AuthGiven == O!Asked("auth", cli.flags) # {}
InstGiven == O!Asked("inst", cli.flags) # {}
ServerGiven == cli.server # O!Unset \/ cli.test # "no"
ToRenew == cli.verb = "renew"

\* The renewal file has what was in force, or leaves out a default.
Recorded ==
  params # O!Nothing =>
    /\ params.auth = wanted.auth /\ params.auth # O!Unset
    /\ params.inst = wanted.inst /\ params.inst # O!Unset
    /\ params.account = wanted.account /\ params.account # O!Unset
    /\ wanted.account = wanted.server /\ wanted.server # O!Unset /\ wanted.size # O!Unset
    /\ \/ params.server = wanted.server
       \/ params.server = O!Unset /\ wanted.server = O!DefaultServer
    /\ \/ params.size = wanted.size
       \/ params.size = O!Unset /\ wanted.size = O!DefaultSize

\* Size, server and account are settled before the plugins are.
Settled ==
  opc \notin {"idle", "restore"} =>
    /\ ToRenew => config.size = IF cli.size # O!Unset THEN cli.size ELSE wanted.size
    /\ config.server = IF ServerGiven \/ ~ ToRenew THEN O!Server(cli) ELSE wanted.server
    /\ config.size # O!Unset
    /\ cli.account = O!Unset => config.account \in {O!None, config.server}
    /\ opc = "save" => config.account = config.server

\* Which plugins a renewal is left with.
Chosen ==
  /\ opc = "request" =>
       /\ config.auth = IF AuthGiven \/ ~ ToRenew THEN O!None ELSE wanted.auth
       /\ config.inst = IF InstGiven \/ ~ ToRenew THEN O!None ELSE wanted.inst
  /\ opc \in {"installer", "authenticator"} /\ ToRenew =>
       /\ AuthGiven \/ config.auth = wanted.auth
       /\ InstGiven \/ config.inst = wanted.inst
  /\ opc \in {"restore", "request", "installer"} => picked.inst = O!None
  /\ opc \in {"authenticator", "account", "save"} /\ ToRenew =>
       InstGiven \/ picked.inst \in {wanted.inst, O!None}
  /\ opc \in {"account", "save"} /\ ToRenew => AuthGiven \/ picked.auth = wanted.auth
  /\ opc = "save" => config.auth = picked.auth /\ config.inst = picked.inst

Opts ==
  /\ OptTypes /\ Recorded /\ Settled /\ Chosen
  /\ opc # "idle" /\ ToRenew => params # O!Nothing /\ cli.batch
  /\ opc = "restore" => ToRenew /\ config = O!Parsed(cli)
  /\ O!AccountFits /\ O!NoFalseConflict
OptInv == part = "options" => Opts

\* A plugin's name is no mark.
LEMMA NamesAreNames ==
  /\ O!None \notin O!Names /\ O!Unset \notin Plugged
  /\ Plugged \subseteq Text
BY PluginsAssumption DEF O!Names, O!None, O!Unset, Plugged, Text

\* pick_plugin picks the plugin that was asked for or none, and none unasked when
\* nobody can be asked.
LEMMA PickGives ==
  ASSUME NEW asked, NEW roles, NEW n \in O!Pick(asked, roles)
  PROVE  /\ n \in Plugged
         /\ asked # O!None => n \in {asked, O!None}
         /\ ~ (asked = O!None /\ cli.batch)
<1>1. O!Prepared(asked, roles) \subseteq O!Names
  BY DEF O!Prepared, O!Names
<1>2. asked # O!None => O!Prepared(asked, roles) \subseteq {asked}
  BY DEF O!Prepared
<1>3. O!Working(O!Prepared(asked, roles)) \subseteq O!Prepared(asked, roles)
  BY DEF O!Working
<1>4. QED
  BY <1>1, <1>2, <1>3 DEF O!Pick, Plugged

LEMMA OptInit ==
  ASSUME O!Init
  PROVE  Opts
<1> USE DEF O!Init, O!NoCommand, O!Unset, O!None
<1>1. params \in Values /\ wanted \in Values /\ params = O!Nothing
  BY DEF O!Nothing, Values, Text
<1>2. config \in Values
  BY DEF O!Parsed, O!Server, O!DefaultServer, O!DefaultSize, Values, Text
<1>3. cli \in Given
  BY DEF Given, Text
<1>4. picked \in [auth : Plugged, inst : Plugged]
  BY DEF Plugged
<1>5. QED
  BY <1>1, <1>2, <1>3, <1>4
     DEF Opts, OptTypes, Recorded, Settled, Chosen, ToRenew, O!AccountFits, O!NoFalseConflict

LEMMA OptCommand ==
  ASSUME Opts, NEW c \in CommandLines, O!Command(c)
  PROVE  Opts'
<1>1. /\ c.verb \in STRING /\ c.flags \in SUBSET (STRING \X STRING) /\ c.server \in STRING
      /\ c.test \in STRING /\ c.account \in STRING /\ c.size \in STRING
      /\ c.force \in BOOLEAN /\ c.batch \in BOOLEAN
  BY PluginsAssumption
<1>2. /\ cli'.verb = c.verb /\ cli'.flags = c.flags /\ cli'.server = c.server
      /\ cli'.test = c.test /\ cli'.account = c.account /\ cli'.size = c.size
      /\ c.verb = "renew" => cli'.batch
  BY PluginsAssumption DEF O!Command
<1>3. cli' \in Given
  BY PluginsAssumption DEF O!Command, Given, Text
<1>4. /\ O!Server(cli') = O!Server(c) /\ O!Server(c) \in Text
      /\ O!Parsed(cli') = O!Parsed(c)
  BY <1>1, <1>2 DEF O!Server, O!Parsed, O!Staging, O!DefaultServer, O!Unset, Text
<1>5. /\ config'.auth = O!None /\ config'.inst = O!None /\ config'.server = O!Server(c)
      /\ config'.account = IF c.account = O!Unset THEN O!None ELSE c.account
      /\ config'.size = IF c.size = O!Unset THEN O!DefaultSize ELSE c.size
      /\ config' \in Values /\ config' = O!Parsed(c)
  BY <1>1, <1>4 DEF O!Command, O!Parsed, Values, Text, O!None, O!DefaultSize
<1>6. /\ picked' = [auth |-> O!None, inst |-> O!None]
      /\ UNCHANGED <<params, wanted>>
      /\ \/ opc' = "idle" /\ oended' = "usage"
         \/ opc' = (IF c.verb = "renew" THEN "restore" ELSE "request") /\ oended' = ""
      /\ c.verb = "renew" => params # O!Nothing
  BY DEF O!Command, O!End
<1>7. OptTypes'
  BY <1>3, <1>5, <1>6 DEF Opts, OptTypes, Plugged
<1>8. Settled'
  BY <1>2, <1>4, <1>5, <1>6 DEF Settled, ServerGiven, ToRenew, O!Unset, O!DefaultSize
<1>9. Chosen'
  BY <1>2, <1>5, <1>6 DEF Chosen, ToRenew
<1>10. cli'.verb = "renew" => params' # O!Nothing /\ cli'.batch
  BY <1>2, <1>6
<1>11. opc' = "restore" => cli'.verb = "renew" /\ config' = O!Parsed(cli')
  BY <1>2, <1>4, <1>5, <1>6
<1>12. QED
  BY <1>6, <1>7, <1>8, <1>9, <1>10, <1>11
     DEF Opts, Recorded, ToRenew, O!AccountFits, O!NoFalseConflict, O!Parsed, O!Server

LEMMA OptRestore ==
  ASSUME Opts, O!Restore
  PROVE  Opts'
<1>1. /\ opc = "restore" /\ opc' = "request" /\ ToRenew /\ config = O!Parsed(cli)
      /\ UNCHANGED <<params, cli, picked, wanted, oended>>
      /\ params # O!Nothing /\ cli.batch
  BY DEF Opts, O!Restore
<1>2. \A i \in {"auth", "inst", "server", "account", "size"} :
        config'[i] = IF O!Restored(i) THEN params[i] ELSE config[i]
  BY DEF O!Restore, O!Nothing
<1>3. config' \in Values
  BY DEF Opts, OptTypes, Values, O!Restore, O!Nothing
<1>4. config'.auth = IF AuthGiven THEN O!None ELSE wanted.auth
  BY <1>1, <1>2
     DEF Opts, Recorded, O!Restored, O!SetByCli, O!Parsed, AuthGiven
<1>5. config'.inst = IF InstGiven THEN O!None ELSE wanted.inst
  BY <1>1, <1>2
     DEF Opts, Recorded, O!Restored, O!SetByCli, O!Parsed, InstGiven
<1>6. config'.size = IF cli.size # O!Unset THEN cli.size ELSE wanted.size
  <2>1. config'.size = IF params.size # O!Unset /\ ~ (cli.size # O!Unset)
                       THEN params.size ELSE config.size
    BY <1>2 DEF O!Restored, O!SetByCli
  <2>2. config.size = IF cli.size = O!Unset THEN O!DefaultSize ELSE cli.size
    BY <1>1 DEF O!Parsed
  <2>3. /\ wanted.size # O!Unset
        /\ params.size = wanted.size \/ (params.size = O!Unset /\ wanted.size = O!DefaultSize)
    BY <1>1 DEF Opts, Recorded
  <2>4. QED
    BY <2>1, <2>2, <2>3
<1>7. config'.server = IF ServerGiven THEN O!Server(cli) ELSE wanted.server
  BY <1>1, <1>2
     DEF Opts, Recorded, O!Restored, O!SetByCli, O!Parsed, ServerGiven, O!Server
<1>8. cli.account = O!Unset => config'.account \in {O!None, config'.server}
  BY <1>1, <1>2, <1>7
     DEF Opts, Recorded, O!Restored, O!SetByCli, O!Parsed, ServerGiven
<1>9. OptTypes'
  BY <1>1, <1>3 DEF Opts, OptTypes
<1>10. config'.size # O!Unset
  BY <1>1, <1>6 DEF Opts, Recorded
<1>11. Settled' /\ Chosen'
  BY <1>1, <1>4, <1>5, <1>6, <1>7, <1>8, <1>10
     DEF Opts, Settled, Chosen, ToRenew, ServerGiven, AuthGiven, InstGiven, O!Server
<1>12. QED
  BY <1>1, <1>9, <1>11 DEF Opts, Recorded, ToRenew, O!AccountFits, O!NoFalseConflict

LEMMA OptRequest ==
  ASSUME Opts, O!Request
  PROVE  Opts'
<1>1. /\ opc = "request" /\ UNCHANGED <<params, cli, picked, wanted>>
  BY DEF O!Request
<1>2. /\ AuthGiven => O!AuthAsked = O!Asked("auth", cli.flags)
      /\ InstGiven => O!InstAsked = O!Asked("inst", cli.flags)
      /\ ~ AuthGiven => O!AuthAsked = {config.auth} \ {O!None}
      /\ ~ InstGiven => O!InstAsked = {config.inst} \ {O!None}
  BY <1>1 DEF Opts, Chosen, O!AuthAsked, O!InstAsked, AuthGiven, InstGiven
<1>3. CASE O!Conflict(O!AuthAsked, O!InstAsked)
  <2>1. opc' = "idle" /\ oended' = "conflict" /\ config' = config
    BY <1>3 DEF O!Request, O!End
  <2>2. O!Conflict(O!Asked("auth", cli.flags), O!Asked("inst", cli.flags))
    BY <1>2, <1>3 DEF O!Conflict
  <2>3. QED
    BY <1>1, <2>1, <2>2
       DEF Opts, OptTypes, Recorded, Settled, Chosen, O!AccountFits, O!NoFalseConflict
<1>4. CASE ~ O!Conflict(O!AuthAsked, O!InstAsked)
  <2>1. /\ config' = [config EXCEPT !.auth = O!The(O!AuthAsked), !.inst = O!The(O!InstAsked)]
        /\ \/ opc' = "idle" /\ oended' = "usage"
           \/ opc' = "installer" /\ oended' = oended
    BY <1>4 DEF O!Request, O!End
  <2>2. /\ config'.auth = O!The(O!AuthAsked) /\ config'.inst = O!The(O!InstAsked)
        /\ config'.server = config.server /\ config'.account = config.account
        /\ config'.size = config.size
    BY <2>1 DEF Opts, OptTypes, Values
  <2>3. /\ ~ AuthGiven => config'.auth = config.auth
        /\ ~ InstGiven => config'.inst = config.inst
    BY <1>2, <2>2 DEF O!The
  <2>4. config' \in Values
    <3>1. O!AuthAsked \subseteq Text /\ O!InstAsked \subseteq Text
      BY DEF Opts, OptTypes, Given, Values, Text, O!AuthAsked, O!InstAsked, O!Asked
    <3>2. O!The(O!AuthAsked) \in Text /\ O!The(O!InstAsked) \in Text
      BY <3>1 DEF O!The, O!None, Text
    <3>3. QED
      BY <2>1, <3>2 DEF Opts, OptTypes, Values
  <2>5. OptTypes'
    BY <1>1, <2>1, <2>4 DEF Opts, OptTypes
  <2>6. Settled'
    BY <1>1, <2>1, <2>2 DEF Opts, Settled, ToRenew, ServerGiven, O!Server
  <2>7. Chosen'
    BY <1>1, <2>1, <2>3 DEF Opts, Chosen, ToRenew, AuthGiven, InstGiven
  <2>8. QED
    BY <1>1, <2>1, <2>5, <2>6, <2>7
       DEF Opts, Recorded, ToRenew, O!AccountFits, O!NoFalseConflict
<1>5. QED
  BY <1>3, <1>4

LEMMA OptPickInstaller ==
  ASSUME Opts, O!PickInstaller
  PROVE  Opts'
<1>1. opc = "installer" /\ UNCHANGED <<params, cli, config, wanted>>
  BY DEF O!PickInstaller
<1>2. CASE opc' = "idle" /\ oended' = "no plugin" /\ UNCHANGED picked
  BY <1>1, <1>2 DEF Opts, OptTypes, Recorded, Settled, Chosen, O!AccountFits, O!NoFalseConflict
<1>3. ASSUME NEW n \in O!Pick(config.inst, {"auth", "inst"}), ~ ToRenew,
             picked' = [auth |-> n, inst |-> n], opc' = "account", UNCHANGED oended
      PROVE  Opts'
  <2>1. OptTypes'
    BY <1>1, <1>3, PickGives DEF Opts, OptTypes
  <2>2. QED
    BY <1>1, <1>3, <2>1
       DEF Opts, Recorded, Settled, Chosen, ToRenew, ServerGiven, O!Server, O!AccountFits,
           O!NoFalseConflict
<1>4. CASE /\ opc' = "authenticator" /\ UNCHANGED <<picked, oended>>
           /\ config.inst = O!None
  BY <1>1, <1>4
     DEF Opts, OptTypes, Recorded, Settled, Chosen, ToRenew, ServerGiven, AuthGiven, InstGiven,
         O!Server, O!AccountFits, O!NoFalseConflict
<1>5. ASSUME NEW n \in O!Pick(config.inst, {"inst"}), opc' = "authenticator",
             picked' = [picked EXCEPT !.inst = n], UNCHANGED oended
      PROVE  Opts'
  <2>1. n \in Plugged /\ (ToRenew => n \in {config.inst, O!None})
    BY <1>1, <1>5, PickGives DEF Opts
  <2>2. OptTypes' /\ picked'.inst = n
    BY <1>1, <1>5, <2>1 DEF Opts, OptTypes
  <2>3. Chosen'
    BY <1>1, <1>5, <2>1, <2>2 DEF Opts, Chosen, ToRenew, AuthGiven, InstGiven
  <2>4. QED
    BY <1>1, <1>5, <2>2, <2>3
       DEF Opts, Recorded, Settled, ToRenew, ServerGiven, O!Server, O!AccountFits,
           O!NoFalseConflict
<1>6. QED
  BY <1>2, <1>3, <1>4, <1>5 DEF O!PickInstaller, O!Same, O!End, ToRenew

LEMMA OptPickAuthenticator ==
  ASSUME Opts, O!PickAuthenticator
  PROVE  Opts'
<1>1. opc = "authenticator" /\ UNCHANGED <<params, cli, config, wanted>>
  BY DEF O!PickAuthenticator
<1>2. CASE opc' = "idle" /\ oended' = "no plugin" /\ UNCHANGED picked
  BY <1>1, <1>2 DEF Opts, OptTypes, Recorded, Settled, Chosen, O!AccountFits, O!NoFalseConflict
<1>3. CASE opc' = "account" /\ UNCHANGED <<picked, oended>> /\ ~ ToRenew
  BY <1>1, <1>3
     DEF Opts, OptTypes, Recorded, Settled, Chosen, ToRenew, ServerGiven, AuthGiven, InstGiven,
         O!Server, O!AccountFits, O!NoFalseConflict
<1>4. ASSUME NEW n \in O!Pick(config.auth, {"auth"}) \ {O!None}, opc' = "account",
             picked' = [picked EXCEPT !.auth = n], UNCHANGED oended
      PROVE  Opts'
  <2>1. n \in Plugged /\ (ToRenew => n = config.auth)
    BY <1>1, <1>4, PickGives DEF Opts
  <2>2. OptTypes' /\ picked'.auth = n /\ picked'.inst = picked.inst
    BY <1>1, <1>4, <2>1 DEF Opts, OptTypes
  <2>3. Chosen'
    BY <1>1, <1>4, <2>1, <2>2 DEF Opts, Chosen, ToRenew, AuthGiven, InstGiven
  <2>4. QED
    BY <1>1, <1>4, <2>2, <2>3
       DEF Opts, Recorded, Settled, ToRenew, ServerGiven, O!Server, O!AccountFits,
           O!NoFalseConflict
<1>5. QED
  BY <1>2, <1>3, <1>4 DEF O!PickAuthenticator, O!NeedsAuth, O!End, ToRenew

LEMMA OptAccount ==
  ASSUME Opts, O!Account
  PROVE  Opts'
<1>1. opc = "account" /\ UNCHANGED <<params, cli, picked, wanted>>
  BY DEF O!Account
<1>2. /\ config'.auth = picked.auth /\ config'.inst = picked.inst
      /\ config'.account = IF config.account = O!None THEN config.server ELSE config.account
      /\ config'.server = config.server /\ config'.size = config.size
      /\ config' \in Values
  BY NamesAreNames DEF O!Account, O!AccountOf, Opts, OptTypes, Values
<1>3. \/ opc' = "idle" /\ oended' = "installed"
      \/ opc' = "idle" /\ oended' = "no account" /\ config.account \notin {O!None, config.server}
      \/ opc' = "save" /\ oended' = oended /\ config.account \in {O!None, config.server}
  BY DEF O!Account, O!End, O!AccountOf
<1>4. OptTypes'
  BY <1>1, <1>2, <1>3 DEF Opts, OptTypes
<1>5. Settled' /\ Chosen'
  BY <1>1, <1>2, <1>3
     DEF Opts, Settled, Chosen, ToRenew, ServerGiven, AuthGiven, InstGiven, O!Server
<1>6. O!AccountFits'
  BY <1>1, <1>3 DEF Opts, Settled, O!AccountFits
<1>7. QED
  BY <1>1, <1>3, <1>4, <1>5, <1>6 DEF Opts, Recorded, ToRenew, O!NoFalseConflict

LEMMA OptSave ==
  ASSUME Opts, O!Save
  PROVE  Opts'
<1>1. opc = "save" /\ opc' = "idle" /\ UNCHANGED <<cli, config, picked>>
      /\ oended' \in {"dry run", "saved"}
  BY DEF O!Save, O!End
<1>2. CASE UNCHANGED <<params, wanted>>
  BY <1>1, <1>2 DEF Opts, OptTypes, Recorded, Settled, Chosen, O!AccountFits, O!NoFalseConflict
<1>3. CASE /\ params' = [i \in DOMAIN O!Nothing |->
                         IF O!OptionWasSet(i) THEN config[i] ELSE O!Unset]
           /\ wanted' = config
  <2>1. \A i \in {"auth", "inst", "server", "account", "size"} :
          params'[i] = IF O!IsSet(i) THEN config[i] ELSE O!Unset
    BY <1>3 DEF O!Nothing, O!OptionWasSet
  <2>2. params' \in Values
    <3>1. DOMAIN O!Nothing = {"auth", "inst", "server", "account", "size"}
      BY DEF O!Nothing
    <3>2. params' = [i \in {"auth", "inst", "server", "account", "size"} |->
                      IF O!OptionWasSet(i) THEN config[i] ELSE O!Unset]
      BY <1>3, <3>1
    <3>3. \A i \in {"auth", "inst", "server", "account", "size"} :
            (IF O!OptionWasSet(i) THEN config[i] ELSE O!Unset) \in Text
      BY DEF Opts, OptTypes, Values, Text, O!Unset
    <3>4. QED
      BY <3>2, <3>3 DEF Values
  <2>3. config.auth \in Plugged /\ config.inst \in Plugged
    BY <1>1 DEF Opts, OptTypes, Chosen
  <2>4. config.account = config.server
    BY <1>1 DEF Opts, Settled
  <2>5. /\ params'.auth = config.auth /\ params'.inst = config.inst
        /\ params'.auth # O!Unset /\ params'.inst # O!Unset
    BY <2>1, <2>3, NamesAreNames DEF O!IsSet, O!Default
  <2>6. config.server # O!Unset
    BY <1>1 DEF Opts, Settled, Recorded, ToRenew, O!Server, O!Unset, O!Staging, O!DefaultServer
  <2>7. params'.account = config.account /\ params'.account # O!Unset
    BY <2>1, <2>4, <2>6 DEF O!IsSet, O!Default
  <2>8. \/ params'.server = config.server
        \/ params'.server = O!Unset /\ config.server = O!DefaultServer
    BY <2>1 DEF O!IsSet, O!Default
  <2>9. \/ params'.size = config.size
        \/ params'.size = O!Unset /\ config.size = O!DefaultSize
    BY <2>1 DEF O!IsSet, O!Default
  <2>10. Recorded'
    BY <1>1, <1>3, <2>4, <2>5, <2>6, <2>7, <2>8, <2>9 DEF Opts, Settled, Recorded
  <2>11. OptTypes'
    BY <1>1, <1>3, <2>2 DEF Opts, OptTypes
  <2>12. QED
    BY <1>1, <2>10, <2>11 DEF Opts, Settled, Chosen, ToRenew, O!AccountFits, O!NoFalseConflict
<1>4. QED
  BY <1>2, <1>3 DEF O!Save


LEMMA OptStep ==
  ASSUME Opts, O!Next
  PROVE  Opts'
<1>1. CASE O!Over
  BY <1>1 DEF O!Over, O!vars, Opts, OptTypes, Recorded, Settled, Chosen, O!AccountFits,
              O!NoFalseConflict
<1>2. QED
  BY <1>1, OptCommand, OptRestore, OptRequest, OptPickInstaller, OptPickAuthenticator, OptAccount,
     OptSave
     DEF O!Next

LEMMA OptInvariant == MCSpec => []OptInv
<1>1. MCInit => OptInv
  BY OptInit DEF MCInit, OptInv
<1>2. OptInv /\ [MCNext]_mcVars => OptInv'
  <2> SUFFICES ASSUME OptInv, [MCNext]_mcVars, part' = "options"
               PROVE  Opts'
    BY DEF OptInv
  <2>1. part = "options" /\ Opts
    BY DEF MCNext, RNext, CNext, ONext, NNext, SNext, mcVars, OptInv
  <2>2. CASE ONext
    BY <2>1, <2>2, OptStep DEF ONext
  <2>3. CASE ~ ONext
    <3>1. UNCHANGED oVars
      BY <2>1, <2>3 DEF MCNext, RNext, CNext, NNext, SNext, mcVars
    <3>2. OptTypes' /\ Recorded' /\ Settled' /\ Chosen'
      BY <2>1, <3>1
         DEF oVars, Opts, OptTypes, Recorded, Settled, Chosen, ToRenew, ServerGiven, AuthGiven,
             InstGiven, O!Server
    <3>3. opc' = "restore" => config' = O!Parsed(cli')
      BY <2>1, <3>1 DEF oVars, Opts
    <3>4. QED
      BY <2>1, <3>1, <3>2, <3>3
         DEF oVars, Opts, ToRenew, O!Parsed, O!Server, O!AccountFits, O!NoFalseConflict
  <2>4. QED
    BY <2>2, <2>3
<1>3. QED
  BY <1>1, <1>2, PTL DEF MCSpec

\* A renewal takes the plugins, size and server of the certificate unless the
\* command line says otherwise, and no account of another server; flags that
\* agree are not refused.  For any plugins, machines and command lines.
THEOREM SameAgain == MCSpec => RenewsAsIssued
<1> DEFINE Kept == O!KeepsPlugins /\ O!SameOptionsStep /\ O!AccountFits /\ O!NoFalseConflict
<1>1. ASSUME Opts
      PROVE  O!KeepsPlugins /\ O!AccountFits /\ O!NoFalseConflict
  BY <1>1 DEF Opts, Chosen, O!KeepsPlugins, O!Renewing, ToRenew, AuthGiven, InstGiven
<1>2. ASSUME Opts, O!Next
      PROVE  O!SameOptionsStep
  <2> SUFFICES ASSUME opc = "save", cli.verb = "renew", cli.test # "dry-run"
               PROVE  /\ wanted'.size = IF cli.size # O!Unset THEN cli.size ELSE wanted.size
                      /\ wanted'.server = IF cli.server # O!Unset \/ cli.test # "no"
                                          THEN O!Server(cli) ELSE wanted.server
    BY DEF O!SameOptionsStep, O!Renewing
  <2>1. O!Save
    BY <1>2 DEF O!Next, O!Command, O!Restore, O!Request, O!PickInstaller, O!PickAuthenticator,
                O!Account, O!Over
  <2>2. wanted' = config
    BY <2>1 DEF O!Save
  <2>3. QED
    BY <1>2, <2>2 DEF Opts, Settled, ToRenew, ServerGiven
<1>3. ASSUME OptInv, [MCNext]_mcVars, ~ UNCHANGED mcVars, part = "options"
      PROVE  Kept
  <2>1. O!Next
    BY <1>3 DEF MCNext, RNext, CNext, ONext, NNext, SNext
  <2>2. QED
    BY <1>1, <1>2, <1>3, <2>1 DEF OptInv
<1>4. OptInv /\ [MCNext]_mcVars => [part = "options" => Kept]_mcVars
  BY <1>3
<1>5. QED
  BY <1>4, OptInvariant, PTL DEF MCSpec, RenewsAsIssued
=============================================================================
