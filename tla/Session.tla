------------------------------- MODULE Session -------------------------------
(***************************************************************************)
(* One invocation of certbot from main() to the end of the process: where  *)
(* its log records go while the log is set up, which directories it locks, *)
(* the excepthook, and what is run at exit, while other invocations lock   *)
(* and unlock the same directories.                                        *)
(***************************************************************************)
EXTENDS Naturals, SequencesExt

CONSTANTS Others,      \* other invocations
          Contended    \* the directories they lock, of Dirs

VARIABLES
  verb, quiet,   \* config.func is plugins_cmd, or another; --quiet
  memory, temp, logfile,   \* the records in the memory handler, temporary file and log
  there,         \* the temporary file is on the disk
  attached,      \* the handlers of the root logger: "memory", "file"
  target,        \* memory_handler.target: "temp" or "file"
  hook,          \* sys.excepthook: "pre" or "post" (argument parsing)
  atexit,        \* the functions registered
  locks,         \* _LOCKS
  path,          \* whose file is at each directory's .certbot.lock
  holders,       \* who holds a lock of each directory
  messages, added, printed,   \* of the reporter; all there were; those printed
  logged,        \* all records there were
  cause,         \* what has ended main()
  pc

log == <<memory, temp, logfile, there, logged>>
wiring == <<attached, target, hook>>
dirs == <<locks, path, holders>>
report == <<messages, added, printed>>
vars == <<verb, quiet, log, wiring, atexit, dirs, report, cause, pc>>

Dirs == {"logs", "config", "work", "server"}
CoreDirs == {"logs", "config", "work"}
Me == "me"
Free == {"none", "stale"}      \* no file, or one that nobody has locked

\* Names of invocations are names of nothing else.
ASSUME OthersAssumption == Others \cap (Free \cup {Me}) = {} /\ Contended \subseteq Dirs

TypeOK ==
  /\ memory \cup temp \cup logfile \subseteq logged /\ logged \subseteq {"early", "late", "last"}
  /\ attached \subseteq {"memory", "file"} /\ target \in {"temp", "file"} /\ hook \in {"pre", "post"}
  /\ locks \subseteq Dirs /\ path \in [Dirs -> Others \cup Free \cup {Me}]
  /\ holders \in [Dirs -> SUBSET (Others \cup {Me})]
  /\ temp # {} => there
  /\ cause \in {"", "returns", "quits", "error", "crash", "interrupt", "killed"}

\* pre_arg_parse_setup, and main's first records.
Init ==
  /\ verb \in {"plugins", "certonly"} /\ quiet \in BOOLEAN
  /\ memory = {"early"} /\ logged = {"early"} /\ temp = {} /\ logfile = {} /\ there = TRUE
  /\ attached = {"memory"} /\ target = "temp" /\ hook = "pre" /\ atexit = <<"shutdown">>
  /\ locks = {} /\ path = [d \in Dirs |-> "none"] /\ holders = [d \in Dirs |-> {}]
  /\ messages = {} /\ added = {} /\ printed = {} /\ cause = "" /\ pc = "parse"

\* A record goes to all handlers of the root logger.
Log(r) == /\ logged' = logged \cup {r}
          /\ memory' = IF "memory" \in attached THEN memory \cup {r} ELSE memory
          /\ logfile' = IF "file" \in attached THEN logfile \cup {r} ELSE logfile

\* main() ends: an exception but SystemExit is first given to the excepthook.
Leave(how) == cause' = how /\ pc' = IF how \in {"returns", "quits"} THEN "exit" ELSE "hook"
Continue(step) == pc' = step /\ UNCHANGED cause

\* --help and usage errors are SystemExit.
Parse ==
  /\ pc = "parse" /\ UNCHANGED <<verb, quiet, log, wiring, atexit, dirs, report>>
  /\ Continue("logs") \/ \E how \in {"quits", "error", "crash"} : Leave(how)

(* set_up_core_dir, lock_dir_until_exit *)

\* plugins_cmd may go on without what could not be set up.
Tolerated == verb = "plugins"
SetUpFails == IF Tolerated THEN Continue("report") ELSE Leave("error")

\* The first lock registers its release, before it is tried for.
FirstLock == IF locks = {} THEN Append(atexit, "release") ELSE atexit
EachLock == Append(atexit, "release")      \* mutant: every lock does
Registered == FirstLock
Lock(d) == /\ path[d] \in Free
           /\ locks' = locks \cup {d} /\ path' = [path EXCEPT ![d] = Me]
           /\ holders' = [holders EXCEPT ![d] = @ \cup {Me}]
SetUpCoreDir(d, next) ==
  /\ pc = d /\ UNCHANGED <<verb, quiet, log, wiring, report>>
  /\ \/ Lock(d) /\ atexit' = Registered /\ Continue(next)
     \/ path[d] \notin Free /\ atexit' = Registered /\ SetUpFails /\ UNCHANGED dirs
     \* It cannot be made, or belongs to somebody else.
     \/ SetUpFails /\ UNCHANGED <<dirs, atexit>>

(* post_arg_parse_setup *)

\* The log cannot be opened (an Error), or cannot be renamed (an OSError).
OpenLog ==
  /\ pc = "open" /\ UNCHANGED <<verb, quiet, log, wiring, atexit, dirs, report>>
  /\ Continue("attach") \/ SetUpFails \/ Leave("crash")

Rewire(step, next) == pc = step /\ Continue(next) /\ UNCHANGED <<verb, quiet, atexit, dirs, report>>
Attach == /\ Rewire("attach", "detach") /\ attached' = attached \cup {"file"}
          /\ UNCHANGED <<log, target, hook>>
Detach == /\ Rewire("detach", "retarget") /\ attached' = attached \ {"memory"}
          /\ UNCHANGED <<log, target, hook>>
Retarget == Rewire("retarget", "flush") /\ target' = "file" /\ UNCHANGED <<log, attached, hook>>

\* MemoryHandler.flush(force=True)
ToTarget(records) ==
  /\ memory' = {}
  /\ temp' = IF target = "temp" THEN temp \cup records ELSE temp
  /\ logfile' = IF target = "file" THEN logfile \cup records ELSE logfile
Flush == /\ Rewire("flush", "close") /\ ToTarget(memory)
         /\ UNCHANGED <<there, logged, wiring>>

\* TempHandler.close
StillThere == there /\ temp # {}
CloseTemp == /\ Rewire("close", "set hook") /\ there' = StillThere
             /\ UNCHANGED <<memory, temp, logfile, logged, wiring>>
SetHook == /\ Rewire("set hook", "config") /\ hook' = "post"
           /\ UNCHANGED <<log, attached, target>>

\* The hook directories are not locked; an OSError there is not made an Error.
HookDirs ==
  /\ pc = "hook dirs" /\ UNCHANGED <<verb, quiet, log, wiring, atexit, dirs, report>>
  /\ Continue("report") \/ SetUpFails \/ Leave("crash")

RegisterPrint == Append(atexit, "print")
MakeReporter ==
  /\ pc = "report" /\ atexit' = RegisterPrint /\ Continue("prepare")
  /\ UNCHANGED <<verb, quiet, log, wiring, dirs, report>>

(* config.func: a command, which may lock the web server's directory           *)
(* (Installer.prepare, once), logs and reports.                              *)

Prepare ==
  /\ pc = "prepare" /\ UNCHANGED <<verb, quiet, log, wiring, report>>
  /\ \/ Lock("server") /\ atexit' = Registered /\ Continue("func")
     \/ path["server"] \notin Free /\ atexit' = Registered /\ UNCHANGED dirs
        /\ (Continue("func") \/ Leave("error"))
     \/ Continue("func") /\ UNCHANGED <<atexit, dirs>>
Work ==
  /\ pc = "func" /\ Log("late") /\ UNCHANGED <<verb, quiet, temp, there, wiring, atexit, dirs, printed, cause, pc>>
  /\ \/ UNCHANGED <<messages, added>>
     \/ \E m \in [high : BOOLEAN, crash : BOOLEAN] :
          messages' = messages \cup {m} /\ added' = added \cup {m}
Finish == /\ pc = "func" /\ \E how \in {"returns", "quits", "error", "crash"} : Leave(how)
          /\ UNCHANGED <<verb, quiet, log, wiring, atexit, dirs, report>>

\* KeyboardInterrupt.  The model has none while the excepthook or the functions at
\* exit run: that would cut off the rest of them, records and messages included.
Interrupt == /\ pc \notin {"hook", "exit", "gone"} /\ Leave("interrupt")
             /\ UNCHANGED <<verb, quiet, log, wiring, atexit, dirs, report>>

\* The excepthook logs the exception; that of pre_arg_parse_setup then flushes the
\* memory handler.
LoggedToo(records) == records
LoggedBefore(records) == records \ {"last"}    \* mutant: the flush comes first
Flushed(records) == LoggedToo(records)
ExceptHook ==
  /\ pc = "hook" /\ pc' = "exit" /\ logged' = logged \cup {"last"}
  /\ LET new(handler) == IF handler \in attached THEN {"last"} ELSE {}
         buffer == memory \cup new("memory")
         out(handler) == IF hook = "pre" /\ target = handler THEN Flushed(buffer) ELSE {}
     IN /\ memory' = IF hook = "pre" THEN {} ELSE buffer
        /\ temp' = temp \cup out("temp")
        /\ logfile' = logfile \cup new("file") \cup out("file")
  /\ UNCHANGED <<verb, quiet, there, wiring, atexit, dirs, report, cause>>

(* What was registered last is called first. *)

Call(f) == pc = "exit" /\ atexit # <<>> /\ Last(atexit) = f /\ atexit' = Front(atexit)

\* print_messages; sys.exc_info() knows no exception any more.
PrintMessages ==
  /\ Call("print") /\ messages' = {} /\ UNCHANGED added
  /\ printed' = printed \cup {m \in messages : quiet => m.high /\ m.crash}
  /\ UNCHANGED <<verb, quiet, log, wiring, dirs, cause, pc>>

\* _release_locks: each file is removed, whoever's it is, and closed.
ReleaseLocks ==
  /\ Call("release") /\ UNCHANGED locks
  /\ path' = [d \in Dirs |-> IF d \in locks THEN "none" ELSE path[d]]
  /\ holders' = [d \in Dirs |-> holders[d] \ {Me}]
  /\ UNCHANGED <<verb, quiet, log, wiring, report, cause, pc>>

\* logging.shutdown: the memory handler is not flushed by it.
Shutdown == /\ Call("shutdown") /\ there' = StillThere
            /\ UNCHANGED <<verb, quiet, memory, temp, logfile, logged, wiring, dirs, report, cause, pc>>

End == /\ pc = "exit" /\ atexit = <<>> /\ pc' = "gone"
       /\ UNCHANGED <<verb, quiet, log, wiring, atexit, dirs, report, cause>>

Kill == /\ pc # "gone" /\ pc' = "gone" /\ cause' = "killed"
        /\ path' = [d \in Dirs |-> IF path[d] = Me THEN "stale" ELSE path[d]]
        /\ holders' = [d \in Dirs |-> holders[d] \ {Me}]
        /\ UNCHANGED <<verb, quiet, log, wiring, atexit, locks, report>>

OtherLocks(o, d) ==
  /\ path[d] \in Free
  /\ path' = [path EXCEPT ![d] = o] /\ holders' = [holders EXCEPT ![d] = @ \cup {o}]
OtherReleases(o, d) ==
  /\ o \in holders[d]
  /\ path' = [path EXCEPT ![d] = "none"] /\ holders' = [holders EXCEPT ![d] = @ \ {o}]
Elsewhere == /\ \E o \in Others, d \in Contended : OtherLocks(o, d) \/ OtherReleases(o, d)
             /\ UNCHANGED <<verb, quiet, log, wiring, atexit, locks, report, cause, pc>>

PostArgParseSetup ==
  SetUpCoreDir("logs", "open") \/ OpenLog \/ Attach \/ Detach \/ Retarget \/ Flush \/ CloseTemp \/ SetHook
NeededDirs == SetUpCoreDir("config", "work") \/ SetUpCoreDir("work", "hook dirs") \/ HookDirs
Exit == ExceptHook \/ PrintMessages \/ ReleaseLocks \/ Shutdown \/ End
Next == \/ Parse \/ PostArgParseSetup \/ NeededDirs \/ MakeReporter \/ Work \/ Prepare \/ Finish
        \/ Interrupt \/ Exit \/ Kill \/ Elsewhere
Spec == Init /\ [][Next]_vars

-----------------------------------------------------------------------------
(* Properties. *)

\* Whenever an exception ends the process, all its records are in a file that is
\* left, wherever the log's set-up had come to; and once it is set up, they are
\* in the log, however the process ends.
RecordsKept ==
  /\ pc = "gone" /\ cause \in {"error", "crash", "interrupt"} => logged \subseteq temp \cup logfile
  /\ hook = "post" => logged \subseteq logfile

\* Usage errors, --help and successful commands leave no temporary file.
NoLitter == pc = "gone" /\ cause \in {"quits", "returns"} => ~ there

\* A command but `plugins` works only while it alone has the configuration and
\* the working directory.
WorksAlone ==
  pc = "func" /\ verb # "plugins" => \A d \in CoreDirs : path[d] = Me /\ holders[d] = {Me}

\* No two invocations have one directory, unless this is a `plugins` that went on
\* without its first lock and releases the later ones twice.
OneHolder == verb # "plugins" => \A d \in Dirs : Cardinality(holders[d]) <= 1

\* Messages for the user are printed at the end, even after an exception; with
\* --quiet the most important ones.
Reported ==
  pc = "gone" /\ cause # "killed" =>
    {m \in added : m.crash /\ (quiet => m.high)} \subseteq printed

\* However main() ends, the records of what ended it are in a file that is left,
\* messages for the user are printed, and an unused temporary file is gone, as long
\* as what runs at exit is not interrupted itself.
NothingLost == RecordsKept /\ NoLitter /\ Reported

\* A command works only while it alone has its directories, and no two
\* invocations have one.  Not so of `plugins`, which goes on without a lock that was
\* refused, registers the release of the others twice, and may then remove the lock
\* file of somebody else.
Exclusive == WorksAlone /\ OneHolder
=============================================================================
