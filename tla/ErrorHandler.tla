---------------------------- MODULE ErrorHandler ----------------------------
(***************************************************************************)
(* certbot/error_handler.py: the context manager that cleans up after      *)
(* errors and signals.                                                     *)
(*                                                                         *)
(* A process enters "with ErrorHandler(...)" statements one after another  *)
(* and one inside another; a body may end, raise, or exit, and signals     *)
(* arrive at any time.  A handler that is entered takes the place of the   *)
(* one the operating system calls, and remembers it.  One signal number    *)
(* stands for all those in _SIGNALS, whose slots do not depend on each     *)
(* other.  Handlers are numbered in the order they are entered; certbot    *)
(* makes a new one for every statement.  A registered function that raises *)
(* counts as one that returns: the code logs the error and goes on.        *)
(***************************************************************************)
EXTENDS Integers, Sequences, SequencesExt

CONSTANTS MaxHandlers,  \* bound: "with" statements entered
          MaxSignals,   \* bound: signals sent to the process
          Funcs,        \* functions registered with each handler
          Windows       \* may a signal fall between the call of __enter__ or
                        \* __exit__ and the statement that takes effect?

ASSUME BoundAssumption == {MaxHandlers, MaxSignals, Funcs} \subseteq Nat \ {0}
ASSUME WindowAssumption == Windows \in BOOLEAN

VARIABLES stack,      \* the statements the process is in, innermost last
          entered,    \* how many it has entered
          installed,  \* the handler the operating system calls
          prev,       \* prev_handlers of each
          executed,   \* body_executed of each
          received,   \* length of received_signals of each
          funcs,      \* functions left in each
          pc,         \* where the process is
          raised,     \* the exception that is on its way
          calls,      \* signals _call_signals has called
          sent,       \* signals sent so far
          cut         \* ghost: was a registered function cut short?

vars == <<stack, entered, installed, prev, executed, received, funcs, pc,
          raised, calls, sent, cut>>

Handler == 1..MaxHandlers
Default == 0               \* what the process had: it ends the process

Top == Last(stack)

\* Types of the variables; no handler is given a signal more often than one
\* was sent, although handlers call signals again.
TypeOK ==
  /\ stack \in Seq(Handler) /\ Len(stack) <= entered
  /\ entered \in 0..MaxHandlers
  /\ installed \in Handler \cup {Default}
  /\ prev \in [Handler -> Handler \cup {Default}]
  /\ executed \in [Handler -> BOOLEAN]
  /\ received \in [Handler -> 0..sent]
  /\ funcs \in [Handler -> 0..Funcs]
  /\ pc \in {"enter", "body", "exit", "cleanup", "function", "signals",
             "raising", "over"}
  /\ raised \in {"none", "error", "signal", "exit"}
  /\ calls \in 0..MaxSignals
  /\ sent \in 0..MaxSignals
  /\ cut \in BOOLEAN

Init ==
  /\ stack = <<>>
  /\ entered = 0
  /\ installed = Default
  /\ prev = [h \in Handler |-> Default]
  /\ executed = [h \in Handler |-> FALSE]
  /\ received = [h \in Handler |-> 0]
  /\ funcs = [h \in Handler |-> Funcs]
  /\ pc = "body"
  /\ raised = "none"
  /\ calls = 0
  /\ sent = 0
  /\ cut = FALSE

-----------------------------------------------------------------------------
(***************************************************************************)
(* The program and the context manager.                                    *)
(***************************************************************************)

\* __enter__: _set_signal_handlers.
Enter ==
  /\ pc = "body"
  /\ entered < MaxHandlers
  /\ entered' = entered + 1
  /\ stack' = Append(stack, entered')
  /\ prev' = [prev EXCEPT ![entered'] = installed]
  /\ installed' = entered'
  /\ pc' = "enter"
  /\ UNCHANGED <<executed, received, funcs, raised, calls, sent, cut>>

Begin == /\ pc = "enter"
         /\ pc' = "body"
         /\ UNCHANGED <<stack, entered, installed, prev, executed, received,
                        funcs, raised, calls, sent, cut>>

\* The body ends, or the program does.
BodyEnds ==
  /\ pc = "body"
  /\ pc' = IF stack = <<>> THEN "over" ELSE "exit"
  /\ UNCHANGED <<stack, entered, installed, prev, executed, received, funcs,
                 raised, calls, sent, cut>>

\* It raises an exception, or SystemExit.
Raise == /\ pc = "body"
         /\ raised' \in {"error", "exit"}
         /\ pc' = "raising"
         /\ UNCHANGED <<stack, entered, installed, prev, executed, received,
                        funcs, calls, sent, cut>>

\* The program catches its own errors where it can go on.
Catch == /\ pc = "raising"
         /\ raised = "error"
         /\ raised' = "none"
         /\ pc' = "body"
         /\ UNCHANGED <<stack, entered, installed, prev, executed, received,
                        funcs, calls, sent, cut>>

\* The exception reaches the end of the innermost "with", or of the program.
Propagate ==
  /\ pc = "raising"
  /\ pc' = IF stack = <<>> THEN "over" ELSE "exit"
  /\ UNCHANGED <<stack, entered, installed, prev, executed, received, funcs,
                 raised, calls, sent, cut>>

\* Mutant of Exit: body_executed is not set before the functions are called.
ExitUnmarked ==
  /\ pc = "exit"
  /\ IF raised \in {"none", "exit"}
     THEN /\ stack' = Front(stack)
          /\ executed' = [executed EXCEPT ![Top] = TRUE]
          /\ pc' = IF raised = "none" THEN "body" ELSE "raising"
     ELSE pc' = "cleanup" /\ UNCHANGED <<stack, executed>>
  /\ UNCHANGED <<entered, installed, prev, received, funcs, raised, calls,
                 sent, cut>>

\* __exit__: without an exception, and for SystemExit, it returns at once; the
\* handler stays installed.
Exit ==
  /\ pc = "exit"
  /\ executed' = [executed EXCEPT ![Top] = TRUE]
  /\ IF raised \in {"none", "exit"}
     THEN /\ stack' = Front(stack)
          /\ pc' = IF raised = "none" THEN "body" ELSE "raising"
     ELSE pc' = "cleanup" /\ UNCHANGED stack
  /\ UNCHANGED <<entered, installed, prev, received, funcs, raised, calls,
                 sent, cut>>

\* _call_registered: the last function of the list,
CallFunction ==
  /\ pc = "cleanup"
  /\ funcs[Top] > 0
  /\ pc' = "function"
  /\ UNCHANGED <<stack, entered, installed, prev, executed, received, funcs,
                 raised, calls, sent, cut>>

\* which is taken from the list once it has returned or raised.
PopFunction == /\ pc' = "cleanup"
               /\ funcs' = [funcs EXCEPT ![Top] = @ - 1]

FunctionReturns ==
  /\ pc = "function"
  /\ PopFunction
  /\ UNCHANGED <<stack, entered, installed, prev, executed, received, raised,
                 calls, sent, cut>>

\* Mutant of Reset: the functions that are left are not called.
ResetEarly ==
  /\ pc = "cleanup"
  /\ installed' = prev[Top]
  /\ calls' = 0
  /\ pc' = "signals"
  /\ UNCHANGED <<stack, entered, prev, executed, received, funcs, raised, sent,
                 cut>>

\* _reset_signal_handlers, when no function is left.
Reset ==
  /\ pc = "cleanup"
  /\ funcs[Top] = 0
  /\ installed' = prev[Top]
  /\ calls' = 0
  /\ pc' = "signals"
  /\ UNCHANGED <<stack, entered, prev, executed, received, funcs, raised, sent,
                 cut>>

\* Mutant of Leave: _call_signals may stop early.
LeaveEarly ==
  /\ pc = "signals"
  /\ stack' = Front(stack)
  /\ IF raised = "signal"
     THEN raised' = "none" /\ pc' = "body"
     ELSE pc' = "raising" /\ UNCHANGED raised
  /\ UNCHANGED <<entered, installed, prev, executed, received, funcs, calls,
                 sent, cut>>

\* The end of __exit__.  SignalExit goes no further: the handler that was there
\* before has been given the signal.
Leave ==
  /\ pc = "signals"
  /\ calls >= received[Top]
  /\ stack' = Front(stack)
  /\ IF raised = "signal"
     THEN raised' = "none" /\ pc' = "body"
     ELSE pc' = "raising" /\ UNCHANGED raised
  /\ UNCHANGED <<entered, installed, prev, executed, received, funcs, calls,
                 sent, cut>>

-----------------------------------------------------------------------------
(***************************************************************************)
(* Signals.                                                                *)
(***************************************************************************)

\* SignalExit is raised wherever the process is.  Out of __enter__ and __exit__
\* it ends the statement without more ado; a registered function that raises
\* it counts as done.
RaiseSignalExit ==
  \/ /\ pc \in {"body", "raising"}
     /\ pc' = "raising" /\ raised' = "signal"
     /\ UNCHANGED <<stack, funcs, cut>>
  \/ /\ pc \in {"enter", "exit", "cleanup", "signals"}
     /\ stack' = Front(stack)
     /\ pc' = "raising" /\ raised' = "signal"
     /\ UNCHANGED <<funcs, cut>>
  \/ /\ pc = "function"
     /\ PopFunction
     /\ cut' = TRUE
     /\ UNCHANGED <<stack, raised>>

\* The operating system calls the handler that is installed: _signal_handler
\* keeps the signal, and stops the body if its own is still running.
Deliver ==
  IF installed = Default
  THEN /\ pc' = "over"
       /\ UNCHANGED <<received, stack, raised, funcs, cut>>
  ELSE /\ received' = [received EXCEPT ![installed] = @ + 1]
       /\ IF executed[installed]
          THEN UNCHANGED <<pc, stack, raised, funcs, cut>>
          ELSE RaiseSignalExit

\* A signal from outside.
Signal ==
  /\ pc # "over"
  /\ pc \in {"enter", "exit"} => Windows
  /\ sent < MaxSignals
  /\ sent' = sent + 1
  /\ Deliver
  /\ UNCHANGED <<entered, installed, prev, executed, calls>>

\* _call_signals: os.kill for each signal received, now that the handlers
\* have been reset.
CallSignal ==
  /\ pc = "signals"
  /\ calls < received[Top]
  /\ calls' = calls + 1
  /\ Deliver
  /\ UNCHANGED <<entered, installed, prev, executed, sent>>

Unwinding == \/ Propagate \/ Exit \/ CallFunction \/ FunctionReturns
             \/ Reset \/ CallSignal \/ Leave

Next == Enter \/ Begin \/ BodyEnds \/ Raise \/ Catch \/ Unwinding \/ Signal

Spec == Init /\ [][Next]_vars

\* Registered functions return, and the interpreter goes on.
FairSpec == Spec /\ WF_vars(Unwinding)

-----------------------------------------------------------------------------
\* "Signals received while the registered functions are executing are deferred
\* until they finish": no signal, of however many, cuts a recovery short.
CleanupIsWhole == ~ cut

\* A "with" is left with functions uncalled only when its body ended or exited,
\* and with all of them called otherwise: "each registered cleanup function is
\* called exactly once", for every mixture of errors and signals in nested
\* statements.
CleansUp ==
  [][Len(stack') < Len(stack)
       => funcs'[Top] = (IF raised \in {"none", "exit"} THEN Funcs ELSE 0)]_vars

\* Statements that were left without calling their functions.
EndedWell ==
  {h \in 1..entered : funcs[h] > 0 /\ h \notin ToSet(stack)}

\* A signal that stops a body ends the process, after the functions of every
\* statement around it, as long as no statement has ended well before.
SignalEnds == (raised = "signal" /\ EndedWell = {}) ~> (pc = "over")

\* "if a signal is encountered, the cleanup functions are called followed by
\* the previously received signal handler": a signal that has stopped a body
\* ends the process in the end, or stops the body around it; the program does
\* not go on behind the statement as if its body had ended.
SignalIsAnswered == [][raised = "signal" => raised' # "none"]_vars
=============================================================================
