-------------------------- MODULE ErrorHandlerProofs --------------------------
(***************************************************************************)
(* Cleaning up is whole, for any number of nested statements, registered   *)
(* functions and signals, as long as no signal falls into the two windows  *)
(* of __enter__ and __exit__.                                              *)
(***************************************************************************)
EXTENDS ErrorHandler, TLAPS, SequenceTheorems

-----------------------------------------------------------------------------
(***************************************************************************)
(* The inductive invariant.                                                *)
(***************************************************************************)

\* Types, without the bound on received signals.
Types ==
  /\ stack \in Seq(Handler)
  /\ entered \in 0..MaxHandlers
  /\ installed \in 0..entered
  /\ prev \in [Handler -> 0..entered]
  /\ executed \in [Handler -> BOOLEAN]
  /\ funcs \in [Handler -> 0..Funcs]
  /\ pc \in {"enter", "body", "exit", "cleanup", "function", "signals",
             "raising", "over"}
  /\ raised \in {"none", "error", "signal", "exit"}

\* Statements inside others were entered later, and their handlers remember one
\* that was entered no earlier than the one around them.
Nested ==
  /\ \A n \in 1..Len(stack) : stack[n] <= entered
  /\ \A m, n \in 1..Len(stack) : m < n => stack[m] < stack[n]
  /\ \A n \in 1..Len(stack) - 1 : stack[n] <= prev[stack[n + 1]]

Within(h) == \E n \in 1..Len(stack) : stack[n] = h

\* A statement that has been left is marked as executed.
LeftIsExecuted == \A h \in 1..entered : Within(h) \/ executed[h]

Cleaning == pc \in {"cleanup", "function", "signals"}

\* Whoever is cleaning up is marked; and there is a statement to enter or leave.
TopIsMarked ==
  /\ pc \in {"enter", "exit"} \/ Cleaning => stack # <<>>
  /\ Cleaning => executed[Top] /\ raised \in {"error", "signal"}

\* The handler that is installed is the innermost one or a later one; once it
\* has been reset, this is so of the statement around it.
InstalledIsInner ==
  LET depth == IF pc = "signals" THEN Len(stack) - 1 ELSE Len(stack)
  IN  depth > 0 => stack[depth] <= installed

\* Functions are called by the innermost statement only, and before it resets.
FunctionsLeft ==
  /\ \A n \in 1..Len(stack) :
       n < Len(stack) \/ ~Cleaning => funcs[stack[n]] = Funcs
  /\ \A h \in Handler : h > entered => funcs[h] = Funcs
  /\ pc = "signals" => funcs[Top] = 0
  /\ pc = "function" => funcs[Top] > 0

IInv == /\ Types
        /\ Nested
        /\ LeftIsExecuted
        /\ TopIsMarked
        /\ pc # "over" => InstalledIsInner /\ FunctionsLeft
        /\ CleanupIsWhole

-----------------------------------------------------------------------------
(***************************************************************************)
(* The invariant is inductive.                                             *)
(***************************************************************************)

LEMMA Bounds == /\ MaxHandlers \in Nat /\ Funcs \in Nat /\ MaxSignals \in Nat
                /\ Handler \subseteq Nat
BY BoundAssumption DEF Handler

LEMMA InitInv == Init => IInv
<1> SUFFICES ASSUME Init PROVE IInv
  OBVIOUS
<1>1. stack = <<>> /\ Len(stack) = 0 /\ stack \in Seq(Handler)
  BY DEF Init
<1>2. MaxHandlers \in Nat /\ Funcs \in Nat
  BY BoundAssumption
<1>3. Types
  BY <1>1, <1>2 DEF Init, Types, Default
<1>4. QED
  BY <1>1, <1>3
     DEF Init, IInv, Nested, LeftIsExecuted, TopIsMarked, Cleaning, InstalledIsInner,
         FunctionsLeft, CleanupIsWhole

\* The statements a process is in, and what is left of them without the innermost.
LEMMA StackFacts ==
  ASSUME Types, stack # <<>>
  PROVE  /\ Len(stack) \in Nat \ {0}
         /\ Top = stack[Len(stack)] /\ Top \in Handler
         /\ \A n \in 1..Len(stack) : stack[n] \in Handler
         /\ Front(stack) \in Seq(Handler)
         /\ Len(Front(stack)) = Len(stack) - 1
         /\ \A n \in 1..Len(stack) - 1 : Front(stack)[n] = stack[n]
<1>1. Len(stack) \in Nat \ {0}
  BY DEF Types
<1>2. \A n \in 1..Len(stack) : stack[n] \in Handler
  BY DEF Types
<1>3. Front(stack) = SubSeq(stack, 1, Len(stack) - 1)
  BY DEF Front
<1>4. SubSeq(stack, 1, Len(stack) - 1) \in Seq(Handler)
  BY <1>1, <1>2 DEF Types
<1>5. /\ Len(SubSeq(stack, 1, Len(stack) - 1)) = Len(stack) - 1
      /\ \A n \in 1..Len(stack) - 1 : SubSeq(stack, 1, Len(stack) - 1)[n] = stack[n]
  <2>1. Len(stack) - 1 \in Int /\ \A n \in 1..Len(stack) - 1 : stack[n] \in Handler
    BY <1>1, <1>2
  <2>2. PICK n \in Int : n = Len(stack) - 1
    BY <2>1
  <2>3. /\ Len(SubSeq(stack, 1, n)) = IF 1 <= n THEN n - 1 + 1 ELSE 0
        /\ \A j \in 1..n - 1 + 1 : SubSeq(stack, 1, n)[j] = stack[1 + j - 1]
    BY <2>1, <2>2, SubSeqProperties
  <2>4. n \in Nat /\ n - 1 + 1 = n /\ \A j \in 1..n : 1 + j - 1 = j
    BY <1>1, <2>2
  <2>5. QED
    BY <2>2, <2>3, <2>4
<1>6. Top = stack[Len(stack)] /\ Top \in Handler
  BY <1>1, <1>2 DEF Top, Last
<1>7. QED
  BY <1>1, <1>2, <1>3, <1>4, <1>5, <1>6

\* When a signal would cut a function short, the handler it is delivered to has
\* seen its body end.
LEMMA InstalledIsExecuted ==
  ASSUME IInv, pc \in {"cleanup", "function"}, installed # Default
  PROVE  executed[installed]
<1>1. stack # <<>> /\ Cleaning /\ executed[Top]
  BY DEF IInv, TopIsMarked, Cleaning
<1>2. Top <= installed /\ installed \in 1..entered /\ Top \in Nat /\ entered \in Nat
  <2>1. Top \in Nat /\ Top = stack[Len(stack)] /\ Len(stack) > 0 /\ entered \in Nat
    <3>1. entered \in Nat
      BY Bounds DEF IInv, Types
    <3>2. Types /\ stack # <<>>
      BY <1>1 DEF IInv
    <3>3. Top = stack[Len(stack)] /\ Top \in Handler /\ Len(stack) \in Nat \ {0}
      BY <3>2, StackFacts
    <3>4. Top \in Nat
      BY <3>3, Bounds
    <3>5. QED
      BY <3>1, <3>3, <3>4
  <2>2. installed \in 1..entered
    BY <2>1 DEF IInv, Types, Default
  <2>3. Top <= installed
    BY <2>1 DEF IInv, InstalledIsInner
  <2>4. QED
    BY <2>1, <2>2, <2>3
<1>3. CASE installed = Top
  BY <1>1, <1>3
<1>4. CASE Top < installed
  <2>1. \A n \in 1..Len(stack) : stack[n] <= Top
    <3>1. \A n \in 1..Len(stack) : stack[n] \in Nat
      BY <1>1, StackFacts, Bounds DEF IInv
    <3>2. QED
      BY <1>1, <3>1, StackFacts DEF IInv, Nested
  <2>2. \A n \in 1..Len(stack) : stack[n] # installed
    BY <1>2, <1>4, <2>1
  <2>3. QED
    BY <1>2, <2>2 DEF IInv, LeftIsExecuted, Within
<1>5. QED
  BY <1>2, <1>3, <1>4

\* Leaving a statement that is marked, be it by return or by an exception.
LEMMA PopKeeps ==
  ASSUME IInv, pc # "over", stack # <<>>, stack' = Front(stack), executed'[Top],
         UNCHANGED <<entered, installed, prev, funcs, cut>>,
         \A h \in Handler : executed[h] => executed'[h],
         executed' \in [Handler -> BOOLEAN],
         pc' \in {"body", "raising"}, raised' \in {"none", "error", "signal", "exit"}
  PROVE  IInv'
<1>1. Types'
  BY StackFacts DEF IInv, Types
<1>2. Nested'
  BY StackFacts DEF IInv, Nested
<1>3. LeftIsExecuted'
  <2> SUFFICES ASSUME NEW h \in 1..entered
               PROVE  Within(h)' \/ executed'[h]
    BY DEF LeftIsExecuted
  <2>1. h \in Handler
    BY BoundAssumption DEF IInv, Types, Handler
  <2>2. CASE executed[h]
    BY <2>1, <2>2
  <2>3. CASE ~executed[h]
    <3>1. PICK n \in 1..Len(stack) : stack[n] = h
      BY <2>3 DEF IInv, LeftIsExecuted, Within
    <3>2. CASE n = Len(stack)
      BY <3>1, <3>2, StackFacts DEF IInv
    <3>3. CASE n < Len(stack)
      BY <3>1, <3>3, StackFacts DEF IInv, Within
    <3>4. QED
      BY <3>1, <3>2, <3>3
  <2>4. QED
    BY <2>2, <2>3
<1>4. TopIsMarked'
  BY DEF TopIsMarked, Cleaning
<1>5. InstalledIsInner'
  <2>1. Len(stack') = Len(stack) - 1 /\ Len(stack) \in Nat \ {0}
    BY StackFacts DEF IInv
  <2>2. SUFFICES ASSUME Len(stack) - 1 > 0
                 PROVE  stack[Len(stack) - 1] <= installed
    BY <2>1, StackFacts DEF InstalledIsInner, IInv
  <2>3. stack[Len(stack) - 1] < stack[Len(stack)]
    BY <2>1, <2>2 DEF IInv, Nested
  <2>4. CASE pc = "signals"
    BY <2>1, <2>2, <2>4 DEF IInv, InstalledIsInner
  <2>5. CASE pc # "signals"
    BY <2>1, <2>2, <2>3, <2>5, StackFacts DEF IInv, InstalledIsInner, Types, Handler
  <2>6. QED
    BY <2>4, <2>5
<1>6. FunctionsLeft'
  BY StackFacts DEF IInv, FunctionsLeft, Cleaning
<1>7. QED
  BY <1>1, <1>2, <1>3, <1>4, <1>5, <1>6 DEF IInv, CleanupIsWhole

\* Steps that change no statement, only where the process is.
LEMMA MoveStep ==
  ASSUME IInv, Begin \/ BodyEnds \/ Raise \/ Catch \/ Propagate
  PROVE  IInv'
<1>1. UNCHANGED <<stack, entered, installed, prev, executed, funcs, cut>>
  BY DEF Begin, BodyEnds, Raise, Catch, Propagate
<1>2. /\ pc \in {"enter", "body", "raising"}
      /\ pc' \in {"body", "raising", "exit", "over"}
      /\ raised' \in {"none", "error", "signal", "exit"}
      /\ pc' = "exit" => stack # <<>>
  BY DEF Begin, BodyEnds, Raise, Catch, Propagate, IInv, Types
<1>3. QED
  BY <1>1, <1>2
     DEF IInv, Types, Nested, LeftIsExecuted, Within, TopIsMarked, Cleaning,
         InstalledIsInner, FunctionsLeft, CleanupIsWhole, Top

\* __enter__: the new statement is the innermost, and its handler the latest.
LEMMA EnterStep ==
  ASSUME IInv, Enter
  PROVE  IInv'
<1> DEFINE new == entered + 1
<1>1. /\ entered \in Nat /\ new \in Handler /\ new \in Nat /\ entered' = new
      /\ stack' = Append(stack, new) /\ pc' = "enter"
      /\ UNCHANGED <<executed, received, funcs, raised, calls, sent, cut>>
  BY Bounds DEF IInv, Types, Enter, Handler
<1>2. /\ installed' = new
      /\ \A h \in Handler : prev'[h] = IF h = new THEN installed ELSE prev[h]
      /\ prev' \in [Handler -> 0..new]
  BY <1>1 DEF IInv, Types, Enter
<1>3. /\ stack \in Seq(Handler) /\ Len(stack) \in Nat
      /\ stack' \in Seq(Handler) /\ Len(stack') = Len(stack) + 1
      /\ stack'[Len(stack) + 1] = new
      /\ \A n \in 1..Len(stack) : stack'[n] = stack[n] /\ stack[n] \in Handler
  BY <1>1 DEF IInv, Types
<1>4. \A n \in 1..Len(stack) : stack[n] \in Nat /\ stack[n] < new
  <2>1. \A n \in 1..Len(stack) : stack[n] \in Nat /\ stack[n] <= entered
    BY <1>3, Bounds DEF IInv, Nested
  <2>2. QED
    BY <1>1, <2>1
<1>5. Types'
  BY <1>1, <1>2, <1>3, Bounds DEF IInv, Types, Enter
<1>6. Nested'
  <2>1. \A n \in 1..Len(stack') : stack'[n] <= entered'
    BY <1>1, <1>3, <1>4
  <2>2. \A m, n \in 1..Len(stack') : m < n => stack'[m] < stack'[n]
    BY <1>3, <1>4 DEF IInv, Nested
  <2>3. ASSUME NEW n \in 1..Len(stack') - 1
        PROVE  stack'[n] <= prev'[stack'[n + 1]]
    <3>1. CASE n < Len(stack)
      <4>1. n \in 1..Len(stack) /\ n + 1 \in 1..Len(stack) /\ n \in 1..Len(stack) - 1
        BY <1>3, <2>3, <3>1
      <4>2. stack[n] <= prev[stack[n + 1]]
        BY <4>1 DEF IInv, Nested
      <4>3. stack[n + 1] # new /\ stack[n + 1] \in Handler
        BY <1>3, <1>4, <4>1
      <4>4. QED
        BY <1>2, <1>3, <4>1, <4>2, <4>3
    <3>2. CASE n = Len(stack)
      <4>1. n \in 1..Len(stack) /\ Len(stack) > 0 /\ stack'[n] = stack[n]
        BY <1>3, <2>3, <3>2
      <4>2. stack[n] <= installed
        BY <3>2, <4>1 DEF IInv, InstalledIsInner, Enter
      <4>3. prev'[stack'[n + 1]] = installed
        BY <1>1, <1>2, <1>3, <3>2
      <4>4. QED
        BY <4>1, <4>2, <4>3
    <3>3. QED
      BY <1>3, <2>3, <3>1, <3>2
  <2>4. QED
    BY <2>1, <2>2, <2>3 DEF Nested
<1>7. LeftIsExecuted'
  <2>1. ASSUME NEW h \in 1..entered'
        PROVE  Within(h)' \/ executed'[h]
    <3>1. CASE h = new
      BY <1>3, <3>1 DEF Within
    <3>2. CASE h # new
      BY <1>1, <1>3, <2>1, <3>2 DEF IInv, LeftIsExecuted, Within
    <3>3. QED
      BY <3>1, <3>2
  <2>2. QED
    BY <2>1 DEF LeftIsExecuted
<1>8. TopIsMarked' /\ InstalledIsInner'
  <2>1. stack' # <<>>
    BY <1>3
  <2>2. QED
    BY <1>1, <1>2, <1>3, <2>1 DEF TopIsMarked, Cleaning, InstalledIsInner
<1>9. FunctionsLeft'
  <2>1. \A h \in Handler : h > entered => funcs[h] = Funcs
    BY DEF IInv, FunctionsLeft, Enter
  <2>2. \A n \in 1..Len(stack) : funcs[stack[n]] = Funcs
    BY DEF IInv, FunctionsLeft, Enter, Cleaning
  <2>3. funcs[new] = Funcs
    BY <1>1, <2>1
  <2>4. \A n \in 1..Len(stack') : funcs'[stack'[n]] = Funcs
    BY <1>1, <1>3, <2>2, <2>3
  <2>5. \A h \in Handler : h > entered' => funcs'[h] = Funcs
    BY <1>1, <2>1, Bounds
  <2>6. QED
    BY <1>1, <2>4, <2>5 DEF FunctionsLeft
<1>10. QED
  BY <1>1, <1>5, <1>6, <1>7, <1>8, <1>9 DEF IInv, CleanupIsWhole

\* __exit__.
LEMMA ExitStep ==
  ASSUME IInv, Exit
  PROVE  IInv'
<1>1. stack # <<>>
  BY DEF IInv, TopIsMarked, Exit
<1>2. /\ executed' \in [Handler -> BOOLEAN] /\ executed'[Top]
      /\ \A h \in Handler : executed[h] => executed'[h]
  BY <1>1, StackFacts DEF IInv, Types, Exit
<1>3. /\ UNCHANGED <<entered, installed, prev, funcs, raised, cut>>
      /\ raised' \in {"none", "error", "signal", "exit"}
  BY DEF Exit, IInv, Types
<1>4. CASE raised \in {"none", "exit"}
  <2>1. stack' = Front(stack) /\ pc' \in {"body", "raising"} /\ pc # "over"
    BY <1>4 DEF Exit
  <2>2. QED
    BY <1>1, <1>2, <1>3, <2>1, PopKeeps
<1>5. CASE raised \notin {"none", "exit"}
  <2>1. UNCHANGED stack /\ pc' = "cleanup" /\ pc = "exit"
    BY <1>5 DEF Exit
  <2>2. Types' /\ Nested'
    BY <1>2, <1>3, <2>1 DEF IInv, Types, Nested
  <2>3. LeftIsExecuted'
    BY <1>2, <1>3, <2>1, Bounds DEF IInv, Types, LeftIsExecuted, Within, Handler
  <2>4. TopIsMarked'
    BY <1>1, <1>2, <1>3, <1>5, <2>1 DEF IInv, Types, TopIsMarked, Cleaning, Top
  <2>5. InstalledIsInner' /\ FunctionsLeft'
    BY <1>3, <2>1 DEF IInv, InstalledIsInner, FunctionsLeft, Cleaning
  <2>6. QED
    BY <1>3, <2>2, <2>3, <2>4, <2>5 DEF IInv, CleanupIsWhole
<1>6. QED
  BY <1>4, <1>5

\* _call_registered and _reset_signal_handlers, without signals.
LEMMA CleanupStep ==
  ASSUME IInv, CallFunction \/ FunctionReturns \/ Reset
  PROVE  IInv'
<1>1. stack # <<>> /\ executed[Top] /\ raised \in {"error", "signal"} /\ pc \in {"cleanup", "function"}
  BY DEF IInv, TopIsMarked, Cleaning, CallFunction, FunctionReturns, Reset
<1>2. /\ Len(stack) \in Nat \ {0} /\ Top = stack[Len(stack)] /\ Top \in Handler
      /\ \A n \in 1..Len(stack) : stack[n] \in Handler
  BY <1>1, StackFacts DEF IInv
<1>3. /\ UNCHANGED <<stack, entered, prev, executed, raised, cut>>
      /\ pc' \in {"cleanup", "function", "signals"}
  BY DEF CallFunction, FunctionReturns, PopFunction, Reset
<1>4. \A n \in 1..Len(stack) : n < Len(stack) => funcs[stack[n]] = Funcs /\ stack[n] # Top
  <2>1. \A n \in 1..Len(stack) : n < Len(stack) => stack[n] < Top
    BY <1>2 DEF IInv, Nested
  <2>2. \A n \in 1..Len(stack) : stack[n] \in Nat
    BY <1>2, Bounds
  <2>3. QED
    BY <1>1, <1>2, <2>1, <2>2, Bounds DEF IInv, FunctionsLeft
<1>5. \A h \in Handler : h > entered => funcs[h] = Funcs /\ h # Top
  <2>1. Top <= entered /\ Top \in Nat /\ entered \in Nat
    <3>1. entered \in Nat /\ stack[Len(stack)] <= entered
      BY <1>2, Bounds DEF IInv, Types, Nested
    <3>2. QED
      BY <1>2, <3>1, Bounds
  <2>2. QED
    BY <1>1, <2>1, Bounds DEF IInv, FunctionsLeft
<1>6. LeftIsExecuted' /\ Nested' /\ TopIsMarked'
  BY <1>1, <1>3 DEF IInv, LeftIsExecuted, Within, Nested, TopIsMarked, Cleaning, Top
<1>7. CASE CallFunction
  <2>1. UNCHANGED <<installed, funcs>> /\ pc = "cleanup" /\ pc' = "function" /\ funcs[Top] > 0
    BY <1>7 DEF CallFunction
  <2>2. Types'
    BY <1>3, <2>1 DEF IInv, Types
  <2>3. InstalledIsInner'
    BY <1>3, <2>1 DEF IInv, InstalledIsInner
  <2>4. FunctionsLeft'
    BY <1>3, <1>4, <1>5, <2>1 DEF FunctionsLeft, Cleaning, Top
  <2>5. QED
    BY <1>3, <1>6, <2>2, <2>3, <2>4 DEF IInv, CleanupIsWhole
<1>8. CASE FunctionReturns
  <2>1. UNCHANGED installed /\ pc = "function" /\ pc' = "cleanup"
    BY <1>8 DEF FunctionReturns, PopFunction
  <2>2. funcs[Top] \in 1..Funcs
    BY <1>2, <2>1 DEF IInv, Types, FunctionsLeft
  <2>3. /\ funcs' \in [Handler -> 0..Funcs]
        /\ \A h \in Handler : h # Top => funcs'[h] = funcs[h]
    BY <1>2, <1>8, <2>2, Bounds DEF FunctionReturns, PopFunction, IInv, Types
  <2>4. Types'
    BY <1>3, <2>1, <2>3 DEF IInv, Types
  <2>5. InstalledIsInner'
    BY <1>3, <2>1 DEF IInv, InstalledIsInner
  <2>6. FunctionsLeft'
    BY <1>2, <1>3, <1>4, <1>5, <2>1, <2>3 DEF FunctionsLeft, Cleaning, Top
  <2>7. QED
    BY <1>3, <1>6, <2>4, <2>5, <2>6 DEF IInv, CleanupIsWhole
<1>9. CASE Reset
  <2>1. UNCHANGED funcs /\ installed' = prev[Top] /\ pc' = "signals" /\ funcs[Top] = 0
    BY <1>9 DEF Reset
  <2>2. Types'
    BY <1>2, <1>3, <2>1 DEF IInv, Types
  <2>3. InstalledIsInner'
    <3>1. SUFFICES ASSUME Len(stack) - 1 > 0
                   PROVE  stack[Len(stack) - 1] <= prev[Top]
      BY <1>3, <2>1 DEF InstalledIsInner
    <3>2. Len(stack) - 1 \in 1..Len(stack) - 1 /\ Len(stack) - 1 + 1 = Len(stack)
      BY <1>2, <3>1
    <3>3. QED
      BY <1>2, <3>2 DEF IInv, Nested
  <2>4. FunctionsLeft'
    BY <1>3, <1>4, <1>5, <2>1 DEF FunctionsLeft, Cleaning, Top
  <2>5. QED
    BY <1>3, <1>6, <2>2, <2>3, <2>4 DEF IInv, CleanupIsWhole
<1>10. QED
  BY <1>7, <1>8, <1>9

\* The end of __exit__.
LEMMA LeaveStep ==
  ASSUME IInv, Leave
  PROVE  IInv'
<1>1. stack # <<>> /\ executed[Top]
  BY DEF IInv, TopIsMarked, Cleaning, Leave
<1>2. /\ UNCHANGED <<entered, installed, prev, executed, funcs, cut>> /\ stack' = Front(stack)
      /\ pc # "over" /\ pc' \in {"body", "raising"}
      /\ raised' \in {"none", "error", "signal", "exit"}
  BY DEF Leave, IInv, Types
<1>3. executed' \in [Handler -> BOOLEAN] /\ \A h \in Handler : executed[h] => executed'[h]
  BY <1>2 DEF IInv, Types
<1>4. QED
  BY <1>1, <1>2, <1>3, PopKeeps

\* A signal is delivered outside the two windows.
LEMMA DeliverKeeps ==
  ASSUME IInv, Deliver, pc \notin {"enter", "exit", "over"},
         UNCHANGED <<entered, installed, prev, executed>>
  PROVE  IInv'
<1>1. CASE UNCHANGED <<stack, funcs, cut>> /\ pc' = "over" /\ raised' = raised
  BY <1>1
     DEF IInv, Types, Nested, LeftIsExecuted, Within, TopIsMarked, Cleaning, CleanupIsWhole
<1>2. CASE UNCHANGED <<pc, stack, raised, funcs, cut>>
  BY <1>2
     DEF IInv, Types, Nested, LeftIsExecuted, Within, TopIsMarked, Cleaning, Top,
         InstalledIsInner, FunctionsLeft, CleanupIsWhole
<1>3. CASE installed # Default /\ ~executed[installed] /\ RaiseSignalExit
  <2>1. pc \in {"body", "raising", "signals"}
    BY <1>3, InstalledIsExecuted DEF IInv, Types
  <2>2. CASE pc = "signals"
    <3>1. /\ UNCHANGED <<funcs, cut>> /\ stack' = Front(stack)
          /\ pc' = "raising" /\ raised' = "signal"
      BY <1>3, <2>2 DEF RaiseSignalExit
    <3>2. stack # <<>> /\ executed[Top]
      BY <2>2 DEF IInv, TopIsMarked, Cleaning
    <3>3. executed' \in [Handler -> BOOLEAN] /\ \A h \in Handler : executed[h] => executed'[h]
      BY DEF IInv, Types
    <3>4. QED
      BY <3>1, <3>2, <3>3, PopKeeps
  <2>3. CASE pc # "signals"
    <3>1. UNCHANGED <<stack, funcs, cut>> /\ pc' = "raising" /\ raised' = "signal"
      BY <1>3, <2>1, <2>3 DEF RaiseSignalExit
    <3>2. QED
      BY <2>1, <2>3, <3>1
         DEF IInv, Types, Nested, LeftIsExecuted, Within, TopIsMarked, Cleaning,
             InstalledIsInner, FunctionsLeft, CleanupIsWhole
  <2>4. QED
    BY <2>2, <2>3
<1>4. QED
  BY <1>1, <1>2, <1>3 DEF Deliver

LEMMA StepInv == Windows = FALSE /\ IInv /\ [Next]_vars => IInv'
<1> SUFFICES ASSUME Windows = FALSE, IInv, [Next]_vars
             PROVE  IInv'
  OBVIOUS
<1>1. CASE Enter
  BY <1>1, EnterStep
<1>2. CASE Begin \/ BodyEnds \/ Raise \/ Catch \/ Propagate
  BY <1>2, MoveStep
<1>3. CASE Exit
  BY <1>3, ExitStep
<1>4. CASE CallFunction \/ FunctionReturns \/ Reset
  BY <1>4, CleanupStep
<1>5. CASE CallSignal \/ Signal
  BY <1>5, DeliverKeeps DEF CallSignal, Signal
<1>6. CASE Leave
  BY <1>6, LeaveStep
<1>7. CASE UNCHANGED vars
  BY <1>7
     DEF vars, IInv, Types, Nested, LeftIsExecuted, Within, TopIsMarked, Cleaning, Top,
         InstalledIsInner, FunctionsLeft, CleanupIsWhole
<1>8. QED
  BY <1>1, <1>2, <1>3, <1>4, <1>5, <1>6, <1>7 DEF Next, Unwinding

\* Whichever statements, errors and signals there are, outside the two windows:
\* the statements the process is in are nested in the handlers it remembers, and
\* each of them still has its functions until it calls them.
THEOREM HandlersInvariant ==
  ASSUME Windows = FALSE
  PROVE  Spec => []IInv
<1>1. Init => IInv
  BY InitInv
<1>2. IInv /\ [Next]_vars => IInv'
  BY StepInv
<1>3. QED
  BY <1>1, <1>2, PTL DEF Spec

\* "Signals received while the registered functions are executing are deferred
\* until they finish", for any number of statements, functions and signals.
THEOREM WholeCleanup ==
  ASSUME Windows = FALSE
  PROVE  Spec => []CleanupIsWhole
<1>1. IInv => CleanupIsWhole
  BY DEF IInv
<1>2. QED
  BY <1>1, HandlersInvariant, PTL

\* A statement is left by three steps: by __exit__ at once, at the end of
\* __exit__, or by a signal that its own _call_signals has sent on.
LEMMA LeavingIsPopping ==
  ASSUME Windows = FALSE, IInv, Next, Len(stack') < Len(stack)
  PROVE  /\ UNCHANGED funcs
         /\ \/ pc = "exit" /\ raised \in {"none", "exit"}
            \/ pc = "signals"
<1>1. Len(stack) \in Nat /\ ~(Len(stack) < Len(stack)) /\ ~(Len(stack) + 1 < Len(stack))
  BY DEF IInv, Types
<1>2. CASE Enter
  <2>1. entered + 1 \in Handler /\ stack' = Append(stack, entered + 1)
    BY <1>2, Bounds DEF Enter, Handler, IInv, Types
  <2>2. Len(stack') = Len(stack) + 1
    BY <2>1 DEF IInv, Types
  <2>3. QED
    BY <1>1, <2>2
<1>3. CASE Begin \/ BodyEnds \/ Raise \/ Catch \/ Propagate \/ CallFunction
           \/ FunctionReturns \/ Reset
  BY <1>1, <1>3 DEF Begin, BodyEnds, Raise, Catch, Propagate, CallFunction,
                    FunctionReturns, Reset
<1>4. CASE Exit
  BY <1>1, <1>4 DEF Exit
<1>5. CASE Leave
  BY <1>5 DEF Leave
<1>6. CASE CallSignal \/ Signal
  <2>1. Deliver /\ pc \notin {"enter", "exit", "over"}
    BY <1>6 DEF CallSignal, Signal
  <2>2. installed # Default /\ ~executed[installed] /\ RaiseSignalExit
    BY <1>1, <2>1 DEF Deliver
  <2>3. pc = "signals"
    BY <1>1, <2>1, <2>2, InstalledIsExecuted DEF RaiseSignalExit, IInv, Types
  <2>4. QED
    BY <2>2, <2>3 DEF RaiseSignalExit
<1>7. QED
  BY <1>2, <1>3, <1>4, <1>5, <1>6 DEF Next, Unwinding

\* "each registered cleanup function is called exactly once": a statement is left
\* with all of its functions called after an error or a signal, and with none
\* called otherwise, for any nesting of statements.
THEOREM LeavesClean ==
  ASSUME Windows = FALSE
  PROVE  Spec => CleansUp
<1>1. ASSUME IInv, [Next]_vars
      PROVE  [Len(stack') < Len(stack)
                => funcs'[Top] = (IF raised \in {"none", "exit"} THEN Funcs ELSE 0)]_vars
  <2>1. SUFFICES ASSUME Next, Len(stack') < Len(stack)
                 PROVE  funcs'[Top] = (IF raised \in {"none", "exit"} THEN Funcs ELSE 0)
    BY <1>1
  <2>2. /\ UNCHANGED funcs
        /\ \/ pc = "exit" /\ raised \in {"none", "exit"}
           \/ pc = "signals"
    BY <1>1, <2>1, LeavingIsPopping
  <2>3. stack # <<>>
    BY <1>1, <2>2 DEF IInv, TopIsMarked, Cleaning
  <2>4. Len(stack) \in 1..Len(stack) /\ Top = stack[Len(stack)]
    BY <1>1, <2>3, StackFacts DEF IInv
  <2>5. CASE pc = "exit" /\ raised \in {"none", "exit"}
    BY <1>1, <2>2, <2>4, <2>5 DEF IInv, FunctionsLeft, Cleaning
  <2>6. CASE pc = "signals"
    BY <1>1, <2>2, <2>6 DEF IInv, FunctionsLeft, TopIsMarked, Cleaning
  <2>7. QED
    BY <2>2, <2>5, <2>6
<1>2. QED
  BY <1>1, HandlersInvariant, PTL DEF Spec, CleansUp
=============================================================================
