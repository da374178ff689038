--------------------------- MODULE ConnectProofs ---------------------------
(***************************************************************************)
(* What is awaited of asio, from the single operation to connect_to().     *)
(*                                                                         *)
(* AsyncOp keeps its promises for any number of coroutines and io threads: *)
(* one waker, no call into an awaiter that is gone, results that tell what *)
(* happened, and (liveness aside) the promise of Await.  All this holds    *)
(* for trees of tasks too: to asio and to the scope a tree is one          *)
(* coroutine, whose body is the frame that has control.  Then the frames,  *)
(* each of which has its place, the exceptions that pass through them, and *)
(* the order of connect_to().                                              *)
(***************************************************************************)
EXTENDS Connect, SequenceLemmas, FiniteSetTheorems, TLAPS

(* One waker, for one coroutine.                                           *)
Waker(t) ==
    IF at[t] \in {"new", "suspended"}
    THEN IF InAsio(t) THEN scheduled[t] = 0 ELSE scheduled[t] = 1
    ELSE ~InAsio(t) /\ scheduled[t] = 0

(* A guard is armed or firing only while its awaiter waits.                *)
GuardHeld(t) ==
    guard[t] = "armed" \/ scope[t] = "firing" => at[t] \in {"start", "suspended", "disarm"}

(* What the handler has written, ...                                       *)
Delivered(t) == op[t] = "over" /\ ec[t] = (IF outcome[t] = "value" THEN "none" ELSE outcome[t])

(* ... and what is there if there was no operation.                        *)
WasRefused(t) == op[t] = "none" /\ Requested(t) /\ ec[t] = Refusal(t)

(* Where the operation and ec_ are, by where the coroutine is.             *)
Progress(t) ==
    /\ at[t] = "new" => kind[t] = "none"
    /\ at[t] \in {"arm", "refused", "start", "suspended"} => kind[t] # "nap"
    /\ at[t] \in {"new", "ready", "arm", "start"} => op[t] = "none"
    /\ at[t] \in {"ready", "arm"} => ec[t] = "none"
    /\ at[t] = "refused" => WasRefused(t)
    /\ at[t] = "suspended" =>
           \/ WasRefused(t) \/ Delivered(t)
           \/ op[t] \in {"pending", "ready", "disarming", "delivering", "waking"}
    /\ op[t] = "waking" => ec[t] = (IF outcome[t] = "value" THEN "none" ELSE outcome[t])
    /\ op[t] \in {"ready", "disarming", "delivering", "waking", "over"} => outcome[t] # "none"
    /\ at[t] \in {"disarm", "read"} /\ kind[t] # "nap" => WasRefused(t) \/ Delivered(t)

Honest(t) ==
    at[t] \in {"body", "ended"} /\ kind[t] \notin {"none", "nap"} =>
        IF op[t] = "over" THEN result[t] = outcome[t]
                          ELSE Requested(t) /\ result[t] = Refusal(t)

TaskInv(t) == Waker(t) /\ GuardHeld(t) /\ Progress(t) /\ Honest(t)

IInv == TypeOK /\ \A t \in Tasks : TaskInv(t)

(* What a body may do, whatever operations it uses: programs that are more *)
(* than AsyncOp's are covered too. *)
AnyBody(t) == End(t) \/ \E k \in Operations : Begin(t, k)

AnyNext == \E t \in Tasks : Around(t) \/ AnyBody(t)

Kept(u) ==
    /\ at'[u] = at[u] /\ kind'[u] = kind[u] /\ guard'[u] = guard[u] /\ scope'[u] = scope[u]
    /\ op'[u] = op[u] /\ outcome'[u] = outcome[u] /\ ec'[u] = ec[u]
    /\ result'[u] = result[u] /\ scheduled'[u] = scheduled[u]

-----------------------------------------------------------------------------
LEMMA InitIInv == Init => IInv
  <1> SUFFICES ASSUME Init PROVE IInv
    OBVIOUS
  <1>1. TypeOK
    BY DEF Init, TypeOK
  <1>2. \A t \in Tasks : TaskInv(t)
    BY DEF Init, TaskInv, Waker, InAsio, GuardHeld, Progress, Honest, WasRefused, Delivered
  <1> QED
    BY <1>1, <1>2 DEF IInv

(* No step of one coroutine touches another.                               *)
LEMMA OthersKept ==
  ASSUME TypeOK, NEW t \in Tasks, Around(t) \/ AnyBody(t), NEW u \in Tasks, u # t
  PROVE  Kept(u)
  <1> USE DEF TypeOK, Kept, handler, Goes, OpIs, Schedule, Refuses, Disarmed
  <1>1. CASE Resume(t)
    BY <1>1 DEF Resume
  <1>2. CASE TestScope(t)
    BY <1>2 DEF TestScope
  <1>3. CASE Arm(t)
    BY <1>3 DEF Arm
  <1>4. CASE Refused(t) \/ Start(t) \/ Disarm(t) \/ Read(t) \/ End(t)
    BY <1>4 DEF Refused, Start, Disarm, Read, End
  <1>5. CASE Take(t) \/ HandlerDisarms(t) \/ Deliver(t) \/ HandlerWakes(t)
    BY <1>5 DEF Take, HandlerDisarms, Deliver, HandlerWakes
  <1>6. CASE Cancel(t)
    BY <1>6 DEF Cancel
  <1>7. CASE Emit(t)
    BY <1>7 DEF Emit, Emits
  <1>8. CASE \E how \in {"value", "failure", "aborted"} : Complete(t, how)
    BY <1>8 DEF Complete
  <1>9. CASE \E k \in Operations : Begin(t, k)
    BY <1>9 DEF Begin
  <1> QED
    BY <1>1, <1>2, <1>3, <1>4, <1>5, <1>6, <1>7, <1>8, <1>9
       DEF Around, AnyBody, AwaitStep, HandlerStep

LEMMA KeptTaskInv ==
  ASSUME NEW u \in Tasks, Kept(u), TaskInv(u)
  PROVE  TaskInv(u)'
  BY DEF Kept, TaskInv, Waker, InAsio, GuardHeld, Progress, Honest, WasRefused, Delivered,
         Requested, Refusal

-----------------------------------------------------------------------------
(* The coroutine's own steps.                                              *)
LEMMA AwaitStepKeeps ==
  ASSUME IInv, NEW t \in Tasks, AwaitStep(t)
  PROVE  TypeOK' /\ TaskInv(t)'
  <1> USE DEF TypeOK, handler, Goes, OpIs, Schedule, Refuses, Disarmed
  <1>0. TypeOK /\ TaskInv(t)
    BY DEF IInv
  <1> USE DEF TaskInv, Waker, InAsio, GuardHeld, Progress, Honest, WasRefused, Delivered,
              Requested, Refusal
  <1>1. CASE Resume(t)
    <2>1. TypeOK'
      BY <1>0, <1>1 DEF Resume
    <2>2. TaskInv(t)'
      BY <1>0, <1>1 DEF Resume
    <2> QED
      BY <2>1, <2>2
  <1>2. CASE TestScope(t)
    <2>1. TypeOK'
      BY <1>0, <1>2 DEF TestScope
    <2>2. TaskInv(t)'
      BY <1>0, <1>2 DEF TestScope
    <2> QED
      BY <2>1, <2>2
  <1>3. CASE Arm(t)
    <2>1. TypeOK'
      BY <1>0, <1>3 DEF Arm
    <2>2. TaskInv(t)'
      BY <1>0, <1>3 DEF Arm, ScopeFree, TooLate
    <2> QED
      BY <2>1, <2>2
  <1>4. CASE Refused(t)
    <2>1. TypeOK'
      BY <1>0, <1>4 DEF Refused
    <2>2. TaskInv(t)'
      BY <1>0, <1>4 DEF Refused
    <2> QED
      BY <2>1, <2>2
  <1>5. CASE Start(t)
    <2>1. TypeOK'
      BY <1>0, <1>5 DEF Start
    <2>2. TaskInv(t)'
      BY <1>0, <1>5 DEF Start
    <2> QED
      BY <2>1, <2>2
  <1>6. CASE Disarm(t)
    <2>1. TypeOK'
      BY <1>0, <1>6 DEF Disarm
    <2>2. TaskInv(t)'
      BY <1>0, <1>6 DEF Disarm, ScopeFree
    <2> QED
      BY <2>1, <2>2
  <1>7. CASE Read(t)
    <2>1. TypeOK'
      BY <1>0, <1>7 DEF Read, Answer
    <2>2. TaskInv(t)'
      BY <1>0, <1>7 DEF Read, Answer
    <2> QED
      BY <2>1, <2>2
  <1> QED
    BY <1>1, <1>2, <1>3, <1>4, <1>5, <1>6, <1>7 DEF AwaitStep

(* The steps of asio and of the io threads.                                *)
LEMMA AsioStepKeeps ==
  ASSUME IInv, NEW t \in Tasks,
         \/ Take(t) \/ HandlerStep(t)
         \/ \E how \in {"value", "failure", "aborted"} : Complete(t, how)
  PROVE  TypeOK' /\ TaskInv(t)'
  <1> USE DEF TypeOK, handler, Goes, OpIs, Schedule, Disarmed
  <1>0. TypeOK /\ TaskInv(t)
    BY DEF IInv
  <1> USE DEF TaskInv, Waker, InAsio, GuardHeld, Progress, Honest, WasRefused, Delivered,
              Requested, Refusal
  <1>1. CASE Take(t)
    <2>1. TypeOK'
      BY <1>0, <1>1 DEF Take
    <2>2. TaskInv(t)'
      BY <1>0, <1>1 DEF Take
    <2> QED
      BY <2>1, <2>2
  <1>2. CASE HandlerDisarms(t)
    <2>1. TypeOK'
      BY <1>0, <1>2 DEF HandlerDisarms
    <2>2. TaskInv(t)'
      BY <1>0, <1>2 DEF HandlerDisarms
    <2> QED
      BY <2>1, <2>2
  <1>3. CASE Deliver(t)
    <2>1. TypeOK'
      BY <1>0, <1>3 DEF Deliver
    <2>2. TaskInv(t)'
      BY <1>0, <1>3 DEF Deliver
    <2> QED
      BY <2>1, <2>2
  <1>4. CASE HandlerWakes(t)
    <2>1. TypeOK'
      BY <1>0, <1>4 DEF HandlerWakes
    <2>2. TaskInv(t)'
      BY <1>0, <1>4 DEF HandlerWakes
    <2> QED
      BY <2>1, <2>2
  <1>5. ASSUME NEW how \in {"value", "failure", "aborted"}, Complete(t, how)
        PROVE  TypeOK' /\ TaskInv(t)'
    <2>1. TypeOK'
      BY <1>0, <1>5 DEF Complete
    <2>2. TaskInv(t)'
      BY <1>0, <1>5 DEF Complete
    <2> QED
      BY <2>1, <2>2
  <1> QED
    BY <1>1, <1>2, <1>3, <1>4, <1>5 DEF HandlerStep

(* Cancellation, and what the body of the coroutine does.                  *)
LEMMA OtherStepKeeps ==
  ASSUME IInv, NEW t \in Tasks, Cancel(t) \/ Emit(t) \/ AnyBody(t)
  PROVE  TypeOK' /\ TaskInv(t)'
  <1> USE DEF TypeOK, handler, Goes, OpIs
  <1>0. TypeOK /\ TaskInv(t)
    BY DEF IInv
  <1> USE DEF TaskInv, Waker, InAsio, GuardHeld, Progress, Honest, WasRefused, Delivered,
              Requested, Refusal
  <1>1. CASE Cancel(t)
    <2>1. TypeOK'
      BY <1>0, <1>1 DEF Cancel
    <2>2. TaskInv(t)'
      BY <1>0, <1>1 DEF Cancel
    <2> QED
      BY <2>1, <2>2
  <1>2. CASE Emit(t)
    <2>1. TypeOK'
      BY <1>0, <1>2 DEF Emit, Emits
    <2>2. TaskInv(t)'
      BY <1>0, <1>2 DEF Emit, Emits
    <2> QED
      BY <2>1, <2>2
  <1>3. CASE End(t)
    <2>1. TypeOK'
      BY <1>0, <1>3 DEF End
    <2>2. TaskInv(t)'
      BY <1>0, <1>3 DEF End
    <2> QED
      BY <2>1, <2>2
  <1>4. ASSUME NEW k \in Operations, Begin(t, k)
        PROVE  TypeOK' /\ TaskInv(t)'
    <2>1. TypeOK'
      BY <1>0, <1>4 DEF Begin
    <2>2. TaskInv(t)'
      BY <1>0, <1>4 DEF Begin
    <2> QED
      BY <2>1, <2>2
  <1> QED
    BY <1>1, <1>2, <1>3, <1>4 DEF AnyBody

LEMMA AnyNextIInv == IInv /\ [AnyNext]_asyncVars => IInv'
  <1> SUFFICES ASSUME IInv, [AnyNext]_asyncVars PROVE IInv'
    OBVIOUS
  <1>1. ASSUME NEW t \in Tasks, Around(t) \/ AnyBody(t)
        PROVE  IInv'
    <2>1. TypeOK' /\ TaskInv(t)'
      BY <1>1, AwaitStepKeeps, AsioStepKeeps, OtherStepKeeps DEF Around
    <2>2. ASSUME NEW u \in Tasks, u # t PROVE TaskInv(u)'
      BY <1>1, <2>2, OthersKept, KeptTaskInv DEF IInv
    <2> QED
      BY <2>1, <2>2 DEF IInv
  <1>2. CASE UNCHANGED asyncVars
    <2>1. TypeOK'
      BY <1>2 DEF IInv, TypeOK, asyncVars, handler
    <2>2. \A u \in Tasks : Kept(u)
      BY <1>2 DEF Kept, asyncVars, handler
    <2> QED
      BY <2>1, <2>2, KeptTaskInv DEF IInv
  <1> QED
    BY <1>1, <1>2 DEF AnyNext

LEMMA NextIsAny == Next => AnyNext
  BY AsyncAssumption DEF Next, Body, AnyNext, AnyBody

LEMMA Invariance == Spec => []IInv
  BY InitIInv, AnyNextIInv, NextIsAny, PTL DEF Spec

-----------------------------------------------------------------------------
(* The variables keep their types; in particular no coroutine is ever in   *)
(* the run queue twice. *)
THEOREM TypeCorrect == Spec => []TypeOK
  <1>1. IInv => TypeOK
    BY DEF IInv
  <1> QED
    BY Invariance, <1>1, PTL

(* A suspended coroutine is woken by exactly one party, asio's handler or  *)
(* whoever refused it, and the callback of its guard never runs once its   *)
(* awaiter may be gone. *)
THEOREM SoundAwaiters == Spec => []AwaitersSound
  <1>1. IInv => AwaitersSound
    BY DEF IInv, TaskInv, Waker, GuardHeld, AwaitersSound, OneWaker, SignalAlive
  <1> QED
    BY Invariance, <1>1, PTL

(* What co_await gives is what asio said of an operation that was started, *)
(* and the answer to a cancellation otherwise. *)
THEOREM HonestResults == Spec => []HonestResult
  <1>1. IInv => HonestResult
    BY DEF IInv, TaskInv, Honest, HonestResult
  <1> QED
    BY Invariance, <1>1, PTL

-----------------------------------------------------------------------------
(* The refinement.  Phase(t) depends on at[t] and scheduled[t] only.       *)
LEMMA PhaseKept ==
  ASSUME NEW t \in Tasks, Kept(t)
  PROVE  Phase(t)' = Phase(t) /\ Requested(t)' = Requested(t)
  BY DEF Kept, Phase, Requested

(* A step of t that changes its phase moves it as Await does.              *)
LEMMA MovesPhase ==
  ASSUME IInv, IInv', NEW t \in Tasks, \A u \in Tasks \ {t} : Kept(u),
         scope'[t] = scope[t], NEW from, NEW to, Phase(t) = from, Phase(t)' = to
  PROVE  Promise!Moves(t, from, to)
  <1>1. \A u \in Tasks \ {t} : Phase(u)' = Phase(u)
    BY PhaseKept
  <1>2. {u \in Tasks : Requested(u)}' = {u \in Tasks : Requested(u)}
    BY DEF Kept, Requested
  <1>3. [u \in Tasks |-> Phase(u)]' = [[u \in Tasks |-> Phase(u)] EXCEPT ![t] = to]
    BY <1>1
  <1> QED
    BY <1>2, <1>3 DEF Promise!Moves

LEMMA AwaitStepMoves ==
  ASSUME IInv, NEW t \in Tasks, AwaitStep(t)
  PROVE  /\ scope'[t] = scope[t]
         /\ \/ Phase(t)' = Phase(t)
            \/ Phase(t) = "running" /\ Phase(t)' = "suspended"
            \/ Phase(t) = "suspended" /\ Phase(t)' = "woken"
            \/ Phase(t) = "woken" /\ Phase(t)' = "running"
  <1>0. TypeOK /\ Waker(t) /\ Progress(t)
    BY DEF IInv, TaskInv
  <1> USE <1>0 DEF TypeOK, Waker, InAsio, Progress, WasRefused, Phase, Goes, Schedule
  <1>1. CASE Resume(t)
    BY <1>1 DEF Resume
  <1>2. CASE TestScope(t)
    BY <1>2 DEF TestScope
  <1>3. CASE Arm(t)
    BY <1>3 DEF Arm
  <1>4. CASE Refused(t)
    BY <1>4 DEF Refused
  <1>5. CASE Start(t)
    BY <1>5 DEF Start
  <1>6. CASE Disarm(t)
    BY <1>6 DEF Disarm
  <1>7. CASE Read(t)
    BY <1>7 DEF Read
  <1> QED
    BY <1>1, <1>2, <1>3, <1>4, <1>5, <1>6, <1>7 DEF AwaitStep

LEMMA OtherStepMoves ==
  ASSUME IInv, NEW t \in Tasks,
         \/ Take(t) \/ HandlerStep(t) \/ AnyBody(t)
         \/ \E how \in {"value", "failure", "aborted"} : Complete(t, how)
  PROVE  /\ scope'[t] = scope[t]
         /\ \/ Phase(t)' = Phase(t)
            \/ Phase(t) = "suspended" /\ Phase(t)' = "woken"
            \/ Phase(t) = "running" /\ Phase(t)' = "ended"
  <1>0. TypeOK /\ Waker(t) /\ (at[t] = "new" => op[t] = "none")
    BY DEF IInv, TaskInv, Progress
  <1> USE <1>0 DEF TypeOK, Waker, InAsio, Phase, Goes, OpIs, Schedule
  <1>1. CASE Take(t) \/ HandlerDisarms(t) \/ Deliver(t)
    BY <1>1 DEF Take, HandlerDisarms, Deliver
  <1>2. CASE HandlerWakes(t)
    BY <1>2 DEF HandlerWakes
  <1>3. CASE \E how \in {"value", "failure", "aborted"} : Complete(t, how)
    BY <1>3 DEF Complete
  <1>4. CASE End(t)
    BY <1>4 DEF End
  <1>5. CASE \E k \in Operations : Begin(t, k)
    BY <1>5 DEF Begin
  <1> QED
    BY <1>1, <1>2, <1>3, <1>4, <1>5 DEF HandlerStep, AnyBody

LEMMA CancelMoves ==
  ASSUME IInv, NEW t \in Tasks, Cancel(t)
  PROVE  Promise!Cancel(t)
  <1>1. Requested(t)' /\ ~Requested(t) /\ UNCHANGED <<at, scheduled>>
    BY DEF IInv, TypeOK, Requested, Cancel
  <1>2. \A u \in Tasks : Phase(u)' = Phase(u)
    BY <1>1 DEF Phase
  <1>3. \A u \in Tasks \ {t} : Requested(u)' = Requested(u)
    BY DEF IInv, TypeOK, Requested, Cancel
  <1>4. {u \in Tasks : Requested(u)}' = {u \in Tasks : Requested(u)} \union {t}
    BY <1>1, <1>3
  <1>5. [u \in Tasks |-> Phase(u)]' = [u \in Tasks |-> Phase(u)]
    BY <1>2
  <1> QED
    BY <1>1, <1>4, <1>5 DEF Promise!Cancel

LEMMA EmitStutters ==
  ASSUME IInv, NEW t \in Tasks, Emit(t)
  PROVE  UNCHANGED Promise!vars
  <1>1. UNCHANGED <<at, scheduled>>
    BY DEF Emit
  <1>2. \A u \in Tasks : Phase(u)' = Phase(u)
    BY <1>1 DEF Phase
  <1>3. \A u \in Tasks : Requested(u)' = Requested(u)
    BY DEF IInv, TypeOK, Requested, Emit
  <1> QED
    BY <1>2, <1>3 DEF Promise!vars

(* Every execution is one that Await allows (which of its fairness holds   *)
(* is for TLC): a coroutine is suspended, woken once, and then runs.       *)
THEOREM KeepsPromise == Spec => Promise!Spec
  <1>1. Init => Promise!Init
    <2> SUFFICES ASSUME Init PROVE Promise!Init
      OBVIOUS
    <2>1. \A t \in Tasks : Phase(t) = "woken" /\ ~Requested(t)
      BY DEF Init, Phase, Requested
    <2> QED
      BY <2>1 DEF Promise!Init
  <1>2. IInv /\ IInv' /\ [AnyNext]_asyncVars => [Promise!Next]_(Promise!vars)
    <2> SUFFICES ASSUME IInv, IInv', [AnyNext]_asyncVars PROVE [Promise!Next]_(Promise!vars)
      OBVIOUS
    <2>1. ASSUME NEW t \in Tasks, Around(t) \/ AnyBody(t)
          PROVE  [Promise!Next]_(Promise!vars)
      <3>1. \A u \in Tasks \ {t} : Kept(u)
        BY <2>1, OthersKept DEF IInv
      <3>2. CASE Cancel(t)
        BY <3>2, CancelMoves DEF Promise!Next
      <3>3. CASE Emit(t)
        BY <3>3, EmitStutters
      <3>4. CASE ~Cancel(t) /\ ~Emit(t)
        <4>1. /\ scope'[t] = scope[t]
              /\ \/ Phase(t)' = Phase(t)
                 \/ Phase(t) = "running" /\ Phase(t)' = "suspended"
                 \/ Phase(t) = "suspended" /\ Phase(t)' = "woken"
                 \/ Phase(t) = "woken" /\ Phase(t)' = "running"
                 \/ Phase(t) = "running" /\ Phase(t)' = "ended"
          BY <2>1, <3>4, AwaitStepMoves, OtherStepMoves DEF Around
        <4>2. CASE Phase(t)' = Phase(t)
          <5>1. \A u \in Tasks : Phase(u)' = Phase(u) /\ Requested(u)' = Requested(u)
            BY <3>1, <4>1, <4>2, PhaseKept DEF Requested
          <5> QED
            BY <5>1 DEF Promise!vars
        <4>3. CASE Phase(t) = "running" /\ Phase(t)' = "suspended"
          BY <3>1, <4>1, <4>3, MovesPhase DEF Promise!Next, Promise!Suspend
        <4>4. CASE Phase(t) = "suspended" /\ Phase(t)' = "woken"
          BY <3>1, <4>1, <4>4, MovesPhase DEF Promise!Next, Promise!Wake
        <4>5. CASE Phase(t) = "woken" /\ Phase(t)' = "running"
          BY <3>1, <4>1, <4>5, MovesPhase DEF Promise!Next, Promise!Resume
        <4>6. CASE Phase(t) = "running" /\ Phase(t)' = "ended"
          BY <3>1, <4>1, <4>6, MovesPhase DEF Promise!Next, Promise!End
        <4> QED
          BY <4>1, <4>2, <4>3, <4>4, <4>5, <4>6
      <3> QED
        BY <3>2, <3>3, <3>4
    <2>2. CASE UNCHANGED asyncVars
      <3>1. \A u \in Tasks : Phase(u)' = Phase(u) /\ Requested(u)' = Requested(u)
        BY <2>2 DEF asyncVars, Phase, Requested
      <3> QED
        BY <3>1 DEF Promise!vars
    <2> QED
      BY <2>1, <2>2 DEF AnyNext
  <1> QED
    BY <1>1, <1>2, Invariance, NextIsAny, PTL DEF Spec, Promise!Spec

-----------------------------------------------------------------------------
(* Trees of tasks, connect_to() among them.                                *)

LEMMA FreeBodyIsBody ==
  ASSUME NEW t \in Tasks, FreeBody(t)
  PROVE  AnyBody(t) \/ UNCHANGED asyncVars
  <1>1. CASE \E c \in Children : Create(t, c) \/ Drop(t, c) \/ Call(t, c)
    BY <1>1 DEF Create, Drop, Call
  <1>2. CASE \E k \in Used : Leaf(t, k)
    BY <1>2, AsyncAssumption DEF Leaf, AnyBody
  <1>3. CASE Throw(t) \/ Return(t)
    BY <1>3 DEF Throw, Return, Leave
  <1> QED
    BY <1>1, <1>2, <1>3 DEF FreeBody

LEMMA ControlIsBody ==
  ASSUME NEW t \in Tasks, ControlStep(t)
  PROVE  AnyBody(t) \/ UNCHANGED asyncVars
  <1>1. CASE Catch(t) \/ Unhandled(t) \/ Transfer(t) \/ AwaitResume(t)
    BY <1>1 DEF Catch, Unhandled, Leave, Transfer, AwaitResume
  <1>2. CASE Finish(t)
    BY <1>2 DEF Finish, AnyBody
  <1> QED
    BY <1>1, <1>2 DEF ControlStep

LEMMA ConnectIsBody ==
  ASSUME NEW t \in Tasks, ConnectStep(t)
  PROVE  AnyBody(t) \/ UNCHANGED asyncVars
  <1>1. CASE Parse(t)
    BY <1>1 DEF Parse
  <1>2. CASE Refuse(t) \/ ReturnSocket(t) \/ ReturnError(t)
    BY <1>2 DEF Refuse, ReturnSocket, ReturnError, Returns, Return, Leave
  <1>3. CASE Resolve(t) \/ ConnectSocket(t)
    BY <1>3 DEF Resolve, ConnectSocket, AnyBody, Operations, Resolves, Connects
  <1> QED
    BY <1>1, <1>2, <1>3 DEF ConnectStep

LEMMA ClientStepIsAny == [ConnectNext]_allVars => [AnyNext]_asyncVars
  <1> SUFFICES ASSUME [ConnectNext]_allVars PROVE [AnyNext]_asyncVars
    OBVIOUS
  <1>1. ASSUME NEW t \in Tasks,
               \/ ConnectStep(t) \/ FreeBody(t) \/ ControlStep(t) \/ Around(t)
               \/ \E c \in Children : Create(t, c)
        PROVE  [AnyNext]_asyncVars
    <2>1. Around(t) \/ AnyBody(t) \/ UNCHANGED asyncVars
      BY <1>1, FreeBodyIsBody, ControlIsBody, ConnectIsBody DEF Create
    <2> QED
      BY <2>1 DEF AnyNext
  <1>2. CASE UNCHANGED allVars
    BY <1>2 DEF allVars
  <1> QED
    BY <1>1, <1>2 DEF ConnectNext, ProgramStep, CreateConnect, Awaiting

LEMMA ClientInvariance == ConnectSpec => []IInv
  <1>1. ConnectInit => IInv
    BY InitIInv DEF ConnectInit, TaskInit
  <1> QED
    BY <1>1, ClientStepIsAny, AnyNextIInv, PTL DEF ConnectSpec

(* The variables of AsyncOp keep their types in every tree of tasks.       *)
THEOREM ClientTypeCorrect == ConnectSpec => []TypeOK
  <1>1. IInv => TypeOK
    BY DEF IInv
  <1> QED
    BY ClientInvariance, <1>1, PTL

(* However tasks call, throw and return: whichever frame of a tree waits,  *)
(* one party will resume the tree, and none emits to an awaiter gone.      *)
THEOREM ClientAwaiters == ConnectSpec => []AwaitersSound
  <1>1. IInv => AwaitersSound
    BY DEF IInv, TaskInv, Waker, GuardHeld, AwaitersSound, OneWaker, SignalAlive
  <1> QED
    BY ClientInvariance, <1>1, PTL

(* Every frame is told what has happened to the operation it awaited.      *)
THEOREM ClientHonest == ConnectSpec => []HonestResult
  <1>1. IInv => HonestResult
    BY DEF IInv, TaskInv, Honest, HonestResult
  <1> QED
    BY ClientInvariance, <1>1, PTL

-----------------------------------------------------------------------------
(* Where no cancellation comes between arm() and the start of the          *)
(* operation.  An operation that waits in asio then has its guard armed    *)
(* until the scope is cancelled, so that the sweep finds it.               *)
Reached(t) ==
    /\ at[t] = "start" => guard[t] = "armed" /\ scope[t] = "live"
    /\ op[t] = "pending" /\ scope[t] = "live" => guard[t] = "armed"
    /\ op[t] = "pending" /\ scope[t] = "done" => kind[t] = "resolve"

ReachInv == \A t \in Tasks : Reached(t)

LEMMA StepReaches ==
  ASSUME ~CancelInSuspend, IInv, NEW t \in Tasks, Reached(t), Around(t) \/ AnyBody(t)
  PROVE  Reached(t)'
  <1> USE DEF TypeOK, handler, Goes, OpIs
  <1>0. TypeOK /\ Waker(t) /\ GuardHeld(t) /\ Progress(t)
    BY DEF IInv, TaskInv
  <1> USE DEF Reached
  <1>1. CASE Resume(t) \/ Refused(t) \/ Read(t) \/ End(t)
    BY <1>0, <1>1 DEF Resume, Refused, Read, End
  <1>2. CASE TestScope(t)
    BY <1>0, <1>2 DEF TestScope, Progress
  <1>3. CASE Arm(t)
    BY <1>0, <1>3 DEF Arm, ScopeFree, TooLate, Requested, Progress
  <1>4. CASE Start(t)
    BY <1>0, <1>4 DEF Start
  <1>5. CASE Disarm(t)
    BY <1>0, <1>5 DEF Disarm, Disarmed, Waker, InAsio
  <1>6. CASE Take(t) \/ HandlerDisarms(t) \/ Deliver(t) \/ HandlerWakes(t)
    BY <1>0, <1>6 DEF Take, HandlerDisarms, Deliver, HandlerWakes, Disarmed, Progress
  <1>7. CASE \E how \in {"value", "failure", "aborted"} : Complete(t, how)
    BY <1>0, <1>7 DEF Complete, Progress
  <1>8. CASE Cancel(t)
    BY <1>0, <1>8 DEF Cancel
  <1>9. CASE Emit(t)
    BY <1>0, <1>9 DEF Emit, Emits
  <1>10. CASE \E k \in Operations : Begin(t, k)
    BY <1>0, <1>10 DEF Begin
  <1> QED
    BY <1>1, <1>2, <1>3, <1>4, <1>5, <1>6, <1>7, <1>8, <1>9, <1>10
       DEF Around, AnyBody, AwaitStep, HandlerStep

LEMMA AnyNextReaches ==
  ASSUME ~CancelInSuspend, IInv, ReachInv, [AnyNext]_asyncVars
  PROVE  ReachInv'
  <1>1. ASSUME NEW u \in Tasks, Kept(u) PROVE Reached(u)'
    BY <1>1 DEF ReachInv, Reached, Kept
  <1>2. ASSUME NEW t \in Tasks, Around(t) \/ AnyBody(t)
        PROVE  ReachInv'
    <2>1. Reached(t)'
      BY <1>2, StepReaches DEF ReachInv
    <2>2. \A u \in Tasks \ {t} : Kept(u)
      BY <1>2, OthersKept DEF IInv
    <2> QED
      BY <1>1, <2>1, <2>2 DEF ReachInv
  <1>3. CASE UNCHANGED asyncVars
    <2>1. \A u \in Tasks : Kept(u)
      BY <1>3 DEF Kept, asyncVars, handler
    <2> QED
      BY <1>1, <2>1 DEF ReachInv
  <1> QED
    BY <1>2, <1>3 DEF AnyNext

LEMMA InitReaches == Init => ReachInv
  BY DEF Init, ReachInv, Reached

LEMMA ReachesOp == ReachInv => CancelReachesOp
  BY DEF ReachInv, Reached, CancelReachesOp

(* A cancellation that does not fall between arm() and the start of the    *)
(* operation leaves nothing waiting in asio that asio can abort.           *)
THEOREM CancellationReachesOp ==
  ASSUME ~CancelInSuspend
  PROVE  Spec => []CancelReachesOp
  BY InitReaches, AnyNextReaches, NextIsAny, ReachesOp, Invariance, PTL DEF Spec

(* The same of every operation that a tree of tasks awaits, connect_to()'s *)
(* included. *)
THEOREM ClientCancellationReachesOp ==
  ASSUME ~CancelInSuspend
  PROVE  ConnectSpec => []CancelReachesOp
  <1>1. ConnectInit => ReachInv
    BY InitReaches DEF ConnectInit, TaskInit
  <1> QED
    BY <1>1, AnyNextReaches, ClientStepIsAny, ReachesOp, ClientInvariance, PTL DEF ConnectSpec

-----------------------------------------------------------------------------
(* Paths.                                                                  *)

Links == [Frames -> Frames \union {NoFrame}]

LEMMA PathClosed ==
  ASSUME NEW next \in Links, NEW f \in Frames
  PROVE  /\ f \in Path(next, f)
         /\ Path(next, f) \subseteq Frames \union {NoFrame}
         /\ \A c \in Path(next, f) \intersect Children : next[c] \in Path(next, f)
  BY DEF Path, Links, Frames

LEMMA PathLeast ==
  ASSUME NEW next \in Links, NEW f \in Frames, NEW S \in SUBSET (Frames \union {NoFrame}),
         f \in S, \A c \in S \intersect Children : next[c] \in S
  PROVE  Path(next, f) \subseteq S
  BY DEF Path

LEMMA PathOfRoot ==
  ASSUME NEW next \in Links, NEW t \in Tasks
  PROVE  Path(next, t) = {t}
  <1>1. Path(next, t) \subseteq {t}
    <2> DEFINE S == {t}
    <2>1. S \in SUBSET (Frames \union {NoFrame}) /\ t \in S /\ t \in Frames
          /\ \A c \in S \intersect Children : next[c] \in S
      BY TaskAssumption DEF Frames
    <2> HIDE DEF S
    <2>2. Path(next, t) \subseteq S
      BY <2>1, PathLeast
    <2> QED
      BY <2>2 DEF S
  <1> QED
    BY <1>1, PathClosed DEF Frames

(* Links off the path do not matter.                                       *)
LEMMA PathKept ==
  ASSUME NEW next \in Links, NEW other \in Links, NEW f \in Frames,
         \A c \in Path(next, f) \intersect Children : other[c] = next[c]
  PROVE  Path(other, f) = Path(next, f)
  <1> DEFINE P == Path(next, f)  Q == Path(other, f)
  <1>1. f \in P /\ P \subseteq Frames \union {NoFrame}
        /\ \A c \in P \intersect Children : next[c] \in P
    BY PathClosed
  <1>2. Q \subseteq P
    <2>1. \A c \in P \intersect Children : other[c] \in P
      BY <1>1
    <2> QED
      BY <1>1, <2>1, PathLeast
  <1>3. f \in Q /\ Q \subseteq Frames \union {NoFrame}
        /\ \A c \in Q \intersect Children : other[c] \in Q
    BY PathClosed
  <1>4. P \subseteq Q
    <2>1. \A c \in Q \intersect Children : next[c] \in Q
      BY <1>2, <1>3
    <2> QED
      BY <1>3, <2>1, PathLeast
  <1> QED
    BY <1>2, <1>4

(* A call puts a frame in front.                                           *)
LEMMA PathPushed ==
  ASSUME NEW next \in Links, NEW f \in Frames, NEW c \in Children, c \notin Path(next, f)
  PROVE  Path([next EXCEPT ![c] = f], c) = {c} \union Path(next, f)
  <1> DEFINE P == Path(next, f)  other == [next EXCEPT ![c] = f]  Q == Path(other, c)
  <1>0. c \in Frames /\ other \in Links /\ other[c] = f
        /\ \A d \in Frames : d # c => other[d] = next[d]
    BY DEF Frames, Links
  <1>1. f \in P /\ P \subseteq Frames \union {NoFrame}
        /\ \A d \in P \intersect Children : next[d] \in P
    BY PathClosed
  <1>2. Q \subseteq {c} \union P
    <2> DEFINE S == {c} \union P
    <2>1. S \in SUBSET (Frames \union {NoFrame}) /\ c \in S
          /\ \A d \in S \intersect Children : other[d] \in S
      BY <1>0, <1>1 DEF Frames
    <2> HIDE DEF other, P, S
    <2>2. Q \subseteq S
      BY <1>0, <2>1, PathLeast
    <2> QED
      BY <2>2 DEF S
  <1>3. c \in Q /\ Q \subseteq Frames \union {NoFrame}
        /\ \A d \in Q \intersect Children : other[d] \in Q
    <2> HIDE DEF other
    <2> QED
      BY <1>0, PathClosed
  <1>4. P \subseteq Q \intersect P
    <2>1. f \in Q \intersect P
      BY <1>0, <1>1, <1>3
    <2>2. \A d \in (Q \intersect P) \intersect Children : next[d] \in Q \intersect P
      BY <1>0, <1>1, <1>3 DEF Frames
    <2> HIDE DEF Q
    <2> QED
      BY <1>1, <2>1, <2>2, PathLeast
  <1> QED
    BY <1>2, <1>3, <1>4

(* A return takes the front frame away, if no path leads back to it.       *)
LEMMA PathPopped ==
  ASSUME NEW next \in Links, NEW c \in Children, next[c] \in Frames,
         \A d \in Path(next, c) \intersect Children : next[d] # c
  PROVE  Path(next, next[c]) = Path(next, c) \ {c}
  <1> DEFINE P == Path(next, c)  Q == Path(next, next[c])
  <1>0. c \in Frames
    BY DEF Frames
  <1>1. c \in P /\ P \subseteq Frames \union {NoFrame}
        /\ \A d \in P \intersect Children : next[d] \in P
    BY <1>0, PathClosed
  <1>2. Q \subseteq P \ {c}
    <2>1. next[c] \in P \ {c}
      BY <1>1
    <2>2. \A d \in (P \ {c}) \intersect Children : next[d] \in P \ {c}
      BY <1>1
    <2> HIDE DEF P
    <2> QED
      BY <1>1, <2>1, <2>2, PathLeast
  <1>3. next[c] \in Q /\ Q \subseteq Frames \union {NoFrame}
        /\ \A d \in Q \intersect Children : next[d] \in Q
    BY PathClosed
  <1>4. P \subseteq Q \union {c}
    <2> DEFINE S == Q \union {c}
    <2>1. S \in SUBSET (Frames \union {NoFrame}) /\ c \in S
          /\ \A d \in S \intersect Children : next[d] \in S
      BY <1>0, <1>3
    <2> HIDE DEF Q, S
    <2>2. P \subseteq S
      BY <1>0, <2>1, PathLeast
    <2> QED
      BY <2>2 DEF S
  <1> QED
    BY <1>2, <1>4

-----------------------------------------------------------------------------
(* The inductive invariant of the frames.                                  *)

FrameTypes ==
    /\ frame \in [Frames -> {"none", "initial", "active", "final", "destroyed"}]
    /\ continuation \in Links
    /\ holder \in Links
    /\ owning \in Links
    /\ exception \subseteq Frames
    /\ top \in [Tasks -> Frames]
    /\ flow \in [Tasks -> {"body", "throwing", "final", "returning"}]
    /\ sent \in [Tasks -> {"nothing", "value", "exception"}]
    /\ uncaught \subseteq Tasks

Live(f) == frame[f] \in {"active", "final"}

(* The frames of a root that is alive, ...                                 *)
Tree(t) ==
    /\ t \in Chain(t)
    /\ Chain(t) \subseteq Frames
    /\ \A f \in Chain(t) : owning[f] = t /\ (frame[f] = "active" \/ f = top[t])
    /\ frame[top[t]] = IF flow[t] = "final" THEN "final" ELSE "active"

(* ... whose top is called by nobody but the frame that returns to it, ... *)
TopFree(t) ==
    \A c \in Children :
        Live(c) /\ continuation[c] = top[t] => flow[t] = "returning" /\ frame[c] = "final"

(* ... and of one that has ended.                                          *)
Gone(t) ==
    /\ frame[t] = "destroyed"
    /\ top[t] = t
    /\ sent[t] = IF t \in uncaught THEN "exception" ELSE "value"

RootInv(t) == owning[t] = t /\ IF t \in Alive THEN Tree(t) /\ TopFree(t) ELSE Gone(t)

(* A task is held while nobody awaits it and by no frame that has left its *)
(* body, and one that is awaited is on its way to or from its root; no two *)
(* are awaited by the same frame.                                          *)
Placed(c) ==
    /\ holder[c] # NoFrame => frame[c] = "initial"
    /\ frame[c] = "initial" =>
           frame[holder[c]] = "active" /\ \E t \in Alive : holder[c] \in Chain(t)
    /\ Live(c) =>
           \E t \in Alive : \/ c \in Chain(t)
                            \/ flow[t] = "returning" /\ continuation[c] = top[t]

OneCallee ==
    \A c, d \in Children : Live(c) /\ Live(d) /\ continuation[c] = continuation[d] => c = d

(* Where the exception of a root is.                                       *)
Raised(t) ==
    t \in uncaught <=>
        \/ flow[t] = "throwing"
        \/ flow[t] = "final" /\ top[t] \in exception
        \/ /\ flow[t] = "returning"
           /\ \E c \in Children : /\ frame[c] = "final" /\ continuation[c] = top[t]
                                  /\ c \in exception

Stored == \A f \in exception : frame[f] \in {"final", "destroyed"}

FrameInv ==
    /\ FrameTypes
    /\ \A t \in Tasks : RootInv(t)
    /\ \A c \in Children : Placed(c)
    /\ OneCallee
    /\ \A t \in Alive : Raised(t)
    /\ Stored

-----------------------------------------------------------------------------
LEMMA ChainClosed ==
  ASSUME FrameTypes, NEW t \in Tasks
  PROVE  /\ top[t] \in Frames /\ top[t] \in Chain(t)
         /\ Chain(t) \subseteq Frames \union {NoFrame}
         /\ \A c \in Chain(t) \intersect Children : continuation[c] \in Chain(t)
  <1>1. top[t] \in Frames /\ continuation \in Links
    BY DEF FrameTypes
  <1> QED
    BY <1>1, PathClosed DEF Chain

(* A frame that runs is the top of a chain.                                *)
LEMMA Running ==
  ASSUME FrameInv, NEW t \in Tasks, NEW what, Runs(t, what)
  PROVE  /\ t \in Alive /\ flow[t] = what /\ FrameTypes /\ Tree(t) /\ TopFree(t) /\ Raised(t)
         /\ top[t] \in Frames /\ top[t] \in Chain(t)
  <1>1. t \in Alive /\ flow[t] = what
    BY DEF Runs, Alive
  <1> QED
    BY <1>1, ChainClosed DEF FrameInv, RootInv

(* No chain has frames of another's.                                       *)
LEMMA ChainsApart ==
  ASSUME FrameInv, NEW t \in Alive, NEW u \in Alive, NEW f \in Chain(t), f \in Chain(u)
  PROVE  t = u
  BY DEF FrameInv, RootInv, Tree, Alive

LEMMA TopsApart ==
  ASSUME FrameInv, NEW t \in Tasks, NEW u \in Tasks, top[t] = top[u]
  PROVE  t = u
  <1>1. \A v \in Tasks : owning[v] = v /\ (v \in Alive => Tree(v)) /\ (v \notin Alive => top[v] = v)
    BY DEF FrameInv, RootInv, Gone
  <1>2. \A v \in Alive : owning[top[v]] = v
    BY <1>1, ChainClosed DEF Tree, Alive, FrameInv
  <1> QED
    BY <1>1, <1>2

LEMMA HeldByFrame ==
  ASSUME FrameInv, NEW c \in Children, frame[c] = "initial"
  PROVE  holder[c] \in Frames /\ frame[holder[c]] = "active"
  <1>1. ASSUME NEW u \in Alive PROVE Chain(u) \subseteq Frames
    BY DEF FrameInv, RootInv, Tree, Alive
  <1> QED
    BY <1>1 DEF FrameInv, Placed

-----------------------------------------------------------------------------
(* The steps of a body and of final_suspend() keep it.                     *)
LEMMA CreateDropKeeps ==
  ASSUME FrameInv, NEW t \in Tasks, NEW c \in Children, Create(t, c) \/ Drop(t, c)
  PROVE  FrameInv'
  <1>0. Runs(t, "body") /\ c \in Frames
    BY DEF Create, Drop, Frames
  <1>1. /\ t \in Alive /\ flow[t] = "body" /\ FrameTypes /\ Tree(t)
        /\ top[t] \in Frames /\ top[t] \in Chain(t)
    BY <1>0, Running
  <1>2. frame[c] \in {"none", "initial"}
    <2>1. c \in Locals(t) => holder[c] # NoFrame
      BY <1>1, TaskAssumption DEF Locals, Frames
    <2> QED
      BY <2>1 DEF Create, Drop, FrameInv, Placed
  <1>3. /\ UNCHANGED <<continuation, owning, exception, top, flow, sent, uncaught, Alive>>
        /\ FrameTypes'
        /\ \A f \in Frames : f # c => frame'[f] = frame[f] /\ holder'[f] = holder[f]
        /\ \/ frame'[c] = "initial" /\ holder'[c] = top[t]
           \/ frame'[c] = "destroyed" /\ holder'[c] = NoFrame
    <2>1. CASE Create(t, c)
      BY <1>0, <1>1, <2>1 DEF Create, control, asyncVars, Alive, FrameTypes, Links
    <2>2. CASE Drop(t, c)
      BY <1>0, <1>1, <2>2 DEF Drop, control, asyncVars, Alive, FrameTypes, Links
    <2> QED
      BY <2>1, <2>2
  <1>4. \A u \in Tasks : Chain(u)' = Chain(u)
    BY <1>3 DEF Chain
  <1>5. ASSUME NEW u \in Alive PROVE c \notin Chain(u) /\ top[u] \in Frames /\ top[u] # c
    <2>1. Tree(u) /\ u \in Tasks
      BY DEF FrameInv, RootInv, Alive
    <2> QED
      BY <1>1, <1>2, <2>1, ChainClosed DEF Tree
  <1>6. ASSUME NEW u \in Tasks PROVE RootInv(u)'
    <2>1. RootInv(u)
      BY DEF FrameInv
    <2>2. CASE u \in Alive
      <3>1. Tree(u)'
        BY <1>3, <1>4, <1>5, <2>1, <2>2 DEF RootInv, Tree
      <3>2. TopFree(u)'
        BY <1>3, <2>1, <2>2 DEF RootInv, TopFree, Live, Frames
      <3> QED
        BY <1>3, <2>1, <2>2, <3>1, <3>2 DEF RootInv
    <2>3. CASE u \notin Alive
      BY <1>2, <1>3, <2>1, <2>3 DEF RootInv, Gone, Frames
    <2> QED
      BY <2>2, <2>3
  <1>7. ASSUME NEW d \in Children PROVE Placed(d)'
    <2>1. Placed(d)
      BY DEF FrameInv
    <2>2. CASE d = c
      <3>1. frame[top[t]] = "active" /\ top[t] # c
        BY <1>1, <1>5 DEF Tree
      <3> QED
        BY <1>1, <1>3, <1>4, <2>2, <3>1 DEF Placed, Live, Alive
    <2>3. CASE d # c
      <3>1. holder'[d] = holder[d] /\ frame'[d] = frame[d]
        BY <1>3, <2>3 DEF Frames
      <3>2. \A u \in Alive : u \in Tasks /\ Chain(u)' = Chain(u)
        BY <1>4 DEF Alive
      <3> QED
        BY <1>2, <1>3, <2>1, <3>1, <3>2, HeldByFrame DEF Placed, Live
    <2> QED
      BY <2>2, <2>3
  <1>8. OneCallee'
    BY <1>3 DEF FrameInv, OneCallee, Live, Frames
  <1>9. \A u \in Alive : Raised(u)'
    BY <1>2, <1>3 DEF FrameInv, Raised, Frames
  <1>10. Stored'
    BY <1>2, <1>3 DEF FrameInv, Stored, FrameTypes
  <1> QED
    BY <1>3, <1>6, <1>7, <1>8, <1>9, <1>10 DEF FrameInv

(* A call: the chain of t grows by c, which nobody held but its caller.    *)
LEMMA CallKeeps ==
  ASSUME FrameInv, NEW t \in Tasks, NEW c \in Children, Call(t, c)
  PROVE  FrameInv'
  <1>0. Runs(t, "body") /\ c \in Frames
    BY DEF Call, Frames
  <1>1. /\ t \in Alive /\ flow[t] = "body" /\ FrameTypes /\ Tree(t) /\ TopFree(t)
        /\ top[t] \in Frames /\ top[t] \in Chain(t)
    BY <1>0, Running
  <1>2. frame[c] = "initial"
    <2>1. holder[c] # NoFrame
      BY <1>1, TaskAssumption DEF Locals, Call, Frames
    <2> QED
      BY <2>1 DEF FrameInv, Placed
  <1>3. /\ UNCHANGED <<exception, flow, sent, uncaught, Alive>>
        /\ continuation' = [continuation EXCEPT ![c] = top[t]]
        /\ FrameTypes'
        /\ \A f \in Frames : f # c => /\ frame'[f] = frame[f] /\ holder'[f] = holder[f]
                                      /\ owning'[f] = owning[f]
                                      /\ continuation'[f] = continuation[f]
        /\ frame'[c] = "active" /\ holder'[c] = NoFrame /\ owning'[c] = owning[top[t]]
        /\ continuation'[c] = top[t]
        /\ top'[t] = c /\ \A u \in Tasks : u # t => top'[u] = top[u]
    BY <1>0, <1>1 DEF Call, Inherited, asyncVars, Alive, FrameTypes, Links
  <1>4. ASSUME NEW u \in Alive PROVE c \notin Chain(u) /\ top[u] \in Frames /\ top[u] # c
    <2>1. Tree(u) /\ u \in Tasks
      BY DEF FrameInv, RootInv, Alive
    <2> QED
      BY <1>1, <1>2, <2>1, ChainClosed DEF Tree
  <1>5. Chain(t)' = {c} \union Chain(t)
    <2>1. Path([continuation EXCEPT ![c] = top[t]], c) = {c} \union Path(continuation, top[t])
      BY <1>1, <1>4, PathPushed DEF Chain, FrameTypes
    <2> QED
      BY <1>3, <2>1 DEF Chain
  <1>6. ASSUME NEW u \in Alive, u # t PROVE Chain(u)' = Chain(u)
    <2>1. continuation \in Links /\ continuation' \in Links /\ u \in Tasks /\ top'[u] = top[u]
      BY <1>1, <1>3, <1>6 DEF FrameTypes, Alive
    <2>2. \A d \in Chain(u) \intersect Children : continuation'[d] = continuation[d]
      BY <1>3, <1>4 DEF Frames
    <2> QED
      BY <1>4, <2>1, <2>2, PathKept DEF Chain
  <1>7. owning[top[t]] = t /\ frame[top[t]] = "active" /\ top[t] # c /\ c \notin Tasks
    BY <1>1, <1>4, TaskAssumption DEF Tree
  <1>8. ASSUME NEW u \in Tasks PROVE RootInv(u)'
    <2>0. u \in Frames /\ u # c
      BY <1>7 DEF Frames
    <2>1. RootInv(u)
      BY DEF FrameInv
    <2>2. CASE u = t
      <3>1. Tree(t)'
        BY <1>0, <1>1, <1>3, <1>4, <1>5, <1>7 DEF Tree
      <3>2. TopFree(t)'
        <4>1. ASSUME NEW d \in Children, Live(d), continuation[d] = c PROVE FALSE
          <5>1. PICK v \in Alive : \/ d \in Chain(v)
                                   \/ flow[v] = "returning" /\ continuation[d] = top[v]
            BY <4>1 DEF FrameInv, Placed
          <5>2. v \in Tasks
            BY DEF Alive
          <5>3. d \in Chain(v) => c \in Chain(v)
            BY <1>1, <4>1, <5>2, ChainClosed
          <5> QED
            BY <1>4, <4>1, <5>1, <5>3
        <4> QED
          BY <1>3, <1>7, <4>1 DEF TopFree, Live, Frames
      <3> QED
        BY <1>1, <1>3, <2>0, <2>1, <2>2, <3>1, <3>2 DEF RootInv
    <2>3. CASE u \in Alive /\ u # t
      <3>1. Tree(u)'
        BY <1>3, <1>4, <1>6, <2>1, <2>3 DEF RootInv, Tree
      <3>2. TopFree(u)'
        BY <1>3, <2>1, <2>3, TopsApart DEF RootInv, TopFree, Live, Frames
      <3> QED
        BY <1>3, <2>0, <2>1, <2>3, <3>1, <3>2 DEF RootInv
    <2>4. CASE u \notin Alive
      BY <1>1, <1>3, <2>0, <2>1, <2>4 DEF RootInv, Gone
    <2> QED
      BY <2>2, <2>3, <2>4
  <1>9. \A u \in Alive : u \in Tasks /\ Chain(u) \subseteq Chain(u)'
    BY <1>5, <1>6 DEF Alive
  <1>10. ASSUME NEW d \in Children PROVE Placed(d)'
    <2>1. Placed(d)
      BY DEF FrameInv
    <2>2. CASE d = c
      BY <1>1, <1>3, <1>5, <2>2 DEF Placed, Live
    <2>3. CASE d # c
      <3>1. holder'[d] = holder[d] /\ frame'[d] = frame[d] /\ continuation'[d] = continuation[d]
        BY <1>3, <2>3 DEF Frames
      <3>2. \A u \in Alive : flow[u] = "returning" => top'[u] = top[u]
        BY <1>1, <1>3, <1>9
      <3> QED
        BY <1>2, <1>3, <1>9, <2>1, <3>1, <3>2, HeldByFrame DEF Placed, Live
    <2> QED
      BY <2>2, <2>3
  <1>11. OneCallee'
    <2>1. \A d \in Children : Live(d) => continuation[d] # top[t]
      BY <1>1 DEF TopFree
    <2> QED
      BY <1>3, <2>1 DEF FrameInv, OneCallee, Live, Frames
  <1>12. \A u \in Alive : Raised(u)'
    BY <1>1, <1>2, <1>3, <1>9 DEF FrameInv, Raised, Frames
  <1>13. Stored'
    BY <1>2, <1>3 DEF FrameInv, Stored, FrameTypes
  <1> QED
    BY <1>3, <1>8, <1>10, <1>11, <1>12, <1>13 DEF FrameInv

LEMMA ThrowCatchKeeps ==
  ASSUME FrameInv, NEW t \in Tasks, Throw(t) \/ Catch(t)
  PROVE  FrameInv'
  <1>0. Runs(t, "body") \/ Runs(t, "throwing")
    BY DEF Throw, Catch
  <1>1. /\ t \in Alive /\ FrameTypes /\ flow[t] \in {"body", "throwing"}
    BY <1>0, Running
  <1>2. /\ UNCHANGED <<frame, continuation, holder, owning, exception, top, sent, Alive>>
        /\ FrameTypes'
        /\ \A u \in Tasks : u # t => flow'[u] = flow[u] /\ (u \in uncaught' <=> u \in uncaught)
        /\ \/ flow'[t] = "throwing" /\ t \in uncaught'
           \/ flow'[t] = "body" /\ t \notin uncaught'
    <2>1. CASE Throw(t)
      BY <1>0, <1>1, <2>1 DEF Throw, Flows, links, asyncVars, Alive, FrameTypes
    <2>2. CASE Catch(t)
      BY <1>0, <1>1, <2>2 DEF Catch, Flows, links, asyncVars, Alive, FrameTypes
    <2> QED
      BY <2>1, <2>2
  <1>3. \A u \in Tasks : Chain(u)' = Chain(u)
    BY <1>2 DEF Chain
  <1>4. ASSUME NEW u \in Tasks PROVE RootInv(u)'
    <2>1. RootInv(u)
      BY DEF FrameInv
    <2> QED
      BY <1>1, <1>2, <1>3, <2>1 DEF RootInv, Tree, TopFree, Gone, Live
  <1>5. ASSUME NEW d \in Children PROVE Placed(d)'
    <2>1. Placed(d) /\ \A u \in Alive : u \in Tasks /\ Chain(u)' = Chain(u)
      BY <1>3 DEF FrameInv, Alive
    <2> QED
      BY <1>1, <1>2, <2>1 DEF Placed, Live
  <1>6. \A u \in Alive : Raised(u)'
    BY <1>1, <1>2 DEF FrameInv, Raised, Alive
  <1> QED
    BY <1>2, <1>4, <1>5, <1>6 DEF FrameInv, OneCallee, Stored, Live

(* The top leaves its body and takes the tasks it holds with it.           *)
LEMMA LeaveKeeps ==
  ASSUME FrameInv, NEW t \in Tasks, Return(t) \/ Unhandled(t)
  PROVE  FrameInv'
  <1>0. /\ Leave(t)
        /\ \/ Runs(t, "body") /\ UNCHANGED exception
           \/ Runs(t, "throwing") /\ exception' = exception \union {top[t]}
    BY DEF Return, Unhandled
  <1>1. /\ t \in Alive /\ FrameTypes /\ Tree(t) /\ TopFree(t) /\ Raised(t)
        /\ top[t] \in Frames /\ top[t] \in Chain(t)
        /\ \/ flow[t] = "body" /\ UNCHANGED exception
           \/ flow[t] = "throwing" /\ exception' = exception \union {top[t]}
    BY <1>0, Running
  <1>2. /\ UNCHANGED <<continuation, owning, top, sent, uncaught, Alive>>
        /\ flow'[t] = "final" /\ \A u \in Tasks : u # t => flow'[u] = flow[u]
        /\ FrameTypes'
        /\ frame'[top[t]] = "final"
        /\ \A f \in Frames : f # top[t] /\ f \in Locals(t) =>
               frame'[f] = "destroyed" /\ holder'[f] = NoFrame
        /\ \A f \in Frames : f # top[t] /\ f \notin Locals(t) =>
               frame'[f] = frame[f] /\ holder'[f] = holder[f]
    BY <1>0, <1>1 DEF Leave, Flows, asyncVars, Alive, FrameTypes, Links
  <1>3. \A u \in Tasks : Chain(u)' = Chain(u)
    BY <1>2 DEF Chain
  <1>4. frame[top[t]] = "active"
    BY <1>1 DEF Tree
  <1>5. \A c \in Locals(t) : c \in Children /\ frame[c] = "initial" /\ holder[c] = top[t]
    <2>1. \A c \in Locals(t) : c \in Children /\ holder[c] = top[t] /\ holder[c] # NoFrame
      BY <1>1, TaskAssumption DEF Locals, Frames
    <2> QED
      BY <2>1 DEF FrameInv, Placed
  <1>6. ASSUME NEW u \in Tasks PROVE RootInv(u)'
    <2>1. RootInv(u) /\ u \in Frames /\ (u \in Alive => top[u] \in Frames)
      BY ChainClosed DEF FrameInv, Frames, Alive
    <2>2. CASE u = t
      <3>1. Tree(t)'
        <4>1. ASSUME NEW f \in Chain(t), f # top[t] PROVE frame'[f] = "active"
          BY <1>1, <1>2, <1>5, <4>1 DEF Tree
        <4> QED
          BY <1>1, <1>2, <1>3, <4>1 DEF Tree
      <3>2. TopFree(t)'
        <4>1. continuation[top[t]] = top[t] /\ top[t] \in Children => FALSE
          BY <1>1, <1>4 DEF TopFree, Live
        <4>2. \A d \in Children : Live(d) => continuation[d] # top[t]
          BY <1>1 DEF TopFree
        <4> QED
          BY <1>2, <1>4, <1>5, <4>1, <4>2 DEF TopFree, Live, Frames
      <3> QED
        BY <1>1, <1>2, <2>1, <2>2, <3>1, <3>2 DEF RootInv
    <2>3. CASE u \in Alive /\ u # t
      <3>1. top[t] \notin Chain(u) /\ top[u] # top[t]
        BY <1>1, <2>3, ChainsApart, TopsApart
      <3>2. Tree(u)'
        <4>1. ASSUME NEW f \in Chain(u) PROVE f \in Frames /\ frame'[f] = frame[f]
          <5>1. f \in Frames /\ frame[f] \in {"active", "final"}
            BY <2>1, <2>3, <4>1 DEF RootInv, Tree
          <5> QED
            BY <1>2, <1>5, <3>1, <4>1, <5>1
        <4>2. top[u] \in Chain(u)
          BY <1>1, ChainClosed
        <4> QED
          BY <1>2, <1>3, <2>1, <2>3, <4>1, <4>2 DEF RootInv, Tree
      <3>3. TopFree(u)'
        <4>1. ASSUME NEW d \in Children, Live(d)', continuation[d] = top[u]
              PROVE  flow[u] = "returning" /\ frame'[d] = "final"
          <5>1. d \notin Locals(t) \/ d = top[t]
            BY <1>2, <4>1 DEF Live, Frames
          <5>2. Live(d)
            BY <1>2, <1>4, <4>1, <5>1 DEF Live, Frames
          <5> QED
            BY <1>2, <2>1, <2>3, <4>1, <5>1, <5>2 DEF RootInv, TopFree, Frames
        <4> QED
          BY <1>2, <2>3, <4>1 DEF TopFree
      <3> QED
        BY <1>2, <2>1, <2>3, <3>2, <3>3 DEF RootInv
    <2>4. CASE u \notin Alive
      BY <1>1, <1>2, <1>4, <1>5, <2>1, <2>4 DEF RootInv, Gone
    <2> QED
      BY <2>2, <2>3, <2>4
  <1>7. ASSUME NEW d \in Children PROVE Placed(d)'
    <2>1. Placed(d) /\ d \in Frames /\ \A u \in Alive : u \in Tasks /\ Chain(u)' = Chain(u)
      BY <1>3 DEF FrameInv, Frames, Alive
    <2>2. CASE d = top[t]
      <3>1. d \in Chain(t)' /\ t \in Alive' /\ d \notin Locals(t) /\ holder[d] = NoFrame
        BY <1>1, <1>2, <1>3, <1>4, <1>5, <2>1, <2>2 DEF Placed, Alive
      <3>2. holder'[d] = holder[d]
        BY <1>0, <2>1, <3>1 DEF Leave
      <3> QED
        BY <1>2, <2>2, <3>1, <3>2 DEF Placed, Live
    <2>3. CASE d # top[t] /\ d \in Locals(t)
      BY <1>2, <2>1, <2>3 DEF Placed, Live
    <2>4. CASE d # top[t] /\ d \notin Locals(t)
      <3>1. frame'[d] = frame[d] /\ holder'[d] = holder[d] /\ UNCHANGED continuation
        BY <1>2, <2>1, <2>4
      <3>2. frame[d] = "initial" => frame'[holder[d]] = "active"
        <4>1. holder[d] # top[t]
          BY <2>4 DEF Locals
        <4> QED
          BY <1>2, <1>5, <4>1, HeldByFrame
      <3> QED
        BY <1>1, <1>2, <2>1, <3>1, <3>2 DEF Placed, Live
    <2> QED
      BY <2>2, <2>3, <2>4
  <1>8. OneCallee'
    <2>1. \A d \in Children : Live(d)' => Live(d)
      BY <1>2, <1>4 DEF Live, Frames
    <2> QED
      BY <1>2, <2>1 DEF FrameInv, OneCallee
  <1>9. ASSUME NEW u \in Alive PROVE Raised(u)'
    <2>1. Raised(u) /\ u \in Tasks /\ (u # t => top[u] # top[t])
      BY TopsApart DEF FrameInv, Alive
    <2>2. CASE u = t
      <3>1. top[t] \notin exception
        BY <1>4 DEF FrameInv, Stored
      <3> QED
        BY <1>1, <1>2, <2>1, <2>2, <3>1 DEF Raised
    <2>3. CASE u # t
      <3>1. top[u] \in exception' <=> top[u] \in exception
        BY <1>1, <2>1, <2>3
      <3>2. ASSUME NEW d \in Children, continuation[d] = top[u], flow[u] = "returning"
            PROVE  frame'[d] = "final" /\ d \in exception' <=> frame[d] = "final" /\ d \in exception
        <4>1. d # top[t]
          <5>1. d = top[t] => top[u] \in Chain(t)
            BY <1>1, <3>2, ChainClosed
          <5> QED
            BY <1>1, <2>1, <2>3, <5>1, ChainClosed, ChainsApart DEF FrameInv
        <4> QED
          BY <1>1, <1>2, <1>5, <4>1 DEF Frames
      <3> QED
        BY <1>2, <2>1, <2>3, <3>1, <3>2 DEF Raised
    <2> QED
      BY <2>2, <2>3
  <1>10. Stored'
    <2>1. \A f \in exception : f \in Frames /\ frame[f] \in {"final", "destroyed"}
      BY <1>1 DEF FrameInv, Stored, FrameTypes
    <2> QED
      BY <1>1, <1>2, <1>4, <1>5, <2>1 DEF Stored
  <1> QED
    BY <1>2, <1>6, <1>7, <1>8, <1>9, <1>10 DEF FrameInv

(* A return: the chain of t shrinks by its top.                            *)
LEMMA TransferKeeps ==
  ASSUME FrameInv, NEW t \in Tasks, Transfer(t)
  PROVE  FrameInv'
  <1> DEFINE c == top[t]
  <1>0. Runs(t, "final") /\ c # t
    BY DEF Transfer
  <1>1. /\ t \in Alive /\ FrameTypes /\ Tree(t) /\ TopFree(t) /\ Raised(t) /\ flow[t] = "final"
        /\ c \in Frames /\ c \in Chain(t) /\ owning[c] = t /\ frame[c] = "final"
    BY <1>0, Running DEF Tree
  <1>2. c \in Children
    <2>1. c \in Tasks => owning[c] = c
      BY DEF FrameInv, RootInv
    <2> QED
      BY <1>0, <1>1, <2>1 DEF Frames
  <1>3. continuation[c] \in Frames /\ continuation[c] \in Chain(t) /\ continuation[c] # c
    BY <1>1, <1>2, ChainClosed DEF Tree, TopFree, Live
  <1>4. /\ UNCHANGED <<frame, continuation, holder, owning, exception, sent, uncaught, Alive>>
        /\ FrameTypes'
        /\ flow'[t] = "returning" /\ top'[t] = continuation[c]
        /\ \A u \in Tasks : u # t => flow'[u] = flow[u] /\ top'[u] = top[u]
    BY <1>0, <1>1, <1>3 DEF Transfer, Flows, links, asyncVars, Alive, FrameTypes
  <1>5. \A d \in Children : Live(d) => continuation[d] # c
    BY <1>1 DEF TopFree
  <1>6. Chain(t)' = Chain(t) \ {c}
    <2>1. \A d \in Path(continuation, c) \intersect Children : continuation[d] # c
      <3>1. \A d \in Chain(t) : Live(d)
        BY <1>1 DEF Tree, Live
      <3> QED
        BY <1>5, <3>1 DEF Chain
    <2>2. Path(continuation, continuation[c]) = Path(continuation, c) \ {c}
      BY <1>1, <1>2, <1>3, <2>1, PathPopped DEF FrameTypes
    <2> QED
      BY <1>4, <2>2 DEF Chain
  <1>7. \A u \in Tasks : u # t => Chain(u)' = Chain(u)
    BY <1>4 DEF Chain
  <1>8. ASSUME NEW u \in Tasks PROVE RootInv(u)'
    <2>1. RootInv(u)
      BY DEF FrameInv
    <2>2. CASE u = t
      <3>1. Tree(t)'
        <4>1. t \in Chain(t)' /\ Chain(t)' \subseteq Frames
          BY <1>0, <1>1, <1>6 DEF Tree
        <4>2. ASSUME NEW f \in Chain(t)' PROVE owning[f] = t /\ frame[f] = "active"
          BY <1>1, <1>6 DEF Tree
        <4>3. continuation[c] \in Chain(t)'
          BY <1>3, <1>6
        <4> QED
          BY <1>4, <4>1, <4>2, <4>3 DEF Tree
      <3>2. TopFree(t)'
        <4>1. ASSUME NEW d \in Children, Live(d), continuation[d] = continuation[c]
              PROVE  d = c
          BY <1>1, <1>2, <4>1 DEF FrameInv, OneCallee, Live
        <4> QED
          BY <1>1, <1>4, <4>1 DEF TopFree, Live
      <3> QED
        BY <1>1, <1>4, <2>1, <2>2, <3>1, <3>2 DEF RootInv
    <2>3. CASE u \in Alive /\ u # t
      BY <1>4, <1>7, <2>1, <2>3 DEF RootInv, Tree, TopFree, Live
    <2>4. CASE u \notin Alive
      BY <1>1, <1>4, <2>1, <2>4 DEF RootInv, Gone
    <2> QED
      BY <2>2, <2>3, <2>4
  <1>9. ASSUME NEW d \in Children PROVE Placed(d)'
    <2>1. Placed(d) /\ \A u \in Alive : u \in Tasks
      BY DEF FrameInv, Alive
    <2>2. frame[d] = "initial" => \E u \in Alive : holder[d] \in Chain(u)'
      <3>1. frame[d] = "initial" => holder[d] # c
        BY <1>1, HeldByFrame
      <3> QED
        BY <1>6, <1>7, <2>1, <3>1 DEF Placed
    <2>3. Live(d) => \E u \in Alive : \/ d \in Chain(u)'
                                      \/ flow'[u] = "returning" /\ continuation[d] = top'[u]
      <3>1. CASE d = c
        BY <1>1, <1>4, <3>1
      <3>2. CASE d # c
        BY <1>1, <1>4, <1>6, <1>7, <2>1, <3>2 DEF Placed
      <3> QED
        BY <3>1, <3>2
    <2> QED
      BY <1>4, <2>1, <2>2, <2>3 DEF Placed, Live
  <1>10. ASSUME NEW u \in Alive PROVE Raised(u)'
    <2>1. Raised(u) /\ u \in Tasks
      BY DEF FrameInv, Alive
    <2>2. CASE u = t
      <3>1. \A d \in Children : frame[d] = "final" /\ continuation[d] = continuation[c] => d = c
        BY <1>1, <1>2 DEF FrameInv, OneCallee, Live
      <3> QED
        BY <1>1, <1>2, <1>4, <2>1, <2>2, <3>1 DEF Raised
    <2>3. CASE u # t
      BY <1>4, <2>1, <2>3 DEF Raised
    <2> QED
      BY <2>2, <2>3
  <1> QED
    BY <1>4, <1>8, <1>9, <1>10 DEF FrameInv, OneCallee, Stored, Live

LEMMA AwaitResumeKeeps ==
  ASSUME FrameInv, NEW t \in Tasks, AwaitResume(t)
  PROVE  FrameInv'
  <1>0. Runs(t, "returning")
    BY DEF AwaitResume
  <1>1. /\ t \in Alive /\ FrameTypes /\ Tree(t) /\ TopFree(t) /\ Raised(t)
        /\ flow[t] = "returning" /\ top[t] \in Frames /\ frame[top[t]] = "active"
    BY <1>0, Running DEF Tree
  <1>2. PICK c \in Children : /\ frame[c] = "final"
                              /\ continuation[c] = top[t]
                              /\ frame' = [frame EXCEPT ![c] = "destroyed"]
                              /\ Flows(t, Resumption(c))
    BY DEF AwaitResume
  <1>3. /\ UNCHANGED <<continuation, holder, owning, exception, top, sent, uncaught, Alive>>
        /\ FrameTypes'
        /\ flow'[t] = Resumption(c) /\ \A u \in Tasks : u # t => flow'[u] = flow[u]
        /\ frame'[c] = "destroyed" /\ \A f \in Frames : f # c => frame'[f] = frame[f]
    BY <1>1, <1>2
    DEF AwaitResume, Flows, Resumption, links, asyncVars, Alive, FrameTypes, Frames
  <1>4. \A u \in Tasks : Chain(u)' = Chain(u)
    BY <1>3 DEF Chain
  <1>5. ASSUME NEW u \in Alive PROVE c \notin Chain(u)
    <2>1. Tree(u) /\ u \in Tasks
      BY DEF FrameInv, RootInv, Alive
    <2>2. c \in Chain(u) => c = top[u] /\ flow[u] = "final" /\ top[t] \in Chain(u)
      BY <1>2, <2>1, ChainClosed DEF Tree, FrameInv
    <2> QED
      BY <1>1, <2>2, ChainClosed, ChainsApart DEF FrameInv
  <1>6. \A d \in Children : Live(d) /\ continuation[d] = top[t] => d = c
    BY <1>2 DEF FrameInv, OneCallee, Live
  <1>7. ASSUME NEW u \in Tasks PROVE RootInv(u)'
    <2>1. RootInv(u) /\ (u \in Alive => top[u] \in Chain(u)) /\ u # c /\ u \in Frames
      BY TaskAssumption, ChainClosed DEF FrameInv, Frames
    <2>2. CASE u \in Alive
      <3>1. Tree(u)'
        <4>1. flow'[u] = "final" <=> flow[u] = "final"
          BY <1>1, <1>3 DEF Resumption
        <4> QED
          BY <1>3, <1>4, <1>5, <2>1, <2>2, <4>1 DEF RootInv, Tree
      <3>2. TopFree(u)'
        BY <1>3, <1>6, <2>1, <2>2 DEF RootInv, TopFree, Live, Frames
      <3> QED
        BY <1>3, <2>1, <2>2, <3>1, <3>2 DEF RootInv
    <2>3. CASE u \notin Alive
      BY <1>3, <2>1, <2>3 DEF RootInv, Gone
    <2> QED
      BY <2>2, <2>3
  <1>8. ASSUME NEW d \in Children PROVE Placed(d)'
    <2>1. Placed(d) /\ d \in Frames /\ \A u \in Alive : u \in Tasks /\ Chain(u)' = Chain(u)
      BY <1>4 DEF FrameInv, Alive, Frames
    <2>2. CASE d = c
      BY <1>2, <1>3, <2>1, <2>2 DEF Placed, Live
    <2>3. CASE d # c
      <3>1. frame[d] = "initial" => frame'[holder[d]] = "active"
        BY <1>2, <1>3, HeldByFrame
      <3>2. Live(d) => \E u \in Alive : \/ d \in Chain(u)
                                        \/ flow'[u] = "returning" /\ continuation[d] = top[u]
        BY <1>1, <1>3, <1>6, <2>1, <2>3 DEF Placed
      <3> QED
        BY <1>3, <2>1, <2>3, <3>1, <3>2 DEF Placed, Live
    <2> QED
      BY <2>2, <2>3
  <1>9. OneCallee'
    BY <1>3 DEF FrameInv, OneCallee, Live, Frames
  <1>10. ASSUME NEW u \in Alive PROVE Raised(u)'
    <2>1. Raised(u) /\ u \in Tasks
      BY DEF FrameInv, Alive
    <2>2. CASE u = t
      <3>1. t \in uncaught <=> c \in exception
        BY <1>1, <1>2, <1>6 DEF Raised, Live
      <3> QED
        BY <1>3, <2>2, <3>1 DEF Raised, Resumption
    <2>3. CASE u # t
      <3>1. top[u] # top[t]
        BY <2>1, <2>3, TopsApart
      <3> QED
        BY <1>2, <1>3, <2>1, <2>3, <3>1 DEF Raised, Frames
    <2> QED
      BY <2>2, <2>3
  <1>11. Stored'
    BY <1>1, <1>3 DEF FrameInv, Stored, FrameTypes
  <1> QED
    BY <1>3, <1>7, <1>8, <1>9, <1>10, <1>11 DEF FrameInv

(* The root sends its outcome and ends.                                    *)
LEMMA FinishKeeps ==
  ASSUME FrameInv, IInv, NEW t \in Tasks, Finish(t)
  PROVE  FrameInv'
  <1>0. Runs(t, "final") /\ top[t] = t
    BY DEF Finish
  <1>1. /\ t \in Alive /\ FrameTypes /\ Tree(t) /\ TopFree(t) /\ Raised(t)
        /\ flow[t] = "final" /\ frame[t] = "final" /\ t \in Frames
    BY <1>0, Running DEF Tree
  <1>2. /\ UNCHANGED <<continuation, holder, owning, exception, top, flow, uncaught>>
        /\ Alive' = Alive \ {t}
        /\ FrameTypes'
        /\ sent'[t] = (IF t \in exception THEN "exception" ELSE "value")
        /\ \A u \in Tasks : u # t => sent'[u] = sent[u]
        /\ frame'[t] = "destroyed" /\ \A f \in Frames : f # t => frame'[f] = frame[f]
    <2>1. at \in [Tasks -> {"new", "body", "ready", "arm", "refused", "start", "suspended",
                            "disarm", "read", "ended"}]
      BY DEF IInv, TypeOK
    <2>2. Alive' = Alive \ {t}
      BY <2>1 DEF Finish, End, Goes, Alive
    <2> QED
      BY <1>1, <2>2 DEF Finish, links, FrameTypes
  <1>3. \A u \in Tasks : Chain(u)' = Chain(u)
    BY <1>2 DEF Chain
  <1>4. Chain(t) = {t}
    BY <1>0, <1>1, PathOfRoot DEF Chain, FrameTypes
  <1>5. ASSUME NEW u \in Tasks PROVE RootInv(u)'
    <2>1. RootInv(u) /\ u \in Frames
      BY DEF FrameInv, Frames
    <2>2. CASE u = t
      <3>1. t \in uncaught <=> t \in exception
        BY <1>0, <1>1 DEF Raised
      <3> QED
        BY <1>0, <1>2, <2>1, <2>2, <3>1 DEF RootInv, Gone
    <2>3. CASE u \in Alive /\ u # t
      <3>1. t \notin Chain(u) /\ top[u] \in Chain(u)
        BY <1>1, <1>4, <2>3, ChainsApart, ChainClosed
      <3>2. Tree(u)'
        BY <1>2, <1>3, <2>1, <2>3, <3>1 DEF RootInv, Tree
      <3>3. TopFree(u)'
        <4>1. \A d \in Children : d \in Frames /\ d # t
          BY TaskAssumption DEF Frames
        <4> QED
          BY <1>2, <2>1, <2>3, <4>1 DEF RootInv, TopFree, Live
      <3> QED
        BY <1>2, <2>1, <2>3, <3>2, <3>3 DEF RootInv
    <2>4. CASE u \notin Alive
      BY <1>1, <1>2, <2>1, <2>4 DEF RootInv, Gone
    <2> QED
      BY <2>2, <2>3, <2>4
  <1>6. ASSUME NEW d \in Children PROVE Placed(d)'
    <2>1. Placed(d) /\ d \in Frames /\ d # t /\ \A u \in Alive : u \in Tasks /\ Chain(u)' = Chain(u)
      BY <1>3, TaskAssumption DEF FrameInv, Alive, Frames
    <2>2. frame[d] = "initial" =>
              frame'[holder[d]] = "active" /\ \E u \in Alive \ {t} : holder[d] \in Chain(u)
      BY <1>1, <1>2, <1>4, <2>1, HeldByFrame DEF Placed
    <2>3. Live(d) =>
              \E u \in Alive \ {t} : \/ d \in Chain(u)
                                     \/ flow[u] = "returning" /\ continuation[d] = top[u]
      BY <1>1, <1>4, <2>1 DEF Placed
    <2> QED
      BY <1>2, <2>1, <2>2, <2>3 DEF Placed, Live
  <1>7. OneCallee' /\ Stored'
    <2>1. \A d \in Children : d \in Frames /\ d # t
      BY TaskAssumption DEF Frames
    <2> QED
      BY <1>1, <1>2, <2>1 DEF FrameInv, OneCallee, Live, Stored, FrameTypes
  <1>8. ASSUME NEW u \in Alive \ {t} PROVE Raised(u)'
    <2>1. Raised(u) /\ \A d \in Children : d \in Frames /\ d # t
      BY TaskAssumption DEF FrameInv, Frames
    <2> QED
      BY <1>2, <2>1 DEF Raised
  <1> QED
    BY <1>2, <1>5, <1>6, <1>7, <1>8 DEF FrameInv

(* Everything else moves no frame: leaves, and what happens around them.   *)
LEMMA StillKeeps ==
  ASSUME FrameInv, UNCHANGED <<frame, links, exception, control, Alive>>
  PROVE  FrameInv'
  <1>0. UNCHANGED <<frame, continuation, holder, owning, exception, top, flow, sent, uncaught, Alive>>
    BY DEF links, control
  <1>1. \A u \in Tasks : Chain(u)' = Chain(u)
    BY <1>0 DEF Chain
  <1>2. \A u \in Alive : Chain(u)' = Chain(u)
    BY <1>1 DEF Alive
  <1>3. ASSUME NEW u \in Tasks PROVE RootInv(u)'
    BY <1>0, <1>1 DEF FrameInv, RootInv, Tree, TopFree, Gone, Live
  <1>4. ASSUME NEW c \in Children PROVE Placed(c)'
    BY <1>0, <1>2 DEF FrameInv, Placed, Live
  <1>5. FrameTypes' /\ OneCallee' /\ Stored' /\ \A u \in Alive' : Raised(u)'
    BY <1>0 DEF FrameInv, FrameTypes, OneCallee, Stored, Raised, Live
  <1> QED
    BY <1>3, <1>4, <1>5 DEF FrameInv

LEMMA AroundAlive ==
  ASSUME IInv, NEW t \in Tasks, Around(t) \/ \E k \in Operations : Begin(t, k)
  PROVE  Alive' = Alive
  <1>1. ASSUME NEW u \in Tasks, u # t PROVE at'[u] = at[u]
    BY <1>1, OthersKept DEF IInv, AnyBody, Kept
  <1>2. (at'[t] = "ended") <=> (at[t] = "ended")
    <2> USE DEF TypeOK, Goes
    <2>0. TypeOK
      BY DEF IInv
    <2>1. CASE AwaitStep(t)
      BY <2>0, <2>1 DEF AwaitStep, Resume, TestScope, Arm, Refused, Start, Disarm, Read
    <2>2. CASE \/ Take(t) \/ HandlerStep(t) \/ Cancel(t) \/ Emit(t)
               \/ \E how \in {"value", "failure", "aborted"} : Complete(t, how)
      BY <2>2
      DEF Take, HandlerStep, HandlerDisarms, Deliver, HandlerWakes, Cancel, Emit, Complete
    <2>3. CASE \E k \in Operations : Begin(t, k)
      BY <2>0, <2>3 DEF Begin
    <2> QED
      BY <2>1, <2>2, <2>3 DEF Around
  <1> QED
    BY <1>1, <1>2 DEF Alive

LEMMA FrameInit == ConnectInit => FrameInv
  <1> SUFFICES ASSUME ConnectInit PROVE FrameInv
    OBVIOUS
  <1> USE DEF ConnectInit, TaskInit
  <1>1. FrameTypes
    BY TaskAssumption DEF FrameTypes, Frames, Links
  <1>2. Alive = Tasks
    BY DEF Init, Alive
  <1>3. ASSUME NEW t \in Tasks PROVE RootInv(t)
    <2>1. Chain(t) = {t}
      BY <1>1, PathOfRoot DEF Chain, FrameTypes
    <2>2. Tree(t)
      BY <2>1 DEF Tree, Frames
    <2>3. TopFree(t)
      BY TaskAssumption DEF TopFree, Live, Frames
    <2> QED
      BY <1>2, <2>2, <2>3 DEF RootInv, Frames
  <1>4. \A c \in Children : Placed(c)
    BY TaskAssumption DEF Placed, Live, Frames
  <1>5. OneCallee /\ Stored /\ \A t \in Alive : Raised(t)
    BY <1>2, TaskAssumption DEF OneCallee, Live, Frames, Stored, Raised
  <1> QED
    BY <1>1, <1>3, <1>4, <1>5 DEF FrameInv

LEMMA FreeBodyKeeps ==
  ASSUME FrameInv, IInv, NEW t \in Tasks, FreeBody(t)
  PROVE  FrameInv'
  <1>1. CASE \E c \in Children : Create(t, c) \/ Drop(t, c)
    BY <1>1, CreateDropKeeps
  <1>2. CASE \E c \in Children : Call(t, c)
    BY <1>2, CallKeeps
  <1>3. CASE \E k \in Used : Leaf(t, k)
    <2>1. Alive' = Alive /\ UNCHANGED <<frame, links, exception, control>>
      BY <1>3, AroundAlive, AsyncAssumption DEF Leaf
    <2> QED
      BY <2>1, StillKeeps
  <1>4. CASE Throw(t)
    BY <1>4, ThrowCatchKeeps
  <1>5. CASE Return(t)
    BY <1>5, LeaveKeeps
  <1> QED
    BY <1>1, <1>2, <1>3, <1>4, <1>5 DEF FreeBody

LEMMA ControlKeeps ==
  ASSUME FrameInv, IInv, NEW t \in Tasks, ControlStep(t)
  PROVE  FrameInv'
  BY ThrowCatchKeeps, LeaveKeeps, TransferKeeps, AwaitResumeKeeps, FinishKeeps DEF ControlStep

LEMMA ConnectKeeps ==
  ASSUME FrameInv, IInv, NEW t \in Tasks, ConnectStep(t)
  PROVE  FrameInv'
  <1>1. CASE Parse(t)
    <2>1. UNCHANGED <<frame, links, exception, control, Alive>>
      BY <1>1 DEF Parse, taskVars, asyncVars, Alive
    <2> QED
      BY <2>1, StillKeeps
  <1>2. CASE Refuse(t) \/ ReturnSocket(t) \/ ReturnError(t)
    BY <1>2, LeaveKeeps DEF Refuse, ReturnSocket, ReturnError, Returns
  <1>3. CASE Resolve(t) \/ ConnectSocket(t)
    <2>1. UNCHANGED taskVars /\ \E k \in Operations : Begin(t, k)
      BY <1>3 DEF Resolve, ConnectSocket, Operations, Resolves, Connects
    <2>2. Alive' = Alive
      BY <2>1, AroundAlive
    <2> QED
      BY <2>1, <2>2, StillKeeps DEF taskVars
  <1> QED
    BY <1>1, <1>2, <1>3 DEF ConnectStep

LEMMA FrameNext == FrameInv /\ IInv /\ [ConnectNext]_allVars => FrameInv'
  <1> SUFFICES ASSUME FrameInv, IInv, [ConnectNext]_allVars PROVE FrameInv'
    OBVIOUS
  <1>1. ASSUME NEW t \in Tasks, ConnectStep(t) PROVE FrameInv'
    BY <1>1, ConnectKeeps
  <1>2. ASSUME NEW t \in Tasks, ProgramStep(t) PROVE FrameInv'
    BY <1>2, FreeBodyKeeps DEF ProgramStep
  <1>3. ASSUME NEW t \in Tasks, NEW c \in Children, CreateConnect(t, c) PROVE FrameInv'
    BY <1>3, CreateDropKeeps DEF CreateConnect
  <1>4. ASSUME NEW t \in Tasks, ControlStep(t) PROVE FrameInv'
    BY <1>4, ControlKeeps
  <1>5. ASSUME NEW t \in Tasks, Awaiting(t) PROVE FrameInv'
    <2>1. Alive' = Alive /\ UNCHANGED <<frame, links, exception, control>>
      BY <1>5, AroundAlive DEF Awaiting, taskVars
    <2> QED
      BY <2>1, StillKeeps
  <1>6. CASE UNCHANGED allVars
    <2>1. UNCHANGED <<frame, links, exception, control, Alive>>
      BY <1>6 DEF allVars, taskVars, asyncVars, Alive
    <2> QED
      BY <2>1, StillKeeps
  <1> QED
    BY <1>1, <1>2, <1>3, <1>4, <1>5, <1>6 DEF ConnectNext

LEMMA FrameInvariance == ConnectSpec => []FrameInv
  BY FrameInit, FrameNext, ClientInvariance, PTL DEF ConnectSpec

(* Every frame is where it belongs, for any trees of tasks: control finds  *)
(* its way back to the root, and no frame is lost or outlives its caller.  *)
THEOREM FramesAreSound == ConnectSpec => []FramesSound
  <1>1. ASSUME FrameInv PROVE FramesSound
    <2>1. \A t \in Alive : Tree(t)
      BY <1>1 DEF FrameInv, RootInv, Alive
    <2>2. \A c \in Children : Placed(c)
      BY <1>1 DEF FrameInv
    <2> QED
      BY <2>1, <2>2 DEF FramesSound, Tree, Placed, Live
  <1> QED
    BY FrameInvariance, <1>1, PTL

(* An exception that no body catches is what the joining task gets, and    *)
(* nothing else is.                                                        *)
THEOREM ExceptionsArrive == ConnectSpec => []ExceptionArrives
  <1>1. FrameInv => ExceptionArrives
    BY DEF FrameInv, RootInv, Gone, ExceptionArrives
  <1> QED
    BY FrameInvariance, <1>1, PTL

-----------------------------------------------------------------------------
(* connect_to(): where its frames are, and what the leaf is of one that    *)
(* has control.                                                            *)

StepTypes ==
    /\ step \in [Frames -> {"other", "parse", "parsed", "resolving", "connecting", "over"}]
    /\ socket \in [Frames -> {"none", "connected", "invalid_argument", "value", "cancelled",
                              "failure", "aborted"}]

(* A frame has not proceeded before it is called, and calls none itself.   *)
Begun(c) ==
    /\ frame[c] = "none" => step[c] = "other"
    /\ frame[c] = "initial" => step[c] \in {"other", "parse"}
    /\ Live(c) => step[continuation[c]] = "other"

LeafOf(t) ==
    /\ step[top[t]] = "resolving" => kind[t] = "resolve"
    /\ step[top[t]] = "connecting" => kind[t] = "connect_impl"

OrderInv == StepTypes /\ (\A c \in Children : Begun(c)) /\ (\A t \in Tasks : LeafOf(t))

ClientInv == IInv /\ FrameInv /\ OrderInv

LEMMA Called ==
  ASSUME FrameInv, NEW c \in Children, Live(c)
  PROVE  continuation[c] \in Frames /\ Live(continuation[c])
  <1>1. PICK t \in Alive : c \in Chain(t) \/ continuation[c] = top[t]
    BY DEF FrameInv, Placed
  <1>2. Tree(t) /\ t \in Tasks /\ FrameTypes
    BY DEF FrameInv, RootInv, Alive
  <1>3. continuation[c] \in Chain(t)
    BY <1>1, <1>2, ChainClosed
  <1> QED
    BY <1>2, <1>3 DEF Tree, Live

LEMMA OrderInit == ConnectInit => OrderInv
  BY TaskAssumption
     DEF ConnectInit, TaskInit, OrderInv, StepTypes, Begun, LeafOf, Live, Frames

(* Steps that call nothing, return to nothing and await nothing.           *)
LEMMA OrderStill ==
  ASSUME OrderInv, UNCHANGED <<kind, top, continuation, step, socket>>,
         \A c \in Children : \/ frame'[c] = frame[c]
                             \/ frame'[c] \in {"final", "destroyed"} /\ (Live(c)' => Live(c))
                             \/ frame[c] = "none" /\ frame'[c] = "initial"
  PROVE  OrderInv'
  BY DEF OrderInv, StepTypes, Begun, LeafOf, Live

LEMMA FramesForward ==
  ASSUME FrameInv, NEW t \in Tasks,
         \/ \E c \in Children : Create(t, c) \/ Drop(t, c)
         \/ Throw(t) \/ Catch(t) \/ Return(t) \/ Unhandled(t) \/ AwaitResume(t) \/ Finish(t)
  PROVE  /\ UNCHANGED <<kind, top, continuation>>
         /\ \A c \in Children : \/ frame'[c] = frame[c]
                                \/ frame'[c] \in {"final", "destroyed"} /\ (Live(c)' => Live(c))
                                \/ frame[c] = "none" /\ frame'[c] = "initial"
  <1> USE DEF asyncVars, links, control
  <1>0. FrameTypes /\ \A d \in Children : d \in Frames
    BY DEF FrameInv, Frames
  <1>1. CASE \E c \in Children : Create(t, c) \/ Drop(t, c)
    BY <1>0, <1>1 DEF Create, Drop, FrameTypes, Live
  <1>2. CASE Throw(t) \/ Catch(t)
    BY <1>2 DEF Throw, Catch
  <1>3. CASE Return(t) \/ Unhandled(t)
    <2>1. frame[top[t]] = "active"
      <3>1. Runs(t, "body") \/ Runs(t, "throwing")
        BY <1>3 DEF Return, Unhandled
      <3> QED
        BY <3>1, Running DEF Tree
    <2> QED
      BY <1>0, <1>3, <2>1 DEF Return, Unhandled, Leave, FrameTypes, Live
  <1>4. CASE AwaitResume(t)
    BY <1>0, <1>4 DEF AwaitResume, FrameTypes, Live
  <1>5. CASE Finish(t)
    BY <1>0, <1>5 DEF Finish, End, FrameTypes, Live
  <1> QED
    BY <1>1, <1>2, <1>3, <1>4, <1>5

(* connect_to() proceeds: it is the top of its root, so nobody returns to  *)
(* it.                                                                     *)
LEMMA ProceedsTypes ==
  ASSUME ClientInv, NEW t \in Tasks, NEW s, NEW next, s # "other", Proceeds(t, s, next),
         next \in {"parsed", "resolving", "connecting", "over"}
  PROVE  /\ step' \in [Frames -> {"other", "parse", "parsed", "resolving", "connecting", "over"}]
         /\ step'[top[t]] = next /\ \A f \in Frames : f # top[t] => step'[f] = step[f]
         /\ frame[top[t]] = "active" /\ top[t] \in Frames /\ t \in Alive
         /\ \A c \in Children : Live(c) => continuation[c] # top[t]
         /\ \A u \in Tasks : u # t => top[u] # top[t]
  <1>1. /\ frame[top[t]] = "active" /\ top[t] \in Frames /\ t \in Alive
        /\ flow[t] = "body" /\ TopFree(t)
    BY Running DEF ClientInv, Proceeds, Tree
  <1> QED
    BY <1>1, TopsApart DEF ClientInv, OrderInv, StepTypes, Proceeds, TopFree

LEMMA BeginKind ==
  ASSUME IInv, NEW t \in Tasks, NEW k, Begin(t, k)
  PROVE  kind'[t] = k /\ \A u \in Tasks : u # t => kind'[u] = kind[u]
  BY DEF IInv, TypeOK, Begin

LEMMA AroundKind ==
  ASSUME NEW t \in Tasks, Around(t)
  PROVE  UNCHANGED kind
  BY DEF Around, AwaitStep, HandlerStep, Resume, TestScope, Arm, Refused, Start, Disarm, Read,
         Take,
         HandlerDisarms, Deliver, HandlerWakes, Cancel, Emit, Complete

LEMMA OrderProgram ==
  ASSUME ClientInv, NEW t \in Tasks, ProgramStep(t)
  PROVE  OrderInv'
  <1>0. /\ step[top[t]] = "other" /\ FreeBody(t) /\ UNCHANGED <<step, socket>>
        /\ OrderInv /\ FrameInv /\ IInv /\ FrameTypes
    BY DEF ClientInv, ProgramStep, connectVars, FrameInv
  <1>1. CASE (\E c \in Children : Create(t, c) \/ Drop(t, c)) \/ Throw(t) \/ Return(t)
    BY <1>0, <1>1, FramesForward, OrderStill
  <1>2. ASSUME NEW c \in Children, Call(t, c) PROVE OrderInv'
    <2>1. /\ kind' = kind /\ c \in Frames
          /\ frame'[c] = "active" /\ \A f \in Frames : f # c => frame'[f] = frame[f]
          /\ continuation'[c] = top[t]
          /\ \A f \in Frames : f # c => continuation'[f] = continuation[f]
          /\ top'[t] = c /\ \A u \in Tasks : u # t => top'[u] = top[u]
      BY <1>0, <1>2 DEF Call, asyncVars, FrameTypes, Frames, Links
    <2>2. frame[c] = "initial"
      <3>1. Runs(t, "body") /\ holder[c] = top[t]
        BY <1>2 DEF Call, Locals
      <3>2. holder[c] # NoFrame
        BY <1>0, <3>1, Running, TaskAssumption DEF Frames
      <3> QED
        BY <1>0, <3>2 DEF FrameInv, Placed
    <2>3. step[c] \in {"other", "parse"}
      BY <1>0, <2>2 DEF OrderInv, Begun
    <2>4. \A d \in Children : Begun(d)'
      BY <1>0, <2>1 DEF OrderInv, Begun, Live, Frames
    <2>5. \A u \in Tasks : LeafOf(u)'
      BY <1>0, <2>1, <2>3 DEF OrderInv, LeafOf
    <2> QED
      BY <1>0, <2>4, <2>5 DEF OrderInv, StepTypes
  <1>3. ASSUME NEW k \in Used, Leaf(t, k) PROVE OrderInv'
    <2>1. /\ Begin(t, k) /\ UNCHANGED <<frame, top, continuation>>
      BY <1>3 DEF Leaf, links, control
    <2>2. \A u \in Tasks : u # t => kind'[u] = kind[u]
      BY <1>0, <2>1, BeginKind
    <2>3. \A u \in Tasks : LeafOf(u)'
      BY <1>0, <2>1, <2>2 DEF OrderInv, LeafOf
    <2> QED
      BY <1>0, <2>1, <2>3 DEF OrderInv, StepTypes, Begun, Live
  <1> QED
    BY <1>0, <1>1, <1>2, <1>3 DEF FreeBody

LEMMA OrderControl ==
  ASSUME ClientInv, NEW t \in Tasks, ControlStep(t), UNCHANGED connectVars
  PROVE  OrderInv'
  <1>0. UNCHANGED <<step, socket>> /\ OrderInv /\ FrameInv /\ FrameTypes
    BY DEF ClientInv, connectVars, FrameInv
  <1>1. CASE Catch(t) \/ Unhandled(t) \/ AwaitResume(t) \/ Finish(t)
    BY <1>0, <1>1, FramesForward, OrderStill
  <1>2. CASE Transfer(t)
    <2>1. /\ UNCHANGED <<kind, frame, continuation>>
          /\ top'[t] = continuation[top[t]] /\ \A u \in Tasks : u # t => top'[u] = top[u]
      BY <1>0, <1>2 DEF Transfer, asyncVars, links, FrameTypes
    <2>2. step[continuation[top[t]]] = "other"
      <3>1. Runs(t, "final") /\ top[t] # t
        BY <1>2 DEF Transfer
      <3>2. top[t] \in Frames /\ frame[top[t]] = "final" /\ owning[top[t]] = t
        BY <1>0, <3>1, Running DEF Tree
      <3>3. top[t] \in Children
        BY <1>0, <3>1, <3>2 DEF Frames, FrameInv, RootInv
      <3> QED
        BY <1>0, <3>2, <3>3 DEF OrderInv, Begun, Live
    <2>3. \A u \in Tasks : LeafOf(u)'
      BY <1>0, <2>1, <2>2 DEF OrderInv, LeafOf
    <2> QED
      BY <1>0, <2>1, <2>3 DEF OrderInv, StepTypes, Begun, Live
  <1> QED
    BY <1>1, <1>2 DEF ControlStep

LEMMA OrderCreate ==
  ASSUME ClientInv, NEW t \in Tasks, NEW c \in Children, CreateConnect(t, c)
  PROVE  OrderInv'
  <1>0. OrderInv /\ FrameInv /\ FrameTypes /\ c \in Frames
    BY DEF ClientInv, FrameInv, Frames
  <1>1. /\ frame[c] = "none" /\ UNCHANGED <<kind, continuation, top, socket>>
        /\ frame'[c] = "initial" /\ \A f \in Frames : f # c => frame'[f] = frame[f]
        /\ step' = [step EXCEPT ![c] = "parse"]
    BY <1>0 DEF CreateConnect, Create, asyncVars, control, FrameTypes
  <1>2. ASSUME NEW d \in Children PROVE Begun(d)'
    <2>1. Live(d) => continuation[d] # c /\ continuation[d] \in Frames
      BY <1>0, <1>1, Called DEF Live
    <2> QED
      BY <1>0, <1>1, <2>1 DEF OrderInv, StepTypes, Begun, Live, Frames
  <1>3. StepTypes' /\ \A u \in Tasks : LeafOf(u)'
    BY <1>0, <1>1 DEF OrderInv, StepTypes, LeafOf, FrameTypes
  <1> QED
    BY <1>2, <1>3 DEF OrderInv

LEMMA OrderConnect ==
  ASSUME ClientInv, NEW t \in Tasks, ConnectStep(t)
  PROVE  OrderInv'
  <1>0. OrderInv /\ FrameInv /\ IInv /\ \A c \in Children : c \in Frames
    BY DEF ClientInv, Frames
  <1>1. CASE Parse(t)
    <2>1. Proceeds(t, "parse", "parsed") /\ UNCHANGED <<kind, frame, top, continuation, socket>>
      BY <1>1 DEF Parse, asyncVars, taskVars, links, control
    <2>2. /\ step' \in [Frames -> {"other", "parse", "parsed", "resolving", "connecting", "over"}]
          /\ step'[top[t]] = "parsed" /\ \A f \in Frames : f # top[t] => step'[f] = step[f]
          /\ frame[top[t]] = "active"
          /\ \A c \in Children : Live(c) => continuation[c] # top[t] /\ continuation[c] \in Frames
          /\ \A u \in Tasks : u # t => top[u] # top[t]
          /\ \A u \in Tasks : top[u] \in Frames
      BY <1>0, <2>1, ProceedsTypes, Called DEF FrameInv, FrameTypes
    <2>3. \A c \in Children : Begun(c)'
      BY <1>0, <2>1, <2>2 DEF OrderInv, Begun, Live
    <2>4. \A u \in Tasks : LeafOf(u)'
      BY <1>0, <2>1, <2>2 DEF OrderInv, LeafOf
    <2> QED
      BY <1>0, <2>1, <2>2, <2>3, <2>4 DEF OrderInv, StepTypes
  <1>2. CASE Refuse(t) \/ ReturnSocket(t) \/ ReturnError(t)
    <2>1. PICK s \in {"parsed", "resolving", "connecting"} : Proceeds(t, s, "over")
      BY <1>2 DEF Refuse, ReturnSocket, ReturnError
    <2>2. PICK what : Returns(t, what)
                      /\ what \in {"none", "connected", "invalid_argument", "value", "cancelled",
                                   "failure", "aborted"}
      <3>1. result[t] \in {"none", "value", "cancelled", "failure", "aborted"}
        BY <1>0 DEF IInv, TypeOK
      <3> QED
        BY <1>2, <3>1 DEF Refuse, ReturnSocket, ReturnError
    <2>3. /\ UNCHANGED <<kind, top, continuation>>
          /\ \A c \in Children : \/ frame'[c] = frame[c]
                                 \/ frame'[c] \in {"final", "destroyed"} /\ (Live(c)' => Live(c))
                                 \/ frame[c] = "none" /\ frame'[c] = "initial"
      BY <1>0, <2>2, FramesForward DEF Returns
    <2>4. /\ socket' \in [Frames -> {"none", "connected", "invalid_argument", "value", "cancelled",
                                     "failure", "aborted"}]
      BY <1>0, <2>2 DEF Returns, OrderInv, StepTypes
    <2>5. /\ step' \in [Frames -> {"other", "parse", "parsed", "resolving", "connecting", "over"}]
          /\ step'[top[t]] = "over" /\ \A f \in Frames : f # top[t] => step'[f] = step[f]
          /\ frame[top[t]] = "active"
          /\ \A c \in Children : Live(c) => continuation[c] # top[t] /\ continuation[c] \in Frames
          /\ \A u \in Tasks : u # t => top[u] # top[t]
          /\ \A u \in Tasks : top[u] \in Frames
      BY <1>0, <2>1, ProceedsTypes, Called DEF FrameInv, FrameTypes
    <2>6. ASSUME NEW c \in Children PROVE Begun(c)'
      <3>1. CASE c = top[t]
        <4>1. frame'[c] \in {"active", "final", "destroyed"}
          BY <2>3, <2>5, <3>1
        <4> QED
          BY <1>0, <2>3, <2>5, <3>1, <4>1 DEF Begun, OrderInv, Live
      <3>2. CASE c # top[t]
        BY <1>0, <2>3, <2>5, <3>2 DEF OrderInv, Begun, Live
      <3> QED
        BY <3>1, <3>2
    <2>7. \A u \in Tasks : LeafOf(u)'
      BY <1>0, <2>3, <2>5 DEF OrderInv, LeafOf
    <2> QED
      BY <2>4, <2>5, <2>6, <2>7 DEF OrderInv, StepTypes
  <1>3. CASE Resolve(t) \/ ConnectSocket(t)
    <2>1. PICK s \in {"parsed", "resolving"}, next \in {"resolving", "connecting"},
               k \in {"resolve", "connect_impl"} :
             /\ Proceeds(t, s, next) /\ Begin(t, k)
             /\ next = "resolving" => k = "resolve"
             /\ next = "connecting" => k = "connect_impl"
      BY <1>3 DEF Resolve, ConnectSocket
    <2>2. UNCHANGED <<frame, top, continuation, socket>>
      BY <1>3 DEF Resolve, ConnectSocket, taskVars, links, control
    <2>3. /\ step' \in [Frames -> {"other", "parse", "parsed", "resolving", "connecting", "over"}]
          /\ step'[top[t]] = next /\ \A f \in Frames : f # top[t] => step'[f] = step[f]
          /\ frame[top[t]] = "active"
          /\ \A c \in Children : Live(c) => continuation[c] # top[t] /\ continuation[c] \in Frames
          /\ \A u \in Tasks : u # t => top[u] # top[t]
          /\ \A u \in Tasks : top[u] \in Frames
      BY <1>0, <2>1, ProceedsTypes, Called DEF FrameInv, FrameTypes
    <2>4. kind'[t] = k /\ \A u \in Tasks : u # t => kind'[u] = kind[u]
      BY <1>0, <2>1, BeginKind
    <2>5. \A c \in Children : Begun(c)'
      BY <1>0, <2>2, <2>3 DEF OrderInv, Begun, Live
    <2>6. \A u \in Tasks : LeafOf(u)'
      BY <1>0, <2>1, <2>2, <2>3, <2>4 DEF OrderInv, LeafOf
    <2> QED
      BY <1>0, <2>2, <2>3, <2>5, <2>6 DEF OrderInv, StepTypes
  <1> QED
    BY <1>1, <1>2, <1>3 DEF ConnectStep

LEMMA OrderNext == ClientInv /\ [ConnectNext]_allVars => OrderInv'
  <1> SUFFICES ASSUME ClientInv, [ConnectNext]_allVars PROVE OrderInv'
    OBVIOUS
  <1>0. OrderInv
    BY DEF ClientInv
  <1>1. ASSUME NEW t \in Tasks, Awaiting(t) /\ UNCHANGED connectVars PROVE OrderInv'
    <2>1. UNCHANGED <<kind, top, continuation, step, socket, frame>>
      BY <1>1, AroundKind DEF Awaiting, connectVars, taskVars, links, control
    <2> QED
      BY <1>0, <2>1, OrderStill
  <1>2. CASE UNCHANGED allVars
    <2>1. UNCHANGED <<kind, top, continuation, step, socket, frame>>
      BY <1>2 DEF allVars, asyncVars, connectVars, taskVars, links, control
    <2> QED
      BY <1>0, <2>1, OrderStill
  <1> QED
    BY <1>1, <1>2, OrderProgram, OrderControl, OrderCreate, OrderConnect DEF ConnectNext

LEMMA ClientInvInvariance == ConnectSpec => []ClientInv
  <1>1. ConnectInit => OrderInv
    BY OrderInit
  <1>2. IInv /\ FrameInv /\ OrderInv <=> ClientInv
    BY DEF ClientInv
  <1> QED
    BY <1>1, <1>2, OrderNext, FrameInvariance, ClientInvariance, PTL DEF ConnectSpec

(* What asio has said when connect_to() finds a value.                     *)
LEMMA ValueIsOutcome ==
  ASSUME IInv, NEW t \in Tasks, at[t] = "body", kind[t] \in {"resolve", "connect_impl"}, Succeeded(t)
  PROVE  op[t] = "over" /\ outcome[t] = "value"
  BY DEF IInv, TaskInv, Honest, Succeeded, Refusal

Ordered(t) ==
    /\ kind'[t] = "connect_impl" /\ kind[t] # "connect_impl" =>
           kind[t] = "resolve" /\ op[t] = "over" /\ outcome[t] = "value"
    /\ socket'[top[t]] = "connected" /\ socket[top[t]] # "connected" =>
           kind[t] = "connect_impl" /\ op[t] = "over" /\ outcome[t] = "value"

LEMMA ConnectOrdered ==
  ASSUME ClientInv, NEW t \in Tasks, ConnectStep(t), NEW u \in Tasks
  PROVE  Ordered(u)
  <1>0. IInv /\ StepTypes /\ top[u] \in Frames /\ LeafOf(t)
    BY DEF ClientInv, OrderInv, FrameInv, FrameTypes
  <1>1. CASE Parse(t)
    BY <1>1 DEF Parse, asyncVars, Ordered
  <1>2. CASE Refuse(t) \/ ReturnError(t)
    <2>1. PICK what : Returns(t, what) /\ what # "connected"
      <3>1. result[t] # "connected"
        BY <1>0 DEF IInv, TypeOK
      <3> QED
        BY <1>2, <3>1 DEF Refuse, ReturnError
    <2>2. UNCHANGED kind /\ socket' = [socket EXCEPT ![top[t]] = what]
      BY <2>1 DEF Returns, Return, Leave, asyncVars
    <2> QED
      BY <1>0, <2>1, <2>2 DEF Ordered, StepTypes
  <1>3. CASE ReturnSocket(t)
    <2>1. UNCHANGED kind /\ socket' = [socket EXCEPT ![top[t]] = "connected"]
      BY <1>3 DEF ReturnSocket, Returns, Return, Leave, asyncVars
    <2>2. kind[t] = "connect_impl" /\ op[t] = "over" /\ outcome[t] = "value"
      BY <1>0, <1>3, ValueIsOutcome DEF ReturnSocket, Proceeds, Runs, LeafOf
    <2>3. u # t => top[u] # top[t]
      BY TopsApart DEF ClientInv
    <2> QED
      BY <1>0, <2>1, <2>2, <2>3 DEF Ordered, StepTypes
  <1>4. CASE Resolve(t)
    BY <1>0, <1>4, BeginKind DEF Resolve, Ordered
  <1>5. CASE ConnectSocket(t)
    <2>1. kind[t] = "resolve" /\ op[t] = "over" /\ outcome[t] = "value"
      BY <1>0, <1>5, ValueIsOutcome DEF ConnectSocket, Proceeds, Runs, LeafOf
    <2> QED
      BY <1>0, <1>5, <2>1, BeginKind DEF ConnectSocket, Ordered
  <1> QED
    BY <1>1, <1>2, <1>3, <1>4, <1>5 DEF ConnectStep

LEMMA StepOrdered == ClientInv /\ [ConnectNext]_allVars => \A u \in Tasks : Ordered(u)
  <1> SUFFICES ASSUME ClientInv, [ConnectNext]_allVars, NEW u \in Tasks PROVE Ordered(u)
    OBVIOUS
  <1>0. IInv /\ FrameInv
    BY DEF ClientInv
  <1>1. ASSUME NEW t \in Tasks, ProgramStep(t) PROVE Ordered(u)
    <2>1. UNCHANGED socket /\ FreeBody(t)
      BY <1>1 DEF ProgramStep, connectVars
    <2>2. CASE \E k \in Used : Leaf(t, k)
      BY <1>0, <2>1, <2>2, BeginKind, ConnectAssumption DEF Leaf, Ordered
    <2>3. CASE \E c \in Children : Call(t, c)
      BY <2>1, <2>3 DEF Call, asyncVars, Ordered
    <2>4. CASE (\E c \in Children : Create(t, c) \/ Drop(t, c)) \/ Throw(t) \/ Return(t)
      BY <1>0, <2>1, <2>4, FramesForward DEF Ordered
    <2> QED
      BY <2>1, <2>2, <2>3, <2>4 DEF FreeBody
  <1>2. ASSUME NEW t \in Tasks, NEW c \in Children, CreateConnect(t, c) PROVE Ordered(u)
    BY <1>2 DEF CreateConnect, Create, asyncVars, Ordered
  <1>3. ASSUME NEW t \in Tasks, ControlStep(t) /\ UNCHANGED connectVars PROVE Ordered(u)
    <2>1. CASE Transfer(t)
      BY <1>3, <2>1 DEF Transfer, asyncVars, connectVars, Ordered
    <2>2. CASE Catch(t) \/ Unhandled(t) \/ AwaitResume(t) \/ Finish(t)
      BY <1>0, <1>3, <2>2, FramesForward DEF connectVars, Ordered
    <2> QED
      BY <1>3, <2>1, <2>2 DEF ControlStep
  <1>4. ASSUME NEW t \in Tasks, Awaiting(t) /\ UNCHANGED connectVars PROVE Ordered(u)
    BY <1>4, AroundKind DEF Awaiting, connectVars, Ordered
  <1>5. CASE UNCHANGED allVars
    BY <1>5 DEF allVars, asyncVars, connectVars, Ordered
  <1> QED
    BY <1>1, <1>2, <1>3, <1>4, <1>5, ConnectOrdered DEF ConnectNext

(* Whatever fails or is cancelled on the way, connect_to() connects to     *)
(* nothing before its name is resolved, and returns as connected only a    *)
(* socket that asio has connected.                                         *)
THEOREM ConnectsOrdered == ConnectSpec => ConnectsInOrder
  <1>1. ClientInv /\ [ConnectNext]_allVars =>
            [\A t \in Tasks :
                /\ kind'[t] = "connect_impl" /\ kind[t] # "connect_impl" =>
                      kind[t] = "resolve" /\ op[t] = "over" /\ outcome[t] = "value"
                /\ socket'[top[t]] = "connected" /\ socket[top[t]] # "connected" =>
                      kind[t] = "connect_impl" /\ op[t] = "over" /\ outcome[t] = "value"]_allVars
    BY StepOrdered DEF Ordered
  <1> QED
    BY <1>1, ClientInvInvariance, PTL DEF ConnectSpec, ConnectsInOrder

-----------------------------------------------------------------------------
(* The addresses.                                                          *)

LEMMA Found ==
  ASSUME NEW S, NEW s \in Seq(S), NEW c
  PROVE  /\ Position(s, c) \in 1..(Len(s) + 1)
         /\ Position(s, c) <= Len(s) => s[Position(s, c)] = c
         /\ \A k \in 1..Len(s) : k < Position(s, c) => s[k] # c
  <1> DEFINE I == {i \in 1..Len(s) : s[i] = c}
  <1>1. c \in ToSet(s) <=> I # {}
    BY ElementIndex
  <1>2. CASE I # {}
    <2>1. PICK m \in I : \A k \in I : m <= k
      <3>1. I \subseteq Nat
        OBVIOUS
      <3> HIDE DEF I
      <3> QED
        BY <1>2, <3>1, LeastNat
    <2>2. Min(I) \in I /\ \A k \in I : Min(I) <= k
      <3> HIDE DEF I
      <3> QED
        BY <2>1 DEF Min
    <2>3. Position(s, c) = Min(I)
      BY <1>1, <1>2 DEF Position, SelectInSeq
    <2>4. /\ Position(s, c) \in 1..Len(s) /\ s[Position(s, c)] = c
          /\ \A k \in 1..Len(s) : s[k] = c => Position(s, c) <= k
      BY <2>2, <2>3
    <2> QED
      BY <2>4
  <1>3. CASE I = {}
    <2>1. Position(s, c) = Len(s) + 1
      BY <1>1, <1>3 DEF Position
    <2> QED
      BY <1>3, <2>1
  <1> QED
    BY <1>2, <1>3

LEMMA Begins ==
  ASSUME NEW S, NEW s \in Seq(S), s # <<>>
  PROVE  /\ Beginning(s) \in 1..Len(s)
         /\ \A k \in 1..(Beginning(s) - 1) : s[k] = Space
         /\ s[Beginning(s)] # Space \/ Beginning(s) = Len(s)
  <1> DEFINE I == {i \in 1..Len(s) : s[i] # Space \/ i = Len(s)}
  <1>1. Len(s) \in I
    BY EmptySeq
  <1>2. PICK m \in I : \A k \in I : m <= k
    <2>1. I \subseteq Nat
      OBVIOUS
    <2> HIDE DEF I
    <2> QED
      BY <1>1, <2>1, LeastNat
  <1>3. \A k \in 1..(m - 1) : s[k] = Space
    BY <1>2
  <1> QED
    BY <1>2, <1>3 DEF Beginning

(* The characters that are looked for are no digits.                       *)
LEMMA NotDigits ==
  /\ Space \notin ToSet(Digits) /\ ":" \notin ToSet(Digits) /\ "]" \notin ToSet(Digits)
  <1>1. /\ DOMAIN Digits = 1..10
        /\ Digits[1] = "0" /\ Digits[2] = "1" /\ Digits[3] = "2" /\ Digits[4] = "3"
        /\ Digits[5] = "4" /\ Digits[6] = "5" /\ Digits[7] = "6" /\ Digits[8] = "7"
        /\ Digits[9] = "8" /\ Digits[10] = "9"
    BY DEF Digits
  <1>2. \A i \in 1..10 : i \in {1, 2, 3, 4, 5, 6, 7, 8, 9, 10}
    OBVIOUS
  <1>3. \A i \in 1..10 : Digits[i] # " " /\ Digits[i] # ":" /\ Digits[i] # "]"
    BY <1>1, <1>2
  <1> QED
    BY <1>1, <1>3 DEF ToSet, Space

LEMMA View ==
  ASSUME NEW S, NEW s \in Seq(S), s # <<>>, Beginning(s) # Len(s), NEW past
  PROVE  \E e \in (Beginning(s) + 1)..Len(s) :
             /\ Trimmed(s, past) = SubSeq(s, Beginning(s), e)
             /\ \A k \in (Beginning(s) + 1)..(e - 1) : s[k] # Space
             /\ e = Len(s) \/ s[e] = Space
  <1> DEFINE b == Beginning(s)
             r == SubSeq(s, b + 1, Len(s) - 1)
             p == Position(r, Space)
  <1>1. b \in 1..(Len(s) - 1)
    BY Begins
  <1>2. /\ r \in Seq(S) /\ Len(r) = Len(s) - 1 - b
        /\ \A i \in 1..(Len(s) - 1 - b) : r[i] = s[b + i]
    <2> HIDE DEF b
    <2> QED
      BY <1>1, Cut
  <1>3. Trimmed(s, past) = SubSeq(s, b, b + p)
    BY DEF Trimmed
  <1> HIDE DEF b, r
  <1>4. /\ p \in 1..(Len(r) + 1)
        /\ p <= Len(r) => r[p] = Space
        /\ \A k \in 1..Len(r) : k < p => r[k] # Space
    BY <1>2, Found
  <1> HIDE DEF p
  <1>5. b + p \in (b + 1)..Len(s)
    BY <1>1, <1>2, <1>4
  <1>6. ASSUME NEW k \in (b + 1)..(b + p - 1) PROVE s[k] # Space
    <2>1. k - b \in 1..Len(r) /\ k - b < p /\ r[k - b] = s[k]
      BY <1>1, <1>2, <1>4
    <2> QED
      BY <1>4, <2>1
  <1>7. b + p = Len(s) \/ s[b + p] = Space
    <2>1. CASE p <= Len(r)
      <3>1. p \in 1..(Len(s) - 1 - b)
        BY <1>1, <1>2, <1>4, <2>1
      <3> QED
        BY <1>2, <1>4, <2>1, <3>1
    <2>2. CASE p = Len(r) + 1
      BY <1>1, <1>2, <2>2
    <2> QED
      BY <1>2, <1>4, <2>1, <2>2
  <1>8. PICK e \in (b + 1)..Len(s) : e = b + p
    BY <1>5
  <1>9. /\ Trimmed(s, past) = SubSeq(s, b, e)
        /\ \A k \in (b + 1)..(e - 1) : s[k] # Space
        /\ e = Len(s) \/ s[e] = Space
    <2>1. SubSeq(s, b, e) = SubSeq(s, b, b + p)
      BY <1>8
    <2>2. ASSUME NEW k \in (b + 1)..(e - 1) PROVE s[k] # Space
      <3>1. k \in (b + 1)..(b + p - 1)
        BY <1>1, <1>4, <1>8
      <3> QED
        BY <1>6, <3>1
    <2>3. e = Len(s) \/ s[e] = Space
      BY <1>7, <1>8
    <2> QED
      BY <1>3, <2>1, <2>2, <2>3
  <1> QED
    BY <1>9 DEF b

-----------------------------------------------------------------------------
PlainAt(v, c) ==
    /\ c \in 2..Len(v) /\ v[1] # "["
    /\ v[c] = ":" /\ IsPort(From(v, c + 1))
    /\ \A k \in 1..(c - 1) : v[k] # ":"

BracketAt(v, c) ==
    /\ c \in 4..Len(v) /\ v[1] = "["
    /\ v[c - 1] = "]" /\ v[c] = ":" /\ IsPort(From(v, c + 1))
    /\ \A k \in 2..(c - 2) : v[k] # "]"

HostAt(host, v, c) == [host |-> host, port |-> {Decimal(From(v, c + 1))}]

LEMMA AfterColon ==
  ASSUME NEW S, NEW v \in Seq(S), NEW c \in 1..Len(v), IsPort(From(v, c + 1))
  PROVE  /\ c < Len(v)
         /\ \A k \in (c + 1)..Len(v) : v[k] \in ToSet(Digits)
  <1>1. From(v, c + 1) # <<>> /\ ToSet(From(v, c + 1)) \subseteq ToSet(Digits)
    BY DEF IsPort
  <1>2. c < Len(v)
    BY <1>1, Cut DEF From
  <1>3. \A k \in (c + 1)..Len(v) : v[k] \in ToSet(From(v, c + 1))
    BY Cut DEF From
  <1> QED
    BY <1>1, <1>2, <1>3

LEMMA PlainParsed ==
  ASSUME NEW S, NEW v \in Seq(S), v # <<>>, v[1] # "["
  PROVE  /\ \A c : PlainAt(v, c) => Plain(v) = HostAt(SubSeq(v, 1, c - 1), v, c)
         /\ Plain(v).port # NoPort => \E c : PlainAt(v, c)
  <1> DEFINE C == {i \in DOMAIN v : v[i] = ":"}
             p == Position(v, ":")
  <1>0. DOMAIN v = 1..Len(v)
    OBVIOUS
  <1>1. /\ p \in 1..(Len(v) + 1)
        /\ p <= Len(v) => v[p] = ":"
        /\ \A k \in 1..Len(v) : k < p => v[k] # ":"
    BY Found
  <1>2. Plain(v) = IF Cardinality(C) = 1
                   THEN HostAnd(SubSeq(v, 1, p - 1), From(v, p + 1))
                   ELSE [host |-> v, port |-> NoPort]
    BY DEF Plain
  <1> HIDE DEF p
  <1>3. ASSUME NEW c, PlainAt(v, c) PROVE Plain(v) = HostAt(SubSeq(v, 1, c - 1), v, c)
    <2>1. c \in 2..Len(v) /\ v[c] = ":" /\ \A k \in 1..(c - 1) : v[k] # ":"
      BY <1>3 DEF PlainAt
    <2>2. \A k \in (c + 1)..Len(v) : v[k] # ":"
      BY <1>3, AfterColon, NotDigits DEF PlainAt
    <2>3. C = {c}
      BY <1>0, <2>1, <2>2
    <2>4. Cardinality(C) = 1
      BY <2>3, FS_Singleton
    <2>5. p = c
      BY <1>1, <2>1
    <2>6. SubSeq(v, 1, c - 1) # <<>>
      BY <2>1, Cut
    <2> QED
      BY <1>2, <1>3, <2>4, <2>5, <2>6 DEF HostAnd, HostAt, PlainAt
  <1>4. ASSUME Plain(v).port # NoPort PROVE PlainAt(v, p)
    <2>1. /\ Cardinality(C) = 1
          /\ SubSeq(v, 1, p - 1) # <<>> /\ IsPort(From(v, p + 1))
      BY <1>2, <1>4 DEF HostAnd, Nowhere
    <2>2. C # {}
      <3> HIDE DEF C
      <3> QED
        BY <2>1, FS_EmptySet, 0 # 1
    <2>3. p \in 1..Len(v)
      BY <1>0, <1>1, <2>2
    <2>4. p # 1
      BY <2>1, SubSeqEmpty
    <2> QED
      BY <1>1, <2>1, <2>3, <2>4 DEF PlainAt
  <1> QED
    BY <1>3, <1>4

LEMMA BracketParsed ==
  ASSUME NEW S, NEW v \in Seq(S), v # <<>>, v[1] = "["
  PROVE  /\ \A c : BracketAt(v, c) => Bracketed(v) = HostAt(SubSeq(v, 2, c - 2), v, c)
         /\ Bracketed(v).port # NoPort => \E c : BracketAt(v, c)
  <1> DEFINE p == Position(v, "]")
             host == SubSeq(v, 2, p - 1)
  <1>1. /\ p \in 1..(Len(v) + 1)
        /\ p <= Len(v) => v[p] = "]"
        /\ \A k \in 1..Len(v) : k < p => v[k] # "]"
    BY Found
  <1>2. Bracketed(v) = IF p > Len(v) \/ host = <<>> THEN Nowhere
                       ELSE IF p = Len(v) THEN [host |-> host, port |-> NoPort]
                       ELSE IF v[p + 1] = ":" THEN HostAnd(host, From(v, p + 2)) ELSE Nowhere
    BY DEF Bracketed
  <1> HIDE DEF p
  <1>3. ASSUME NEW c, BracketAt(v, c) PROVE Bracketed(v) = HostAt(SubSeq(v, 2, c - 2), v, c)
    <2>1. c \in 4..Len(v) /\ v[c] = ":" /\ v[c - 1] = "]" /\ \A k \in 2..(c - 2) : v[k] # "]"
      BY <1>3 DEF BracketAt
    <2>2. p = c - 1
      BY <1>1, <2>1
    <2>3. host # <<>>
      BY <2>1, <2>2, Cut
    <2>4. p + 1 = c /\ p + 2 = c + 1 /\ p - 1 = c - 2 /\ p < Len(v)
      BY <2>1, <2>2
    <2> HIDE DEF host
    <2>5. Bracketed(v) = HostAnd(host, From(v, c + 1))
      <3>1. v[p + 1] = ":" /\ From(v, p + 2) = From(v, c + 1) /\ ~(p > Len(v)) /\ p # Len(v)
        <4>1. p + 1 = c /\ p + 2 = c + 1
          BY <2>4
        <4>2. v[p + 1] = ":" /\ From(v, p + 2) = From(v, c + 1)
          BY <2>1, <4>1
        <4> QED
          BY <1>1, <2>1, <2>4, <4>2
      <3> QED
        BY <1>2, <2>3, <3>1
    <2> QED
      BY <1>3, <2>3, <2>4, <2>5 DEF HostAnd, HostAt, BracketAt, host
  <1>4. ASSUME Bracketed(v).port # NoPort PROVE BracketAt(v, p + 1)
    <2>1. p < Len(v) /\ host # <<>> /\ v[p + 1] = ":" /\ IsPort(From(v, p + 2))
      BY <1>1, <1>2, <1>4 DEF HostAnd, Nowhere
    <2>2. p >= 3
      BY <1>1, <2>1, SubSeqEmpty
    <2>3. p + 1 + 1 = p + 2 /\ p + 1 - 1 = p /\ p + 1 - 2 = p - 1
      BY <1>1
    <2> QED
      BY <1>1, <2>1, <2>2, <2>3 DEF BracketAt
  <1> QED
    BY <1>3, <1>4

LEMMA Parsed ==
  ASSUME NEW S, NEW v \in Seq(S), v # <<>>
  PROVE  LET parsed == IF v[1] = "[" THEN Bracketed(v) ELSE Plain(v)
         IN  /\ \A c : PlainAt(v, c) => parsed = HostAt(SubSeq(v, 1, c - 1), v, c)
             /\ \A c : BracketAt(v, c) => parsed = HostAt(SubSeq(v, 2, c - 2), v, c)
             /\ parsed.port # NoPort => \E c : PlainAt(v, c) \/ BracketAt(v, c)
  BY PlainParsed, BracketParsed DEF PlainAt, BracketAt

-----------------------------------------------------------------------------
(* A name followed by a colon and a port, in an address and in its view.   *)
At(s, b, c) == HostAt(Name(s, b, c), s, c)

LEMMA Positions ==
  ASSUME NEW S, NEW s \in Seq(S), NEW b \in 1..Len(s), NEW c \in 2..(Len(s) - b + 1)
  PROVE  LET v == SubSeq(s, b, Len(s))
         IN  /\ v \in Seq(S) /\ Len(v) = Len(s) - b + 1
             /\ \A k \in 1..Len(v) : v[k] = s[b + k - 1]
             /\ From(v, c + 1) = From(s, b + c)
             /\ SubSeq(v, 1, c - 1) = Name(s, b - 1, b + c - 1)
  <1> DEFINE v == SubSeq(s, b, Len(s))
  <1>1. /\ v \in Seq(S) /\ Len(v) = Len(s) - b + 1
        /\ \A k \in 1..Len(v) : v[k] = s[b + k - 1]
    BY Cut
  <1>2. From(v, c + 1) = From(s, b + c)
    <2>1. CASE c = Len(v)
      <3>1. From(v, c + 1) = <<>>
        BY <1>1, <2>1, SubSeqEmpty DEF From
      <3>2. From(s, b + c) = <<>>
        BY <1>1, <2>1, SubSeqEmpty DEF From
      <3> QED
        BY <3>1, <3>2
    <2>2. CASE c < Len(v)
      <3>1. c + 1 \in 1..(Len(s) - b + 1) /\ Len(v) \in 1..(Len(s) - b + 1)
        BY <1>1, <2>2
      <3>2. SubSeq(v, c + 1, Len(v)) = SubSeq(s, b + (c + 1) - 1, b + Len(v) - 1)
        BY <1>1, <3>1, SubSeqOfSubSeq
      <3>3. b + (c + 1) - 1 = b + c /\ b + Len(v) - 1 = Len(s)
        BY <1>1
      <3> QED
        BY <3>2, <3>3 DEF From
    <2> QED
      BY <1>1, <2>1, <2>2
  <1>3. SubSeq(v, 1, c - 1) = Name(s, b - 1, b + c - 1)
    <2>1. SubSeq(v, 1, c - 1) = SubSeq(s, b + 1 - 1, b + (c - 1) - 1)
      BY <1>1, SubSeqOfSubSeq
    <2>2. b + 1 - 1 = b - 1 + 1 /\ b + (c - 1) - 1 = b + c - 1 - 1
      OBVIOUS
    <2> QED
      BY <2>1, <2>2 DEF Name
  <1> QED
    BY <1>1, <1>2, <1>3

LEMMA NamedIs ==
  ASSUME NEW S, NEW s \in Seq(S), NEW r
  PROVE  r \in Named(s) <=>
           \E b \in 0..Len(s), c \in 1..Len(s) :
               /\ Splits(s, b, c)
               /\ \E host \in Hosts(Name(s, b, c)) : r = HostAt(host, s, c)
  <1>1. r \in Named(s) <=>
          \E x \in (0..Len(s)) \X (1..Len(s)) :
               /\ Splits(s, x[1], x[2])
               /\ \E host \in Hosts(Name(s, x[1], x[2])) : r = HostAt(host, s, x[2])
    BY DEF Named, HostAt
  <1>2. \A b \in 0..Len(s), c \in 1..Len(s) :
            /\ <<b, c>> \in (0..Len(s)) \X (1..Len(s))
            /\ <<b, c>>[1] = b /\ <<b, c>>[2] = c
    OBVIOUS
  <1>3. ASSUME NEW b \in 0..Len(s), NEW c \in 1..Len(s), Splits(s, b, c),
               NEW host \in Hosts(Name(s, b, c)), r = HostAt(host, s, c)
        PROVE  r \in Named(s)
    <2> DEFINE x == <<b, c>>
    <2>1. x \in (0..Len(s)) \X (1..Len(s)) /\ x[1] = b /\ x[2] = c
      BY <1>2
    <2> HIDE DEF x
    <2> QED
      BY <1>1, <1>3, <2>1
  <1>4. ASSUME r \in Named(s)
        PROVE  \E b \in 0..Len(s), c \in 1..Len(s) :
                   /\ Splits(s, b, c)
                   /\ \E host \in Hosts(Name(s, b, c)) : r = HostAt(host, s, c)
    <2>1. PICK x \in (0..Len(s)) \X (1..Len(s)) :
              /\ Splits(s, x[1], x[2])
              /\ \E host \in Hosts(Name(s, x[1], x[2])) : r = HostAt(host, s, x[2])
      BY <1>1, <1>4
    <2>2. x[1] \in 0..Len(s) /\ x[2] \in 1..Len(s)
      OBVIOUS
    <2> QED
      BY <2>1, <2>2
  <1> QED
    BY <1>3, <1>4

(* A colon with a port after it and a name before it. *)
ColonAt(v, c, host) ==
    /\ c \in 2..Len(v) /\ v[c] = ":" /\ IsPort(From(v, c + 1))
    /\ host \in Hosts(SubSeq(v, 1, c - 1))

LEMMA HostsOf ==
  ASSUME NEW S, NEW v \in Seq(S), NEW c, NEW host
  PROVE  ColonAt(v, c, host) <=>
            \/ PlainAt(v, c) /\ host = SubSeq(v, 1, c - 1)
            \/ BracketAt(v, c) /\ host = SubSeq(v, 2, c - 2)
  <1> SUFFICES ASSUME c \in 2..Len(v), v[c] = ":", IsPort(From(v, c + 1))
               PROVE  host \in Hosts(SubSeq(v, 1, c - 1)) <=>
                          \/ PlainAt(v, c) /\ host = SubSeq(v, 1, c - 1)
                          \/ BracketAt(v, c) /\ host = SubSeq(v, 2, c - 2)
    BY DEF ColonAt, PlainAt, BracketAt
  <1> DEFINE name == SubSeq(v, 1, c - 1)
  <1>1. /\ name \in Seq(S) /\ Len(name) = c - 1 /\ name[1] = v[1]
        /\ name # <<>> /\ Last(name) = v[c - 1]
        /\ \A x : x \in ToSet(name) <=> \E i \in 1..(c - 1) : v[i] = x
    <2>1. /\ name \in Seq(S) /\ Len(name) = c - 1 /\ name # <<>>
          /\ \A i \in 1..(c - 1) : name[i] = v[i]
          /\ \A x : x \in ToSet(name) <=> \E i \in 1..(c - 1) : v[i] = x
      BY Cut
    <2> QED
      BY <2>1 DEF Last
  <1>2. IsName(name) <=> PlainAt(v, c)
    BY <1>1 DEF IsName, PlainAt
  <1>3. /\ Inner(name) = <<>> <=> c < 4
        /\ c >= 4 => Inner(name) = SubSeq(v, 2, c - 2)
    <2>1. Inner(name) = <<>> <=> c < 4
      <3> HIDE DEF name
      <3> QED
        BY <1>1, Cut DEF Inner
    <2>2. ASSUME c >= 4 PROVE Inner(name) = SubSeq(v, 2, c - 2)
      <3>1. 2 \in 1..(c - 1 - 1 + 1) /\ c - 2 \in 1..(c - 1 - 1 + 1) /\ c - 1 \in 1..Len(v)
        BY <2>2
      <3>2. SubSeq(name, 2, c - 2) = SubSeq(v, 1 + 2 - 1, 1 + (c - 2) - 1)
        BY <1>1, <3>1, SubSeqOfSubSeq
      <3>3. 1 + 2 - 1 = 2 /\ 1 + (c - 2) - 1 = c - 2 /\ c - 1 - 1 = c - 2
        OBVIOUS
      <3> QED
        BY <1>1, <3>2, <3>3 DEF Inner
    <2> QED
      BY <2>1, <2>2
  <1>4. c >= 4 => ("]" \in ToSet(Inner(name)) <=> \E i \in 2..(c - 2) : v[i] = "]")
    <2> SUFFICES ASSUME c >= 4
                 PROVE  "]" \in ToSet(SubSeq(v, 2, c - 2)) <=> \E i \in 2..(c - 2) : v[i] = "]"
      BY <1>3
    <2> QED
      BY Cut
  <1>5. IsBracketed(name) <=> BracketAt(v, c)
    <2> HIDE DEF name
    <2> QED
      BY <1>1, <1>3, <1>4 DEF IsBracketed, BracketAt
  <1>6. BracketAt(v, c) => Inner(name) = SubSeq(v, 2, c - 2) /\ ~PlainAt(v, c)
    BY <1>3 DEF BracketAt, PlainAt
  <1> QED
    BY <1>2, <1>5, <1>6 DEF Hosts

Taken(v) == IF v[1] = "[" THEN Bracketed(v) ELSE Plain(v)

LEMMA ParsedAt ==
  ASSUME NEW S, NEW v \in Seq(S), v # <<>>, NEW r
  PROVE  (Taken(v).port # NoPort /\ r = Taken(v)) <=>
             \E c, host : ColonAt(v, c, host) /\ r = HostAt(host, v, c)
  <1>1. ASSUME NEW c, NEW host, ColonAt(v, c, host) PROVE Taken(v) = HostAt(host, v, c)
    BY <1>1, Parsed, HostsOf DEF Taken
  <1>2. ASSUME Taken(v).port # NoPort PROVE \E c, host : ColonAt(v, c, host)
    BY <1>2, Parsed, HostsOf DEF Taken
  <1>3. \A c, host : HostAt(host, v, c).port # NoPort
    BY DEF HostAt, NoPort
  <1> QED
    BY <1>1, <1>2, <1>3

ParsedTo(s, past, r) ==
    LET parsed == ParseHostPort(s, past) IN parsed.port # NoPort /\ r = parsed

LEMMA OneCharacter ==
  ASSUME NEW S, NEW s \in Seq(S), s # <<>>, Beginning(s) = Len(s), NEW past, NEW r
  PROVE  ~ParsedTo(s, past, r) /\ r \notin Named(s)
  <1>1. ~ParsedTo(s, past, r)
    <2> DEFINE v == <<s[Len(s)], past>>
    <2>1. v \in Seq({s[Len(s)], past}) /\ v # <<>> /\ Len(v) = 2
      OBVIOUS
    <2>2. Trimmed(s, past) = v
      BY DEF Trimmed
    <2> HIDE DEF v
    <2>3. ~ \E c, host : ColonAt(v, c, host)
      <3> SUFFICES ASSUME NEW c, NEW host, ColonAt(v, c, host) PROVE FALSE
        OBVIOUS
      <3>1. c \in 1..Len(v) /\ c = 2 /\ IsPort(From(v, c + 1))
        BY <2>1 DEF ColonAt
      <3>2. c < Len(v)
        BY <2>1, <3>1, AfterColon
      <3> QED
        BY <2>1, <3>1, <3>2
    <2> QED
      BY <2>1, <2>2, <2>3, ParsedAt DEF ParsedTo, ParseHostPort, Taken
  <1>2. \A k \in 1..(Len(s) - 1) : s[k] = Space
    BY Begins
  <1>3. ASSUME NEW b \in 0..Len(s), NEW c \in 1..Len(s), Splits(s, b, c) PROVE FALSE
    <2>1. Name(s, b, c) # <<>> /\ Space \notin ToSet(Name(s, b, c))
      BY <1>3 DEF Splits
    <2>2. b + 1 <= c - 1
      BY <2>1, Cut DEF Name
    <2>3. s[b + 1] # Space
      BY <2>1, <2>2, Cut DEF Name
    <2> QED
      BY <1>2, <2>2, <2>3
  <1> QED
    BY <1>1, <1>3, NamedIs

LEMMA NamedAfter ==
  ASSUME NEW S, NEW s \in Seq(S), s # <<>>, Beginning(s) # Len(s),
         NEW b \in 0..Len(s), NEW c \in 1..Len(s), Splits(s, b, c)
  PROVE  /\ b = Beginning(s) - 1
         /\ c \in (b + 2)..(Len(s) - 1)
         /\ IsPort(From(s, c + 1))
         /\ \A k \in (b + 1)..Len(s) : s[k] # Space
  <1>1. IsPort(From(s, c + 1))
    BY DEF Splits, IsPort
  <1>2. c < Len(s) /\ \A k \in (c + 1)..Len(s) : s[k] \in ToSet(Digits)
    BY <1>1, AfterColon
  <1>3. b + 1 <= c - 1 /\ \A k \in (b + 1)..(c - 1) : s[k] # Space
    BY Cut DEF Splits, Name
  <1>4. ":" # Space
    BY DEF Space
  <1>5. \A k \in (b + 1)..Len(s) : s[k] # Space
    <2> SUFFICES ASSUME NEW k \in (b + 1)..Len(s) PROVE s[k] # Space
      OBVIOUS
    <2>1. CASE k < c
      BY <1>3, <2>1
    <2>2. CASE k = c
      BY <1>4, <2>2 DEF Splits
    <2>3. CASE k > c
      BY <1>2, <2>3, NotDigits
    <2> QED
      BY <2>1, <2>2, <2>3
  <1>6. b = Beginning(s) - 1
    <2>1. \A k \in 1..b : s[k] = Space
      BY DEF Splits
    <2>2. s[b + 1] # Space /\ b + 1 \in 1..Len(s)
      BY <1>2, <1>3
    <2>3. /\ Beginning(s) \in 1..Len(s) /\ s[Beginning(s)] # Space
          /\ \A k \in 1..(Beginning(s) - 1) : s[k] = Space
      BY Begins
    <2> QED
      BY <2>1, <2>2, <2>3
  <1> QED
    BY <1>1, <1>2, <1>3, <1>5, <1>6

LEMMA Longer ==
  ASSUME NEW S, NEW s \in Seq(S), s # <<>>, Beginning(s) # Len(s), NEW past, NEW r
  PROVE  ParsedTo(s, past, r) <=> r \in Named(s)
  <1> DEFINE b == Beginning(s)
             v == SubSeq(s, b, Len(s))
  <1>1. /\ b \in 1..(Len(s) - 1) /\ s[b] # Space
        /\ \A k \in 1..(b - 1) : s[k] = Space
    BY Begins
  <1>2. PICK e \in (b + 1)..Len(s) :
            /\ Trimmed(s, past) = SubSeq(s, b, e)
            /\ \A k \in (b + 1)..(e - 1) : s[k] # Space
            /\ e = Len(s) \/ s[e] = Space
    BY View
  <1> HIDE DEF b
  <1>3. /\ v \in Seq(S) /\ Len(v) = Len(s) - b + 1
        /\ \A k \in 1..Len(v) : v[k] = s[b + k - 1]
        /\ v # <<>>
    <2>1. b \in Int /\ Len(s) \in Int /\ 1 <= b /\ b < Len(s)
      BY <1>1
    <2>2. v \in Seq(S)
      BY <2>1, Cut
    <2>5. v = <<>> => Len(v) = 0
      OBVIOUS
    <2>3. Len(v) = Len(s) - b + 1
      BY <2>1, Cut
    <2>4. \A k \in 1..(Len(s) - b + 1) : v[k] = s[b + k - 1]
      BY <2>1, Cut
    <2> HIDE DEF v
    <2> QED
      BY <2>1, <2>2, <2>3, <2>4, <2>5
  <1>4. ASSUME NEW c \in 2..Len(v)
        PROVE  /\ From(v, c + 1) = From(s, b + c)
               /\ SubSeq(v, 1, c - 1) = Name(s, b - 1, b + c - 1)
               /\ \A host : HostAt(host, v, c) = HostAt(host, s, b + c - 1)
    <2>1. b \in 1..Len(s) /\ c \in 2..(Len(s) - b + 1) /\ b + c - 1 + 1 = b + c
      BY <1>1, <1>3
    <2>2. From(v, c + 1) = From(s, b + c) /\ SubSeq(v, 1, c - 1) = Name(s, b - 1, b + c - 1)
      BY <2>1, Positions
    <2> QED
      BY <2>1, <2>2 DEF HostAt
  <1> HIDE DEF v
  <1>5. ASSUME ParsedTo(s, past, r) PROVE r \in Named(s)
    <2> DEFINE w == SubSeq(s, b, e)
    <2>1. /\ w \in Seq(S) /\ w # <<>> /\ Len(w) = e - b + 1
          /\ \A k \in 1..Len(w) : w[k] = s[b + k - 1]
      <3>1. b \in Int /\ e \in Int /\ 1 <= b /\ b < e /\ e <= Len(s)
        BY <1>1, <1>2
      <3>2. w \in Seq(S) /\ w # <<>>
        BY <3>1, Cut
      <3>3. Len(w) = e - b + 1
        BY <3>1, Cut
      <3>4. \A k \in 1..(e - b + 1) : w[k] = s[b + k - 1]
        BY <3>1, Cut
      <3> QED
        BY <3>2, <3>3, <3>4
    <2> HIDE DEF w
    <2>2. PICK c, host : ColonAt(w, c, host) /\ r = HostAt(host, w, c)
      <3>1. Trimmed(s, past) = w
        BY <1>2 DEF w
      <3>2. ParseHostPort(s, past) = Taken(w)
        BY <2>1, <3>1 DEF ParseHostPort, Taken
      <3> QED
        BY <1>5, <2>1, <3>2, ParsedAt DEF ParsedTo
    <2>3. e = Len(s)
      <3>1. c < Len(w) /\ \A k \in (c + 1)..Len(w) : w[k] \in ToSet(Digits)
        BY <2>1, <2>2, AfterColon DEF ColonAt
      <3>2. Len(w) \in (c + 1)..Len(w) /\ Len(w) \in 1..Len(w) /\ b + Len(w) - 1 = e
        <4>1. b \in Int /\ e \in Int /\ c \in Int /\ Len(w) \in Int /\ 1 <= c
          BY <1>1, <2>1, <2>2 DEF ColonAt
        <4> QED
          BY <2>1, <3>1, <4>1
      <3>3. w[Len(w)] \in ToSet(Digits)
        BY <3>1, <3>2
      <3>4. w[Len(w)] = s[b + Len(w) - 1]
        BY <2>1, <3>2
      <3>5. s[e] \in ToSet(Digits)
        BY <3>2, <3>3, <3>4
      <3> QED
        BY <1>2, <3>5, NotDigits
    <2>4. w = v
      BY <2>3 DEF v, w
    <2>5. c \in 2..Len(v) /\ v[c] = ":" /\ IsPort(From(v, c + 1)) /\ c < Len(v)
      BY <2>1, <2>2, <2>4, AfterColon DEF ColonAt
    <2>6. /\ b + c - 1 \in 1..Len(s) /\ s[b + c - 1] = ":" /\ b - 1 \in 0..Len(s)
          /\ b + c - 1 + 1 = b + c /\ b + c - 1 - 1 = b + c - 2
      BY <1>1, <1>3, <2>5
    <2>7. Name(s, b - 1, b + c - 1) # <<>> /\ Space \notin ToSet(Name(s, b - 1, b + c - 1))
      <3>1. /\ SubSeq(v, 1, c - 1) # <<>>
            /\ \A x : x \in ToSet(SubSeq(v, 1, c - 1)) <=> \E i \in 1..(c - 1) : v[i] = x
        <4>1. 1 \in Int /\ c - 1 \in Int /\ c - 1 <= Len(v) /\ 1 <= c - 1
          BY <1>3, <2>5
        <4>2. SubSeq(v, 1, c - 1) # <<>>
          BY <1>3, <4>1, Cut
        <4>3. \A x : x \in ToSet(SubSeq(v, 1, c - 1)) <=> \E i \in 1..(c - 1) : v[i] = x
          BY <1>3, <4>1, Cut
        <4> QED
          BY <4>2, <4>3
      <3>2. ASSUME NEW i \in 1..(c - 1) PROVE v[i] # Space
        <4>1. v[i] = s[b + i - 1] /\ b + i - 1 \in b..(e - 1)
          BY <1>1, <1>3, <2>3, <2>5
        <4> QED
          BY <1>1, <1>2, <4>1
      <3> QED
        BY <1>4, <2>5, <3>1, <3>2
    <2>8. Splits(s, b - 1, b + c - 1)
      BY <1>1, <1>4, <2>5, <2>6, <2>7 DEF Splits, IsPort
    <2>9. host \in Hosts(Name(s, b - 1, b + c - 1)) /\ r = HostAt(host, s, b + c - 1)
      BY <1>4, <2>2, <2>4, <2>5 DEF ColonAt
    <2> QED
      BY <2>6, <2>8, <2>9, NamedIs
  <1>6. ASSUME r \in Named(s) PROVE ParsedTo(s, past, r)
    <2>1. PICK a \in 0..Len(s), d \in 1..Len(s) :
              /\ Splits(s, a, d)
              /\ \E host \in Hosts(Name(s, a, d)) : r = HostAt(host, s, d)
      BY <1>6, NamedIs
    <2>2. /\ a = b - 1 /\ d \in (a + 2)..(Len(s) - 1) /\ IsPort(From(s, d + 1))
          /\ \A k \in (a + 1)..Len(s) : s[k] # Space
      BY <2>1, NamedAfter DEF b
    <2>3. e = Len(s)
      BY <1>1, <1>2, <2>2
    <2> DEFINE c == d - b + 1
    <2>4. c \in 2..Len(v) /\ b + c - 1 = d /\ b + c = d + 1 /\ v[c] = ":"
      <3>1. c \in 2..Len(v) /\ b + c - 1 = d /\ b + c = d + 1
        BY <1>1, <1>3, <2>2
      <3> HIDE DEF c
      <3> QED
        BY <1>3, <2>1, <3>1 DEF Splits
    <2> HIDE DEF c
    <2>5. PICK host : ColonAt(v, c, host) /\ r = HostAt(host, v, c)
      BY <1>4, <2>1, <2>2, <2>4 DEF ColonAt
    <2>6. Trimmed(s, past) = v
      BY <1>2, <2>3 DEF v
    <2> QED
      BY <1>3, <2>5, <2>6, ParsedAt DEF ParsedTo, ParseHostPort, Taken
  <1> QED
    BY <1>5, <1>6

(* The parser is exact for every address, whatever follows it in memory.   *)
THEOREM ParserIsExact ==
  ASSUME NEW S, NEW s \in Seq(S), NEW past
  PROVE  LET parsed == ParseHostPort(s, past)
         IN  Named(s) = IF parsed.port = NoPort THEN {} ELSE {parsed}
  <1>1. ASSUME NEW r PROVE ParsedTo(s, past, r) <=> r \in Named(s)
    <2>1. CASE s = <<>>
      <3>1. Trimmed(s, past) = <<>>
        BY <2>1 DEF Trimmed
      <3>2. ~ParsedTo(s, past, r)
        BY <3>1 DEF ParsedTo, ParseHostPort, Nowhere
      <3>3. 1..Len(s) = {}
        BY <2>1
      <3> QED
        BY <3>2, <3>3, NamedIs
    <2>2. CASE s # <<>>
      BY <2>2, OneCharacter, Longer
    <2> QED
      BY <2>1, <2>2
  <1> QED
    BY <1>1 DEF ParsedTo

ParsedInv ==
    /\ address = [c \in Frames |-> address[c]]
    /\ asked = [c \in Frames |-> asked[c]]
    /\ ParseExact

LEMMA ParsedKept ==
  ASSUME ParsedInv,
         address' = address \/ \E c, s : address' = [address EXCEPT ![c] = s],
         asked' = asked,
         \A c \in Frames : step'[c] = "parsed" => step[c] = "parsed" /\ address'[c] = address[c]
  PROVE  ParsedInv'
  BY DEF ParsedInv, ParseExact

LEMMA ParseParses ==
  ASSUME ClientInv, ParsedInv, NEW t \in Tasks, Parse(t)
  PROVE  ParsedInv'
  <1>1. PICK s \in Addresses, past \in Past :
            /\ address' = [address EXCEPT ![top[t]] = s]
            /\ asked' = [asked EXCEPT ![top[t]] = ParseHostPort(s, past)]
    BY DEF Parse
  <1>2. Proceeds(t, "parse", "parsed")
    BY DEF Parse
  <1>3. top[t] \in Frames /\ \A f \in Frames : f # top[t] => step'[f] = step[f]
    BY <1>2, ProceedsTypes
  <1>4. asked'[top[t]] = ParseHostPort(s, past) /\ address'[top[t]] = s
    BY <1>1, <1>3 DEF ParsedInv
  <1>5. Named(s) = IF Usable(ParseHostPort(s, past)) THEN {ParseHostPort(s, past)} ELSE {}
    BY AddressAssumption, ParserIsExact DEF Usable, Nowhere
  <1>6. ParseExact'
    <2> SUFFICES ASSUME NEW c \in Frames, step'[c] = "parsed"
                 PROVE  Named(address'[c]) = IF Usable(asked'[c]) THEN {asked'[c]} ELSE {}
      BY DEF ParseExact, Usable
    <2>1. CASE c = top[t]
      BY <1>4, <1>5, <2>1
    <2>2. CASE c # top[t]
      <3>1. asked'[c] = asked[c] /\ address'[c] = address[c] /\ step[c] = "parsed"
        BY <1>1, <1>3, <2>2 DEF ParsedInv
      <3> QED
        BY <3>1 DEF ParsedInv, ParseExact
    <2> QED
      BY <2>1, <2>2
  <1> QED
    BY <1>1, <1>6 DEF ParsedInv

LEMMA ParsedNext == ClientInv /\ ParsedInv /\ [ConnectNext]_allVars => ParsedInv'
  <1> SUFFICES ASSUME ClientInv, ParsedInv, [ConnectNext]_allVars PROVE ParsedInv'
    OBVIOUS
  <1>0. StepTypes
    BY DEF ClientInv, OrderInv
  <1>1. ASSUME UNCHANGED connectVars PROVE ParsedInv'
    BY <1>1, ParsedKept DEF connectVars
  <1>2. ASSUME NEW t \in Tasks, NEW s, NEW next, s # "other", Proceeds(t, s, next),
               next \in {"resolving", "connecting", "over"},
               address' = address \/ address' = [address EXCEPT ![top[t]] = <<>>], asked' = asked
        PROVE  ParsedInv'
    <2>1. /\ step'[top[t]] = next /\ top[t] \in Frames
          /\ \A f \in Frames : f # top[t] => step'[f] = step[f]
      BY <1>2, ProceedsTypes
    <2>2. \A c \in Frames : c # top[t] => address'[c] = address[c]
      BY <1>2 DEF ParsedInv
    <2> QED
      BY <1>2, <2>1, <2>2, ParsedKept
  <1>3. ASSUME NEW t \in Tasks, ConnectStep(t) PROVE ParsedInv'
    <2>1. CASE Parse(t)
      BY <2>1, ParseParses
    <2>2. CASE Refuse(t)
      BY <1>2, <2>2 DEF Refuse
    <2>3. CASE Resolve(t)
      BY <1>2, <2>3 DEF Resolve
    <2>4. CASE ConnectSocket(t)
      BY <1>2, <2>4 DEF ConnectSocket
    <2>5. CASE ReturnSocket(t)
      BY <1>2, <2>5 DEF ReturnSocket
    <2>6. CASE ReturnError(t)
      BY <1>2, <2>6 DEF ReturnError
    <2> QED
      BY <1>3, <2>1, <2>2, <2>3, <2>4, <2>5, <2>6 DEF ConnectStep
  <1>4. ASSUME NEW t \in Tasks, NEW c \in Children, CreateConnect(t, c) PROVE ParsedInv'
    <2>1. step' = [step EXCEPT ![c] = "parse"] /\ UNCHANGED <<address, asked>>
      BY <1>4 DEF CreateConnect
    <2>2. \A f \in Frames : step'[f] = "parsed" => step[f] = "parsed"
      BY <1>0, <2>1 DEF StepTypes
    <2> QED
      BY <2>1, <2>2, ParsedKept
  <1> QED
    BY <1>1, <1>3, <1>4 DEF ConnectNext, ProgramStep, allVars

(* connect_to() finds a host and a port in exactly the addresses that have *)
(* them, of any length and any characters, and whatever bytes follow them. *)
THEOREM ParsesExactly == ConnectSpec => []ParseExact
  <1>1. ConnectInit => ParsedInv
    BY DEF ConnectInit, ParsedInv, ParseExact
  <1>2. ParsedInv => ParseExact
    BY DEF ParsedInv
  <1> QED
    BY <1>1, <1>2, ParsedNext, ClientInvInvariance, PTL DEF ConnectSpec
=============================================================================
