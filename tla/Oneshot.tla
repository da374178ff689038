------------------------------ MODULE Oneshot ------------------------------
(***************************************************************************)
(* include/coasio/sync/oneshot.hpp: one channel, the thread that owns its  *)
(* sender, the coroutine that awaits its receiver, the workers that resume *)
(* that coroutine and the thread that cancels the coroutine's scope.       *)
(*                                                                         *)
(* Every critical section of state<T>::mtx_ is one action; what the code   *)
(* does after the unlock (waking the receiver) is an action of its own.    *)
(* The scope is the one of CancelScope with one guard: its mutex is held   *)
(* from Cancel to CancelUnlock and arm() and disarm() wait for it.         *)
(***************************************************************************)
EXTENDS Naturals

CONSTANTS
    Values,      \* what a sender may send
    NoValue      \* value_ is disengaged

ASSUME ValueAssumption ==
    /\ NoValue \notin Values
    /\ Values \intersect {"pending", "cancelled", "channel_closed"} = {}

VARIABLES
    value,             \* value_
    ready,             \* ready_
    sender_dropped,    \* sender_dropped_
    receiver_dropped,  \* receiver_dropped_
    cancelled,         \* cancelled_ of the channel
    waiter,            \* waiter_ holds the receiver's handle
    sender,            \* where the owner of the sender is
    receiver,          \* where the receiving coroutine is
    scope,             \* where cancel() of the coroutine's scope is
    guard,             \* state_ of the awaiter's cancel_guard
    disarms,           \* what disarm() has answered
    scheduled,         \* how often the receiver's handle is in the run queue
    sent,              \* sent[v]: what send(v) answered
    result             \* what co_await gave

channel == <<value, ready, sender_dropped, receiver_dropped, cancelled, waiter>>
guarding == <<guard, disarms>>
vars == <<channel, sender, receiver, scope, guarding, scheduled, sent, result>>

Init ==
    /\ value = NoValue
    /\ ready = FALSE
    /\ sender_dropped = FALSE
    /\ receiver_dropped = FALSE
    /\ cancelled = FALSE
    /\ waiter = FALSE
    /\ sender = "idle"
    /\ receiver = "held"
    /\ scope = "live"
    /\ guard = "idle"
    /\ disarms = {}
    /\ scheduled = 0
    /\ sent = [v \in Values |-> "unsent"]
    /\ result = "pending"

Requested == scope # "live"                \* cancel_scope::cancelled()

MutexIgnored == TRUE                       \* a mutant of ScopeFree

ScopeFree == scope \in {"live", "done"}    \* nobody holds the scope's mutex

Resolved == ready \/ sender_dropped \/ cancelled

-----------------------------------------------------------------------------
(* The sender.                                                             *)

CancelledForgotten == ready \/ receiver_dropped  \* a mutant of Refuses

Refuses == ready \/ receiver_dropped \/ cancelled

(* set_value() up to the unlock. *)
Send(v) ==
    /\ sender = "idle"
    /\ sent[v] = "unsent"
    /\ IF Refuses
       THEN /\ sent' = [sent EXCEPT ![v] = "refused"]
            /\ UNCHANGED <<value, ready, waiter, sender>>
       ELSE /\ sent' = [sent EXCEPT ![v] = "accepted"]
            /\ value' = v
            /\ ready' = TRUE
            /\ waiter' = FALSE
            /\ sender' = IF waiter THEN "waking" ELSE "idle"
    /\ UNCHANGED <<sender_dropped, receiver_dropped, cancelled, receiver, scope,
                   guarding, scheduled, result>>

(* ~sender() or a move assignment: mark_sender_dropped() up to the unlock. *)
DropSender ==
    /\ sender = "idle"
    /\ IF Resolved
       THEN /\ sender' = "gone"
            /\ UNCHANGED <<sender_dropped, waiter>>
       ELSE /\ sender_dropped' = TRUE
            /\ waiter' = FALSE
            /\ sender' = IF waiter THEN "dropping" ELSE "gone"
    /\ UNCHANGED <<value, ready, receiver_dropped, cancelled, receiver, scope,
                   guarding, scheduled, sent, result>>

(* runtime_schedule(rt_, to_wake), after the unlock of either. *)
SenderWakes ==
    /\ sender \in {"waking", "dropping"}
    /\ scheduled' = scheduled + 1
    /\ sender' = IF sender = "waking" THEN "idle" ELSE "gone"
    /\ UNCHANGED <<channel, receiver, scope, guarding, sent, result>>

-----------------------------------------------------------------------------
(* The receiver.                                                           *)

(* ~receiver() of one that was never awaited. *)
DropReceiver ==
    /\ receiver = "held"
    /\ receiver_dropped' = TRUE
    /\ receiver' = "gone"
    /\ UNCHANGED <<value, ready, sender_dropped, cancelled, waiter, sender, scope,
                   guarding, scheduled, sent, result>>

ReceiverMoves(to) ==
    /\ receiver' = to
    /\ UNCHANGED <<value, ready, sender_dropped, receiver_dropped, cancelled, sender,
                   scope, scheduled, sent>>

(* await_ready(): the scope's flag, then the channel under its lock. *)
TestScope ==
    /\ receiver = "held"
    /\ ReceiverMoves(IF Requested THEN "resuming" ELSE "testing")
    /\ UNCHANGED <<waiter, guarding, result>>

TestChannel ==
    /\ receiver = "testing"
    /\ ReceiverMoves(IF ready \/ sender_dropped THEN "resuming" ELSE "arming")
    /\ UNCHANGED <<waiter, guarding, result>>

(* await_suspend(): arm(), then waiter_ under the channel's lock. *)
Arm ==
    /\ receiver = "arming"
    /\ ScopeFree
    /\ IF Requested
       THEN ReceiverMoves("resuming") /\ UNCHANGED guard
       ELSE ReceiverMoves("suspending") /\ guard' = "armed"
    /\ UNCHANGED <<waiter, disarms, result>>

StaysUnread == ~sender_dropped /\ ~cancelled     \* a mutant of Stays: ready_ is not re-read

Stays == ~Resolved

Suspend ==
    /\ receiver = "suspending"
    /\ IF Stays
       THEN ReceiverMoves("suspended") /\ waiter' = TRUE
       ELSE ReceiverMoves("resuming") /\ UNCHANGED waiter
    /\ UNCHANGED <<guarding, result>>

(* A worker pops the handle from the run queue and resumes it, wherever    *)
(* the coroutine is. *)
Resume ==
    /\ scheduled > 0
    /\ scheduled' = scheduled - 1
    /\ receiver' = "resuming"
    /\ UNCHANGED <<channel, sender, scope, guarding, sent, result>>

DisarmGuard ==
    /\ ScopeFree
    /\ guard' = IF guard = "armed" THEN "disarmed" ELSE guard
    /\ disarms' = disarms \union {guard = "armed"}

(* await_resume(): disarm(), then the outcome under the channel's lock. *)
Disarm ==
    /\ receiver = "resuming"
    /\ DisarmGuard
    /\ ReceiverMoves("reading")
    /\ UNCHANGED <<waiter, result>>

EmptyRead ==                       \* a mutant of Outcome: value_ is read without a look at ready_
    IF cancelled \/ Requested THEN "cancelled" ELSE value

Outcome ==
    IF ready THEN value
    ELSE IF cancelled \/ Requested THEN "cancelled"
    ELSE "channel_closed"

Read ==
    /\ receiver = "reading"
    /\ result' = Outcome
    /\ ReceiverMoves("resumed")
    /\ UNCHANGED <<waiter, guarding>>

(* ~awaiter(), then ~cancel_guard() of its member. *)
DropAwaiter ==
    /\ receiver = "resumed"
    /\ receiver_dropped' = TRUE
    /\ receiver' = "dropping"
    /\ UNCHANGED <<value, ready, sender_dropped, cancelled, waiter, sender, scope,
                   guarding, scheduled, sent, result>>

DropGuard ==
    /\ receiver = "dropping"
    /\ DisarmGuard
    /\ ReceiverMoves("gone")
    /\ UNCHANGED <<waiter, result>>

-----------------------------------------------------------------------------
(* The canceller: cancel() takes the scope's mutex and unlinks the guard,  *)
(* whose callback is cancel_and_take_waiter() and a wake-up.               *)

Cancel ==
    /\ scope = "live"
    /\ IF guard = "armed"
       THEN scope' = "firing" /\ guard' = "fired"
       ELSE scope' = "done" /\ UNCHANGED guard
    /\ UNCHANGED <<channel, sender, receiver, disarms, scheduled, sent, result>>

AlwaysWakes == TRUE         \* a mutant of TookWaiter: whether waiter_ was null is not looked at

TookWaiter == waiter

Callback ==
    /\ scope = "firing"
    /\ IF Resolved
       THEN /\ scope' = "unlocking"
            /\ UNCHANGED <<cancelled, waiter>>
       ELSE /\ cancelled' = TRUE
            /\ waiter' = FALSE
            /\ scope' = IF TookWaiter THEN "waking" ELSE "unlocking"
    /\ UNCHANGED <<value, ready, sender_dropped, receiver_dropped, sender, receiver,
                   guarding, scheduled, sent, result>>

CancelWakes ==
    /\ scope = "waking"
    /\ scheduled' = scheduled + 1
    /\ scope' = "unlocking"
    /\ UNCHANGED <<channel, sender, receiver, guarding, sent, result>>

CancelUnlock ==
    /\ scope = "unlocking"
    /\ scope' = "done"
    /\ UNCHANGED <<channel, sender, receiver, guarding, scheduled, sent, result>>

-----------------------------------------------------------------------------
ReceiverStep ==
    \/ TestChannel \/ Arm \/ Suspend \/ Resume
    \/ Disarm \/ Read \/ DropAwaiter \/ DropGuard

CancelStep == Callback \/ CancelWakes \/ CancelUnlock

Next ==
    \/ \E v \in Values : Send(v)
    \/ DropSender \/ SenderWakes
    \/ DropReceiver \/ TestScope \/ ReceiverStep
    \/ Cancel \/ CancelStep

(* A thread inside a call keeps being scheduled and a worker eventually    *)
(* takes what is in the run queue; nobody has to send, drop, await or      *)
(* cancel. *)
Fairness ==
    /\ WF_vars(SenderWakes)
    /\ WF_vars(ReceiverStep)
    /\ WF_vars(CancelStep)

Spec == Init /\ [][Next]_vars
FairSpec == Spec /\ Fairness

-----------------------------------------------------------------------------
(* The variables hold values of their C++ types, and the handle is at most *)
(* once in the run queue. *)
TypeOK ==
    /\ value \in Values \union {NoValue}
    /\ ready \in BOOLEAN
    /\ sender_dropped \in BOOLEAN
    /\ receiver_dropped \in BOOLEAN
    /\ cancelled \in BOOLEAN
    /\ waiter \in BOOLEAN
    /\ sender \in {"idle", "waking", "dropping", "gone"}
    /\ receiver \in {"held", "testing", "arming", "suspending", "suspended", "resuming",
                     "reading", "resumed", "dropping", "gone"}
    /\ scope \in {"live", "firing", "waking", "unlocking", "done"}
    /\ guard \in {"idle", "armed", "fired", "disarmed"}
    /\ disarms \in SUBSET BOOLEAN
    /\ scheduled \in 0..1
    /\ sent \in [Values -> {"unsent", "accepted", "refused"}]
    /\ result \in Values \union {"pending", "cancelled", "channel_closed"}

(* The wake-ups in flight: in the run queue, or between the unlock and     *)
(* runtime_schedule() in one of the threads. *)
Wakeups ==
    scheduled + (IF sender \in {"waking", "dropping"} THEN 1 ELSE 0)
              + (IF scope = "waking" THEN 1 ELSE 0)

(* The handle is resumed once per suspension, and never unless the         *)
(* coroutine is suspended and nobody else can take it: send, drop and      *)
(* cancel race for waiter_ and one of them wins. *)
WokenOnce ==
    /\ Wakeups <= 1
    /\ Wakeups = 1 => receiver = "suspended" /\ ~waiter

(* Of a value, a dropped sender and a cancellation, at most one resolves   *)
(* the channel (the early returns of set_value, mark_sender_dropped and    *)
(* cancel_and_take_waiter). *)
OneResolution ==
    /\ ~(ready /\ sender_dropped)
    /\ ~(ready /\ cancelled)
    /\ ~(sender_dropped /\ cancelled)

Accepted == {v \in Values : sent[v] = "accepted"}

(* What the two ends are told agrees: a value received is the one that was *)
(* accepted; "closed" means the sender left without sending, "cancelled"   *)
(* that the scope was; and a receiver that got as far as arming its guard  *)
(* never misses a value its sender was told is accepted.  (One refused by  *)
(* arm() may: it reports "cancelled" while the channel is still open.)     *)
EndsAgree ==
    /\ result \in Values => Accepted = {result}
    /\ result = "channel_closed" => sender_dropped /\ Accepted = {}
    /\ result = "cancelled" => Requested
    /\ result \in {"cancelled", "channel_closed"} /\ guard # "idle" => Accepted = {}

(* No lost wake-up: a receiver that is suspended on a channel that gets    *)
(* resolved, or whose scope is cancelled, comes back from co_await. *)
ComesBack ==
    (receiver = "suspended" /\ (Resolved \/ Requested)) ~> result # "pending"

(* The awaiter and the scope use the guard as CancelToken allows: it is    *)
(* armed once, before the scope is cancelled, and the callback is over     *)
(* when a disarm() that comes too late returns. *)
AbstractGuard ==
    IF guard = "fired" /\ scope \in {"unlocking", "done"} THEN "ran"
    ELSE IF guard \in {"armed", "fired"} THEN "armed"
    ELSE IF guard = "disarmed" THEN "stopped" ELSE "idle"

Token == INSTANCE CancelToken WITH
            Guards <- {"guard"},
            Scoped <- {"guard"},
            requested <- Requested,
            token <- [g \in {"guard"} |-> AbstractGuard],
            answers <- [g \in {"guard"} |-> disarms]

UsesToken == Token!Spec

(* The receiving coroutine as Await sees it: suspended from the moment its *)
(* handle is in waiter_ until a sender or the scope has scheduled it. *)
Phase ==
    IF scheduled > 0 THEN "woken"
    ELSE IF receiver = "suspended" THEN "suspended" ELSE "running"

Promise == INSTANCE Await WITH
               Tasks <- {"receiver"},
               phase <- [t \in {"receiver"} |-> Phase],
               requested <- IF Requested THEN {"receiver"} ELSE {}
=============================================================================
