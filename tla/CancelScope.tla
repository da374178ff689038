---------------------------- MODULE CancelScope ----------------------------
(***************************************************************************)
(* include/coasio/cancel_scope.hpp: one cancel_scope, the cancel_guards    *)
(* bound to it, the coroutines that own the guards and the threads that    *)
(* call cancel().                                                          *)
(*                                                                         *)
(* The scope's mutex mtx_ is held across a whole sweep, callbacks          *)
(* included, so `mtx` is a variable; arm() and disarm() hold it for one    *)
(* critical section, which is one action here.  The intrusive list is the  *)
(* set `linked` of the guards reachable from head_: no property depends on *)
(* the order in which a sweep visits them (the pointer code is that of     *)
(* IntrusiveList, which the roots of Runtime use).                         *)
(***************************************************************************)
EXTENDS Naturals, FiniteSets

CONSTANTS
    Guards,      \* cancel_guard objects, each inside one awaiter
    Scoped,      \* the guards bound to the scope, the rest have scope_ == nullptr
    Cancellers,  \* threads that call cancel(): abort(), ~runtime(), ~cancel_scope()
    NoThread,    \* mtx_ is free
    NoGuard      \* the null cancel_guard *

ASSUME ScopeAssumption ==
    /\ Scoped \subseteq Guards
    /\ NoThread \notin Cancellers
    /\ NoGuard \notin Guards

VARIABLES
    cancelled,   \* cancelled_
    mtx,         \* the thread that holds mtx_
    linked,      \* the guards on the list that starts at head_
    state,       \* state[g]: state_
    owner,       \* owner[g]: how far the awaiter that holds g has got
    answers,     \* answers[g]: what disarm() has returned so far
    calls,       \* calls[g]: how often g's callback has run to its end
    pc,          \* pc[c]: where canceller c is inside cancel()
    firing       \* firing[c]: the guard c has unlinked and whose callback it runs next

vars == <<cancelled, mtx, linked, state, owner, answers, calls, pc, firing>>

GuardStates == {"idle", "armed", "fired", "disarmed"}
OwnerPhases == {"bound", "waiting", "refused", "resumed", "gone"}
CancelSteps == {"idle", "locking", "sweeping", "done"}

Init ==
    /\ cancelled = FALSE
    /\ mtx = NoThread
    /\ linked = {}
    /\ state = [g \in Guards |-> "idle"]
    /\ owner = [g \in Guards |-> "bound"]
    /\ answers = [g \in Guards |-> {}]
    /\ calls = [g \in Guards |-> 0]
    /\ pc = [c \in Cancellers |-> "idle"]
    /\ firing = [c \in Cancellers |-> NoGuard]

-----------------------------------------------------------------------------
(* The owner's side: arm(), disarm() and the destructor.                   *)

MutexIgnored(g) == TRUE     \* a mutant of MayLock: arm and disarm forget the lock

(* A guard without a scope never takes the mutex. *)
MayLock(g) == g \in Scoped => mtx = NoThread

ArmsAnyway(g) == FALSE      \* a mutant of Refused: cancelled_ is not re-read under the lock

Refused(g) == g \in Scoped /\ cancelled

Arm(g) ==
    /\ owner[g] = "bound"
    /\ MayLock(g)
    /\ IF Refused(g)
       THEN /\ owner' = [owner EXCEPT ![g] = "refused"]
            /\ UNCHANGED <<linked, state>>
       ELSE /\ owner' = [owner EXCEPT ![g] = "waiting"]
            /\ linked' = linked \union ({g} \intersect Scoped)
            /\ state' = [state EXCEPT ![g] = "armed"]
    /\ UNCHANGED <<cancelled, mtx, answers, calls, pc, firing>>

(* disarm(): without a scope the state is exchanged whatever it was; with  *)
(* one, only an armed guard is unlinked.                                   *)
DisarmEffect(g) ==
    /\ MayLock(g)
    /\ linked' = linked \ {g}
    /\ state' = IF g \in Scoped /\ state[g] # "armed"
                THEN state
                ELSE [state EXCEPT ![g] = "disarmed"]
    /\ answers' = [answers EXCEPT ![g] = @ \union {state[g] = "armed"}]

(* Completion handlers and await_resume() call it, often both. *)
Disarm(g) ==
    /\ owner[g] \in {"waiting", "refused", "resumed"}
    /\ DisarmEffect(g)
    /\ owner' = [owner EXCEPT ![g] = "resumed"]
    /\ UNCHANGED <<cancelled, mtx, calls, pc, firing>>

FreedInPlace(g) ==          \* a mutant of Destroy: the destructor does not disarm
    /\ owner[g] # "gone"
    /\ owner' = [owner EXCEPT ![g] = "gone"]
    /\ UNCHANGED <<cancelled, mtx, linked, state, answers, calls, pc, firing>>

(* ~cancel_guard(), at any point of the awaiter's life. *)
Destroy(g) ==
    /\ owner[g] # "gone"
    /\ DisarmEffect(g)
    /\ owner' = [owner EXCEPT ![g] = "gone"]
    /\ UNCHANGED <<cancelled, mtx, calls, pc, firing>>

-----------------------------------------------------------------------------
(* cancel(): the unlocked test, the locked exchange, then the sweep.       *)

CancelCheck(c) ==
    /\ pc[c] = "idle"
    /\ pc' = [pc EXCEPT ![c] = IF cancelled THEN "done" ELSE "locking"]
    /\ UNCHANGED <<cancelled, mtx, linked, state, owner, answers, calls, firing>>

CancelLock(c) ==
    /\ pc[c] = "locking"
    /\ mtx = NoThread
    /\ cancelled' = TRUE
    /\ mtx' = IF cancelled THEN NoThread ELSE c
    /\ pc' = [pc EXCEPT ![c] = IF cancelled THEN "done" ELSE "sweeping"]
    /\ UNCHANGED <<linked, state, owner, answers, calls, firing>>

LeftLinked(g) == linked     \* a mutant of Unlinked: the sweep forgets unlink_locked

Unlinked(g) == linked \ {g}

CancelPop(c, g) ==
    /\ pc[c] = "sweeping"
    /\ firing[c] = NoGuard
    /\ g \in linked
    /\ linked' = Unlinked(g)
    /\ state' = [state EXCEPT ![g] = "fired"]
    /\ firing' = [firing EXCEPT ![c] = g]
    /\ UNCHANGED <<cancelled, mtx, owner, answers, calls, pc>>

CancelCall(c) ==
    /\ firing[c] # NoGuard
    /\ calls' = [calls EXCEPT ![firing[c]] = @ + 1]
    /\ firing' = [firing EXCEPT ![c] = NoGuard]
    /\ UNCHANGED <<cancelled, mtx, linked, state, owner, answers, pc>>

SweepOnce == TRUE           \* a mutant of SweepDone: `if (head_)` instead of `while (head_)`

SweepDone == linked = {}

CancelUnlock(c) ==
    /\ pc[c] = "sweeping"
    /\ firing[c] = NoGuard
    /\ SweepDone
    /\ mtx' = NoThread
    /\ pc' = [pc EXCEPT ![c] = "done"]
    /\ UNCHANGED <<cancelled, linked, state, owner, answers, calls, firing>>

CancelStep(c) ==
    \/ CancelLock(c)
    \/ \E g \in Guards : CancelPop(c, g)
    \/ CancelCall(c)
    \/ CancelUnlock(c)

-----------------------------------------------------------------------------
Next ==
    \/ \E g \in Guards : Arm(g) \/ Disarm(g) \/ Destroy(g)
    \/ \E c \in Cancellers : CancelCheck(c) \/ CancelStep(c)

(* A thread that has entered cancel() keeps being scheduled; nobody is     *)
(* obliged to call cancel(), arm() or disarm().                            *)
Fairness == \A c \in Cancellers : WF_vars(CancelStep(c))

Spec == Init /\ [][Next]_vars
FairSpec == Spec /\ Fairness
-----------------------------------------------------------------------------
(* The variables hold values of their C++ types, and no callback has run   *)
(* twice (the counter stays within 0..1).                                  *)
TypeOK ==
    /\ cancelled \in BOOLEAN
    /\ mtx \in Cancellers \union {NoThread}
    /\ linked \subseteq Scoped
    /\ state \in [Guards -> GuardStates]
    /\ owner \in [Guards -> OwnerPhases]
    /\ answers \in [Guards -> SUBSET BOOLEAN]
    /\ calls \in [Guards -> 0..1]
    /\ pc \in [Cancellers -> CancelSteps]
    /\ firing \in [Cancellers -> Guards \union {NoGuard}]

(* cancel_scope.hpp:57-59.  A guard whose disarm() returned true never   *)
(* has its callback run, and one whose disarm() returned false after it    *)
(* fired has had its callback run to the end before that return.           *)
CallbackContract ==
    \A g \in Guards :
        /\ TRUE \in answers[g] => calls[g] = 0
        /\ FALSE \in answers[g] /\ state[g] = "fired" => calls[g] = 1

(* No sweep can reach a guard whose awaiter has been destroyed, neither on *)
(* the list nor as the guard whose callback is about to run.               *)
NoDanglingGuard ==
    /\ \A g \in linked : owner[g] # "gone"
    /\ \A c \in Cancellers : firing[c] # NoGuard => owner[firing[c]] # "gone"

(* No lost cancellation: once the scope is cancelled and no sweep is in    *)
(* progress, no guard bound to it is still armed, whichever of arm() and   *)
(* cancel() came first.                                                    *)
NoneLeftArmed ==
    cancelled /\ mtx = NoThread => \A g \in Scoped : state[g] # "armed"

(* A cancelled scope reaches every armed guard: its callback is run.       *)
CancelReachesArmed ==
    \A g \in Scoped : (cancelled /\ state[g] = "armed") ~> calls[g] = 1

(* The scope implements the one-shot tokens of CancelToken: the callback   *)
(* counts as run when it has returned, so a guard that has fired but whose *)
(* callback is pending is still armed in the abstract.                     *)
AbstractToken(g) ==
    IF calls[g] > 0 THEN "ran"
    ELSE IF state[g] \in {"armed", "fired"} THEN "armed"
    ELSE IF TRUE \in answers[g] THEN "stopped" ELSE "idle"

Token == INSTANCE CancelToken WITH
            requested <- cancelled,
            token <- [g \in Guards |-> AbstractToken(g)]

ImplementsToken == Token!Spec
=============================================================================
