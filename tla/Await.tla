------------------------------- MODULE Await -------------------------------
(***************************************************************************)
(* What every awaitable of the library promises to the coroutine that      *)
(* awaits it, whatever it waits for: once suspended the coroutine is woken *)
(* once, by the event or by a cancellation, and after a cancellation it is *)
(* woken even if the event never comes.  Oneshot, AsyncOp, SpawnBlocking   *)
(* and Semaphore are shown to implement it, and Runtime relies on it.      *)
(***************************************************************************)
CONSTANT Tasks

VARIABLES
    phase,      \* phase[t]: "running", "suspended", "woken" (in the run queue), "ended"
    requested   \* the tasks whose scope has been cancelled

vars == <<phase, requested>>

(* A task has been spawned, or runs already.                               *)
Init ==
    /\ phase \in [Tasks -> {"woken", "running"}]
    /\ requested = {}

Moves(t, from, to) ==
    /\ phase[t] = from
    /\ phase' = [phase EXCEPT ![t] = to]
    /\ UNCHANGED requested

(* A co_await that has to wait.                                            *)
Suspend(t) == Moves(t, "running", "suspended")

(* runtime_schedule()                                                      *)
Wake(t) == Moves(t, "suspended", "woken")

(* worker::run() *)
Resume(t) == Moves(t, "woken", "running")

(* Its frame is destroyed. *)
End(t) == Moves(t, "running", "ended")

Cancel(t) ==
    /\ t \notin requested
    /\ requested' = requested \union {t}
    /\ UNCHANGED phase

Next == \E t \in Tasks : Suspend(t) \/ Wake(t) \/ Resume(t) \/ End(t) \/ Cancel(t)

Spec == Init /\ [][Next]_vars

(* What is in the run queue is resumed, and a cancelled task is woken.     *)
Fairness ==
    \A t \in Tasks : WF_vars(Resume(t)) /\ WF_vars(t \in requested /\ Wake(t))

FairSpec == Spec /\ Fairness
=============================================================================
