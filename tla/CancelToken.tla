---------------------------- MODULE CancelToken ----------------------------
(***************************************************************************)
(* What include/coasio/cancel_scope.hpp promises to an awaitable, taken    *)
(* from what cancel_guard and cancel_scope do.  A guard is a one-shot      *)
(* token: once armed it ends up either stopped by its owner or run by a    *)
(* cancellation, never both; and an owner that is told "too late" may      *)
(* rely on the callback being over.  CancelScope implements this module    *)
(* with a mutex, an intrusive list and a sweep that fires one guard at a   *)
(* time.                                                                   *)
(***************************************************************************)
CONSTANTS
    Guards,     \* every cancel_guard
    Scoped      \* those bound to the scope; the others have a null scope_

VARIABLES
    requested,  \* somebody has cancelled the scope
    token,      \* token[g]: where guard g stands
    answers     \* answers[g]: the values disarm() has returned for g

tokenVars == <<requested, token, answers>>

TokenStates == {"idle", "armed", "ran", "stopped"}

Init ==
    /\ requested = FALSE
    /\ token = [g \in Guards |-> "idle"]
    /\ answers = [g \in Guards |-> {}]

Request ==
    /\ requested' = TRUE
    /\ UNCHANGED <<token, answers>>

(* arm() succeeds unless the scope is already cancelled; a refused guard   *)
(* stays idle for ever. *)
Arm(g) ==
    /\ token[g] = "idle"
    /\ g \in Scoped => ~requested
    /\ token' = [token EXCEPT ![g] = "armed"]
    /\ UNCHANGED <<requested, answers>>

(* The callback runs, as one step, and only for an armed guard. *)
Run(g) ==
    /\ token[g] = "armed"
    /\ g \in Scoped
    /\ requested
    /\ token' = [token EXCEPT ![g] = "ran"]
    /\ UNCHANGED <<requested, answers>>

(* disarm() answers TRUE exactly when it stops an armed guard.             *)
Disarm(g) ==
    /\ token' = [token EXCEPT ![g] = IF @ = "armed" THEN "stopped" ELSE @]
    /\ answers' = [answers EXCEPT ![g] = @ \union {token[g] = "armed"}]
    /\ UNCHANGED requested

Next ==
    \/ Request
    \/ \E g \in Guards : Arm(g) \/ Run(g) \/ Disarm(g)

Spec == Init /\ [][Next]_tokenVars
=============================================================================
