---------------------------- MODULE MCSemaphore ----------------------------
(* Instances of Semaphore for TLC: what the tasks ask for.                 *)
EXTENDS Semaphore

CONSTANTS a, b, c

UnitNeed == [t \in Tasks |-> 1]
MixedNeed == [t \in Tasks |-> IF t = b THEN 2 ELSE 1]
=============================================================================
