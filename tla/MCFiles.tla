------------------------------ MODULE MCFiles ------------------------------
(* An instance of Files for TLC: a task that looks at what spawn_blocking  *)
(* gave and one that does not.                                             *)
EXTENDS Files

CONSTANTS t1, t2

Functions == [t \in {t1, t2} |-> IF t = t1 THEN "file_size" ELSE "resize"]
=============================================================================
