----------------------------- MODULE MCRuntime -----------------------------
(* Instances of Runtime for TLC: roots do the same, and so do workers.     *)
EXTENDS Runtime, TLC

Symmetry == Permutations(Roots) \union Permutations(Workers)
=============================================================================
