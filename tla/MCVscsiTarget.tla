---------------------------- MODULE MCVscsiTarget ----------------------------
(* Model checking of the driver together with its user program.             *)
EXTENDS VscsiTarget, TLC

TargetSymmetry == Permutations(Target)
=============================================================================
