----------------------------- MODULE MCLunFile -----------------------------
(* Model checking of one LUN file.                                          *)
EXTENDS LunFile, TLC

FileSymmetry == Permutations(Target)
=============================================================================
