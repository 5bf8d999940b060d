--------------------------- MODULE MCTargetConfig ---------------------------
(* Model checking of the configuration of targets.                          *)
EXTENDS TargetConfig, TLC

ConfigSymmetry == Permutations(Target) \cup Permutations(File)
=============================================================================
