----------------------------- MODULE MCTransfer -----------------------------
(* Model checking of the data path; the other values are in the cfg.        *)
EXTENDS Transfer, TLC

Symmetry == Permutations(Target)
MCScatter == {<<>>, <<1>>, <<1, 1>>}
=============================================================================
