--------------------------- MODULE MCSessionTable ---------------------------
(* Model checking of the table of sessions.                                 *)
EXTENDS SessionTable, TLC

TableSymmetry == Permutations(Minor) \cup Permutations(File)
=============================================================================
