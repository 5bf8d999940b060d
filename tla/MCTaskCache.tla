---------------------------- MODULE MCTaskCache ----------------------------
(* Model checking of the slab that two sessions share; values in the cfg.   *)
EXTENDS TaskCache
=============================================================================
