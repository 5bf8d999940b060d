----------------------------- MODULE MCVscsiHba -----------------------------
(* Model checking of one session; the values are in the cfg.                *)
EXTENDS VscsiHba
=============================================================================
