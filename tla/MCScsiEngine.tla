---------------------------- MODULE MCScsiEngine ----------------------------
(* Model checking of one target's LUNs, disks or a drive; the values are in *)
(* the cfg.                                                                 *)
EXTENDS DvdEngine
=============================================================================
