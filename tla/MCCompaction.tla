--------------------------- MODULE MCCompaction ---------------------------
(***************************************************************************)
(* Small instances of Compaction for TLC: its constants are given values   *)
(* in the configurations, its compactors are model values.                 *)
(***************************************************************************)
EXTENDS Compaction
=============================================================================
