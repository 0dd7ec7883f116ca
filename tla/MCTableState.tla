---------------------------- MODULE MCTableState ----------------------------
(***************************************************************************)
(* Instances of TableState for TLC; the bounds are given in the cfg file.  *)
(***************************************************************************)
EXTENDS TableState
=============================================================================
