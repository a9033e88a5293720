----------------------------- MODULE MCInclusion ----------------------------
(***************************************************************************)
(* The instance of BatchInclusion for TLC.                                 *)
(***************************************************************************)
EXTENDS BatchInclusion
=============================================================================
