----------------------------- MODULE MCSession ------------------------------
(***************************************************************************)
(* The instance of PerSession for TLC.                                     *)
(***************************************************************************)
EXTENDS PerSession
=============================================================================
