----------------------------- MODULE MCClients ------------------------------
(***************************************************************************)
(* Instances of NoteClients for TLC: a tree of 8 leaves and a ring of 2.   *)
(***************************************************************************)
EXTENDS NoteClients

MCDemo == {"demo"}
MCTrade == {"trade"}
MCSdk == {"sdk"}
MCNone == {}
=============================================================================
