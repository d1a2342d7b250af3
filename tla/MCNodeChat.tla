----------------------------- MODULE MCNodeChat -----------------------------
(* Instance of NodeChat for TLC. *)
EXTENDS NodeChat
=============================================================================
