----------------------------- MODULE Addresses -----------------------------
(* The remote addresses the per-address defences tell apart. *)
CONSTANTS Ip
=============================================================================
