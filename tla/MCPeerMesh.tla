----------------------------- MODULE MCPeerMesh -----------------------------
(* Instances of PeerMesh for TLC. *)
EXTENDS PeerMesh, TLC

CONSTANTS a, b, old

(* Each hears its own announcements too; a hears those that b made under its *)
(* former key, and b was given the address of a.                             *)
FormerKey == a :> {<<a, a>>, <<old, b>>} @@ b :> {<<b, b>>}

BToA == {<<b, a>>}
=============================================================================
