--------------------------- MODULE MCSecureServer ---------------------------
(* Instances of SecureServer for TLC. *)
EXTENDS SecureServer

CONSTANTS ip1, c1, c2, c3

OneIp == [x \in Conn |-> ip1]
=============================================================================
