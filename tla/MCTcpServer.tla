---------------------------- MODULE MCTcpServer ----------------------------
(* Instances of TcpServer for TLC. *)
EXTENDS TcpServer, TLC

CONSTANTS ip1, p1, p2, p3, c1, c2

OneIp == [x \in Conn |-> ip1]

(* Each packet has a key of its own: one more than the cache has room for. *)
OwnKeys == [x \in Packet |-> x]

(* Packets differ by their age alone, connections by nothing. *)
Symmetry == Permutations(Packet) \cup Permutations(Conn)
=============================================================================
