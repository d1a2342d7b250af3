------------------------ MODULE MCSecureConnection ------------------------
(* Instances of SecureConnection for TLC. *)
EXTENDS SecureConnection

(* Two messages one way make loss visible, the more so when the first is     *)
(* too long; one the other way crosses them.                                 *)
TwoAndOne == [e \in End |-> IF e = "I" THEN 2 ELSE 1]

(* An initiator that makes up all its messages: one that skips a number, one *)
(* too long, an answer to a rekey that nobody started, a CLOSE with more to  *)
(* come.                                                                     *)
NoSends == [e \in End |-> 0]

Forgeries == {seal(kI, "DATA", 2, "a"), seal(kI, "DATA", 1, "big"),
              Control(kI, "REKEY_ACK"), Control(kI, "CLOSE")}

OneEach == [e \in End |-> 1]
=============================================================================
