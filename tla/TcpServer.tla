----------------------------- MODULE TcpServer -----------------------------
(***************************************************************************)
(* The packet server of src/src/network/tcpServer.js: the verification     *)
(* pipeline of every connection over the defences all connections share,   *)
(* ReplayGuard, IpRateLimiter and IpBlacklist.                             *)
(*                                                                         *)
(* A "data" event completes one packet, or none.  An event that completes  *)
(* several is this many events in a row.  Cryptographic verdicts are the   *)
(* "form" of a packet.  The socket's own timers may fire at any time.      *)
(***************************************************************************)
EXTENDS ReplayGuard, IpRateLimiter, IpBlacklist

CONSTANTS
    Conn,                  \* connections; one may be used again once closed
    IpOf,                  \* IpOf[c]: socket.remoteAddress
    MaxPacketsPerSecond    \* MAX_PACKETS_PER_SECOND, per socket

ASSUME TcpServerAssumption ==
    /\ IpOf \in [Conn -> Ip]
    /\ MaxPacketsPerSecond \in Nat \ {0}

VARIABLES
    conn,        \* conn[c]        : "closed", or what is in its buffer
    packetCount  \* packetCount[c] : packets in its current one-second window

serverVars == <<conn, packetCount>>
vars == <<replayVars, rateVars, blacklistVars, serverVars>>

(* A packet is well made, or is refused by one of three verdicts: its HMAC,  *)
(* its signature, the envelope with its timestamp and nonce.                 *)
Form == {"valid", "hmac_invalid", "signature_invalid", "malformed_packet"}

verifyPacket(form) == form # "hmac_invalid"

verifySignature(form) == form # "signature_invalid"

unwrapPayload(form) == form # "malformed_packet"

Verified(form) == verifyPacket(form) /\ verifySignature(form) /\ unwrapPayload(form)

Init ==
    /\ ReplayInit /\ RateInit /\ BlacklistInit
    /\ conn = [c \in Conn |-> "closed"]
    /\ packetCount = [c \in Conn |-> 0]

(* A banned address is refused before anything else. *)
Accept(c) ==
    /\ conn[c] = "closed"
    /\ ~isBanned(IpOf[c])
    /\ conn' = [conn EXCEPT ![c] = "empty"]
    /\ packetCount' = [packetCount EXCEPT ![c] = 0]
    /\ UNCHANGED <<replayVars, rateVars, blacklistVars>>

Closes(c) ==
    /\ conn' = [conn EXCEPT ![c] = "closed"]
    /\ packetCount' = [packetCount EXCEPT ![c] = 0]

flagAttack(c) == strike(IpOf[c]) /\ Closes(c)

(* One packet through the pipeline, up to its first offence. *)
RecvPacket(c, p, form) ==
    /\ conn[c] # "closed"
    /\ \E windowOver \in BOOLEAN :
         LET n == IF windowOver THEN 1 ELSE packetCount[c] + 1
         IN  \/ /\ n > MaxPacketsPerSecond
                /\ flagAttack(c)
                /\ UNCHANGED <<replayVars, rateVars>>
             \/ /\ n <= MaxPacketsPerSecond
                /\ allow(IpOf[c])
                /\ ~allows(IpOf[c])
                /\ flagAttack(c)
                /\ UNCHANGED replayVars
             \/ /\ n <= MaxPacketsPerSecond
                /\ allow(IpOf[c])
                /\ allows(IpOf[c])
                /\ ~Verified(form)
                /\ flagAttack(c)
                /\ UNCHANGED replayVars
             \/ /\ n <= MaxPacketsPerSecond
                /\ allow(IpOf[c])
                /\ allows(IpOf[c])
                /\ Verified(form)
                /\ \/ check(p, FALSE) /\ flagAttack(c)
                   \/ /\ check(p, TRUE)
                      /\ \E rest \in {"empty", "partial"} :
                           conn' = [conn EXCEPT ![c] = rest]
                      /\ packetCount' = [packetCount EXCEPT ![c] = n]
                      /\ UNCHANGED blacklistVars

(* Bytes that complete no packet. *)
RecvPartial(c) ==
    /\ conn[c] # "closed"
    /\ conn' = [conn EXCEPT ![c] = "partial"]
    /\ UNCHANGED <<replayVars, rateVars, blacklistVars, packetCount>>

(* Bytes that overflow the buffer or on which extractPackets throws: the     *)
(* packets complete before them in the buffer are not looked at.             *)
RecvMalformed(c) ==
    /\ conn[c] # "closed"
    /\ flagAttack(c)
    /\ UNCHANGED <<replayVars, rateVars>>

(* The one-second check finds an incomplete packet that does not progress. *)
PartialCheck(c) ==
    /\ conn[c] = "partial"
    /\ flagAttack(c)
    /\ UNCHANGED <<replayVars, rateVars>>

(* Idle for too long, open for too long, closed by the peer, or broken. *)
SocketEnds(c) ==
    /\ conn[c] # "closed"
    /\ Closes(c)
    /\ UNCHANGED <<replayVars, rateVars, blacklistVars>>

(* The five-second timer of the server. *)
Cleanup ==
    /\ rateCleanup
    /\ blacklistCleanup
    /\ UNCHANGED <<replayVars, serverVars>>

Tick ==
    /\ replayTick /\ rateTick /\ blacklistTick
    /\ UNCHANGED serverVars

Next ==
    \/ \E c \in Conn :
         \/ Accept(c)
         \/ \E p \in Packet, form \in Form : RecvPacket(c, p, form)
         \/ RecvPartial(c) \/ RecvMalformed(c) \/ PartialCheck(c) \/ SocketEnds(c)
    \/ Cleanup
    \/ Tick

Spec == Init /\ [][Next]_vars

-----------------------------------------------------------------------------

TypeOK ==
    /\ ReplayTypeOK /\ RateTypeOK /\ BlacklistTypeOK
    /\ conn \in [Conn -> {"closed", "empty", "partial"}]
    /\ packetCount \in [Conn -> 0..MaxPacketsPerSecond]
=============================================================================
