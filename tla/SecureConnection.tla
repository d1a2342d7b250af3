------------------------- MODULE SecureConnection -------------------------
(***************************************************************************)
(* The encrypted session of src/src/session/secureConnection.js, run by    *)
(* its two endpoints over one TCP connection: the initiator "I" (made by   *)
(* network/secureClient.js) and the responder "R" (made by                 *)
(* network/secureServer.js).  It covers the three-message handshake of     *)
(* crypto/handshake.js, the sealed transport with its per-direction key    *)
(* chain, automatic and manual rekeying, CLOSE, and every way in which the *)
(* object fails.                                                           *)
(*                                                                         *)
(* A direction of the TCP connection is the sequence of frames ever        *)
(* written to it and a read position.  Ciphertexts are symbolic: a sealed  *)
(* frame carries the key it was sealed with and opens under that key only. *)
(* A key is the HKDF label it was derived with and the number of           *)
(* deriveRekey steps since.  A signature is the transcript it covers.      *)
(***************************************************************************)
EXTENDS Naturals, Sequences

CONSTANTS
    Body,             \* application messages
    Oversize,         \* those whose frame exceeds SESSION_MAX_FRAME
    RekeyEveryMsgs,   \* SESSION_REKEY_EVERY_MSGS
    MaxMsgPerSecond,  \* SESSION_MAX_MSG_PER_SECOND
    Misbehaving,      \* endpoints that may write frames this code would not
    Forged,           \* the frames they make up
    NetErrors,        \* TRUE: TCP may break on its own
    UseAfterClose,    \* TRUE: users may still call a connection they closed
    MaxSend,          \* bound: MaxSend[e] is the number of send() calls of e
    MaxRekey,         \* bound: key generation from which no rekey is started
    MaxFrames,        \* bound: stream length up to which an endpoint misbehaves
    MaxAhead          \* bound: unread frames up to which it does

End == {"I", "R"}

Peer(e) == IF e = "I" THEN "R" ELSE "I"

-----------------------------------------------------------------------------
(* Keys and frames *)

NoKey == [info |-> "none", gen |-> 0]
kI    == [info |-> "I->R", gen |-> 0]
kR    == [info |-> "R->I", gen |-> 0]
Key   == [info : {"none", "I->R", "R->I"}, gen : Nat]

deriveRekey(k) == [info |-> k.info, gen |-> k.gen + 1]

NoBody == "none"

(* What each handshake signature covers: the ephemeral keys of the two     *)
(* sides in the order in which the signer concatenates them.               *)
Transcript1 == <<"I">>
Transcript2 == <<"R", "I">>
Transcript3 == <<"I", "R">>

Signed(t, transcript) ==
    [t |-> t, key |-> NoKey, seq |-> 0, body |-> NoBody, sig |-> transcript]

seal(k, t, seq, body) ==
    [t |-> t, key |-> k, seq |-> seq, body |-> body, sig |-> <<>>]

Control(k, t) == seal(k, t, 0, NoBody)

HsType   == {"MSG1", "MSG2", "MSG3"}
CtrlType == {"REKEY", "REKEY_ACK", "CLOSE", "UNKNOWN"}
HsFrame   == [t : HsType, key : {NoKey}, seq : {0}, body : {NoBody},
              sig : {Transcript1, Transcript2, Transcript3}]
DataFrame == [t : {"DATA"}, key : Key, seq : Nat, body : Body, sig : {<<>>}]
CtrlFrame == [t : CtrlType, key : Key, seq : {0}, body : {NoBody}, sig : {<<>>}]
Frame == HsFrame \cup DataFrame \cup CtrlFrame

ASSUME ConstantsAssumption ==
    /\ "none" \notin Body
    /\ Oversize \subseteq Body
    /\ RekeyEveryMsgs \in Nat \ {0}
    /\ MaxMsgPerSecond \in Nat \ {0}
    /\ Misbehaving \subseteq End
    /\ Forged \subseteq Frame
    /\ NetErrors \in BOOLEAN
    /\ UseAfterClose \in BOOLEAN
    /\ MaxSend \in [End -> Nat]
    /\ MaxRekey \in Nat
    /\ MaxFrames \in Nat
    /\ MaxAhead \in Nat

VARIABLES
    stream,     \* stream[e]    : every frame e wrote to its socket
    rcvd,       \* rcvd[e]      : how many of the peer's frames e has taken
    phase,      \* phase[e]     : session / _step, see Phase
    txKey,      \* txKey[e]     : session.txKey
    rxKey,      \* rxKey[e]     : session.rxKey
    txSeq,      \* txSeq[e]     : _txSeq
    rxSeq,      \* rxSeq[e]     : _rxSeq, 0 for null
    rekeying,   \* rekeying[e]  : _rekeying
    rkMsgs,     \* rkMsgs[e]    : _rk.msgs
    msgCount,   \* msgCount[e]  : _msgCount
    closed,     \* closed[e]    : _closed
    sock,       \* sock[e]      : the write side of e's socket, see SockState
    eof,        \* eof[e]       : e's socket has seen the end of its input
    gone,       \* gone[e]      : e's socket has emitted "close"
    fault,      \* fault[e]     : why _fail was called, "none" if it was not
    sent,       \* history: bodies of the send() calls of e that returned
    delivered   \* history: bodies e passed to its "message" listener

sessionVars == <<phase, txKey, rxKey, txSeq, rxSeq, rekeying, rkMsgs, msgCount>>
netVars     == <<stream, rcvd, sock, eof, gone>>
vars == <<stream, rcvd, phase, txKey, rxKey, txSeq, rxSeq, rekeying, rkMsgs,
          msgCount, closed, sock, eof, gone, fault, sent, delivered>>

-----------------------------------------------------------------------------
(* The initial state *)

(* "wait1"/"wait3": responder at _step 0/1; "wait2": initiator;             *)
(* "secure": this.session is set.                                           *)
Phase == {"wait1", "wait2", "wait3", "secure"}

(* "open"; "ended": end() was called; "destroyed": destroy() was called.    *)
SockState == {"open", "ended", "destroyed"}

Fault == {"none", "timeout", "socket", "write_after_end", "rate_limit",
          "session_rate_limit", "session_replay", "crypto_error",
          "listener_error", "oversize_frame"}

Init ==
    /\ stream = [e \in End |->
                   IF e = "I" THEN <<Signed("MSG1", Transcript1)>> ELSE <<>>]
    /\ rcvd = [e \in End |-> 0]
    /\ phase = [e \in End |-> IF e = "I" THEN "wait2" ELSE "wait1"]
    /\ txKey = [e \in End |-> NoKey]
    /\ rxKey = [e \in End |-> NoKey]
    /\ txSeq = [e \in End |-> 0]
    /\ rxSeq = [e \in End |-> 0]
    /\ rekeying = [e \in End |-> FALSE]
    /\ rkMsgs = [e \in End |-> 0]
    /\ msgCount = [e \in End |-> 0]
    /\ closed = [e \in End |-> FALSE]
    /\ sock = [e \in End |-> "open"]
    /\ eof = [e \in End |-> FALSE]
    /\ gone = [e \in End |-> FALSE]
    /\ fault = [e \in End |-> "none"]
    /\ sent = [e \in End |-> <<>>]
    /\ delivered = [e \in End |-> <<>>]

-----------------------------------------------------------------------------
(* _write, _fail and the read loop of _onData *)

Writable(e) == ~closed[e] /\ sock[e] = "open"

(* socket.write after end() destroys the socket; its "error" event comes    *)
(* later (ErrorEvent).                                                      *)
SockAfterWrite(e) ==
    IF ~closed[e] /\ sock[e] = "ended" THEN "destroyed" ELSE sock[e]

Puts(e, f) ==
    stream' = [stream EXCEPT ![e] = IF Writable(e) THEN Append(@, f) ELSE @]

Write(e, f) ==
    /\ Puts(e, f)
    /\ sock' = [sock EXCEPT ![e] = SockAfterWrite(e)]

Write2(e, f, g) ==
    /\ stream' = [stream EXCEPT
                    ![e] = IF Writable(e) THEN Append(Append(@, f), g) ELSE @]
    /\ sock' = [sock EXCEPT ![e] = SockAfterWrite(e)]

(* _fail: nothing when already closed. *)
Fail(e, why) ==
    /\ closed' = [closed EXCEPT ![e] = TRUE]
    /\ sock' = [sock EXCEPT ![e] = IF closed[e] THEN @ ELSE "destroyed"]
    /\ fault' = [fault EXCEPT ![e] = IF closed[e] THEN @ ELSE why]

(* A "data" event is possible.  A socket destroyed by a write after end()   *)
(* still yields the rest of the chunk being handled, until its error event. *)
(* Nothing on this path looks at _closed.                                   *)
Arrives(e) ==
    /\ ~gone[e]
    /\ ~eof[e]
    /\ ~(sock[e] = "destroyed" /\ closed[e])
    /\ rcvd[e] < Len(stream[Peer(e)])

(* One of the next frames, up to the n-th, exceeds SESSION_MAX_FRAME.  It    *)
(* stays in the decoder, which throws on whatever comes after it.            *)
Jammed(e, n) == \E i \in 1..n : stream[Peer(e)][i].body \in Oversize

CanRead(e) == Arrives(e) /\ ~Jammed(e, rcvd[e] + 1)

NextFrame(e) == stream[Peer(e)][rcvd[e] + 1]

Frames(e) == {stream[e][i] : i \in 1..Len(stream[e])}

(* The next frame, and the rest of its chunk with it, which is dropped once  *)
(* _closed is set (secureConnection.js 167).                                 *)
TakeLast(e) ==
    \E n \in (rcvd[e] + 1)..Len(stream[Peer(e)]) : rcvd' = [rcvd EXCEPT ![e] = n]

(* Mutant: the frame loop skips a frame. *)
Take_Skips(e) == rcvd' = [rcvd EXCEPT ![e] = @ + 2]

Take(e) ==
    \/ ~closed[e] /\ rcvd' = [rcvd EXCEPT ![e] = @ + 1]
    \/ closed[e] /\ TakeLast(e)

(* session.open succeeds. *)
Opens(e, t) ==
    /\ CanRead(e)
    /\ phase[e] = "secure"
    /\ NextFrame(e).key = rxKey[e]
    /\ NextFrame(e).t = t

(* The length and signature checks of consumeMessage1/2/3. *)
Accepts(e, t, transcript) ==
    /\ NextFrame(e).t = t
    /\ NextFrame(e).sig = transcript

-----------------------------------------------------------------------------
(* Handshake *)

(* Mutant: the responder does not mirror the initiator's keys. *)
RecvMsg1_NotMirrored(e) ==
    /\ CanRead(e)
    /\ phase[e] = "wait1"
    /\ Accepts(e, "MSG1", Transcript1)
    /\ Take(e)
    /\ txKey' = [txKey EXCEPT ![e] = kI]
    /\ rxKey' = [rxKey EXCEPT ![e] = kR]
    /\ Write(e, Signed("MSG2", Transcript2))
    /\ phase' = [phase EXCEPT ![e] = "wait3"]
    /\ UNCHANGED <<txSeq, rxSeq, rekeying, rkMsgs, msgCount, closed, eof, gone,
                   fault, sent, delivered>>

RecvMsg1(e) ==
    /\ CanRead(e)
    /\ phase[e] = "wait1"
    /\ Accepts(e, "MSG1", Transcript1)
    /\ Take(e)
    /\ txKey' = [txKey EXCEPT ![e] = kR]
    /\ rxKey' = [rxKey EXCEPT ![e] = kI]
    /\ Write(e, Signed("MSG2", Transcript2))
    /\ phase' = [phase EXCEPT ![e] = "wait3"]
    /\ UNCHANGED <<txSeq, rxSeq, rekeying, rkMsgs, msgCount, closed, eof, gone,
                   fault, sent, delivered>>

(* A "secure" listener (attestp2pNode.js 62) may throw, which _onData treats *)
(* as it treats a failed decryption.                                        *)
RecvMsg2(e) ==
    /\ CanRead(e)
    /\ phase[e] = "wait2"
    /\ Accepts(e, "MSG2", Transcript2)
    /\ Take(e)
    /\ txKey' = [txKey EXCEPT ![e] = kI]
    /\ rxKey' = [rxKey EXCEPT ![e] = kR]
    /\ phase' = [phase EXCEPT ![e] = "secure"]
    /\ Puts(e, Signed("MSG3", Transcript3))
    /\ \/ sock' = [sock EXCEPT ![e] = SockAfterWrite(e)] /\ UNCHANGED <<closed, fault>>
       \/ Fail(e, "listener_error")
    /\ UNCHANGED <<txSeq, rxSeq, rekeying, rkMsgs, msgCount, eof, gone, sent, delivered>>

RecvMsg3(e) ==
    /\ CanRead(e)
    /\ phase[e] = "wait3"
    /\ Accepts(e, "MSG3", Transcript3)
    /\ Take(e)
    /\ phase' = [phase EXCEPT ![e] = "secure"]
    /\ UNCHANGED <<closed, sock, fault>> \/ Fail(e, "listener_error")
    /\ UNCHANGED <<stream, txKey, rxKey, txSeq, rxSeq, rekeying, rkMsgs,
                   msgCount, eof, gone, sent, delivered>>

(* Mutant: the responder has no handshake timer. *)
HandshakeTimeout_InitiatorOnly(e) ==
    /\ e = "I"
    /\ phase[e] # "secure"
    /\ ~closed[e]
    /\ Fail(e, "timeout")
    /\ UNCHANGED <<stream, rcvd, sessionVars, eof, gone, sent, delivered>>

(* Mutant: close() clears the handshake timer. *)
HandshakeTimeout_ClearedByClose(e) ==
    /\ sock[e] = "open"
    /\ phase[e] # "secure"
    /\ ~closed[e]
    /\ Fail(e, "timeout")
    /\ UNCHANGED <<stream, rcvd, sessionVars, eof, gone, sent, delivered>>

(* The timer is cleared when the session is set, on failure and on "close". *)
HandshakeTimeout(e) ==
    /\ phase[e] # "secure"
    /\ ~closed[e]
    /\ Fail(e, "timeout")
    /\ UNCHANGED <<stream, rcvd, sessionVars, eof, gone, sent, delivered>>

-----------------------------------------------------------------------------
(* Transport: what the user calls *)

(* Every user (fileNode.js 44, peerManager.js 51, attestp2pNode.js 97)      *)
(* drops the connection on its "close" event.                               *)
MayCall(e) == ~gone[e] /\ (UseAfterClose \/ sock[e] = "open")

(* The thresholds on bytes and on time are not tracked: due says whether    *)
(* one of them is reached.                                                  *)
AutoRekeyDue(e, msgs, due) ==
    /\ e = "I"
    /\ ~rekeying[e]
    /\ msgs >= RekeyEveryMsgs \/ due

(* send(), with the automatic rekey it may end with.  On a closed session   *)
(* it returns normally and writes nothing.                                  *)
Send(e, b) ==
    /\ MayCall(e)
    /\ phase[e] = "secure"
    /\ Len(sent[e]) < MaxSend[e]
    /\ txSeq' = [txSeq EXCEPT ![e] = @ + 1]
    /\ sent' = [sent EXCEPT ![e] = Append(@, b)]
    /\ rkMsgs' = [rkMsgs EXCEPT ![e] = @ + 1]
    /\ \E due \in BOOLEAN :
         LET data == seal(txKey[e], "DATA", txSeq[e] + 1, b)
         IN  \/ /\ ~AutoRekeyDue(e, rkMsgs[e] + 1, due)
                /\ Write(e, data)
                /\ UNCHANGED <<rekeying, txKey>>
             \/ /\ AutoRekeyDue(e, rkMsgs[e] + 1, due)
                /\ txKey[e].gen < MaxRekey
                /\ Write2(e, data, Control(txKey[e], "REKEY"))
                /\ rekeying' = [rekeying EXCEPT ![e] = TRUE]
                /\ txKey' = [txKey EXCEPT ![e] = deriveRekey(@)]
    /\ UNCHANGED <<rcvd, phase, rxKey, rxSeq, msgCount, closed, eof, gone,
                   fault, delivered>>

(* Mutant: rekey() starts another rekey while one is under way. *)
rekey_Again(e) ==
    /\ phase[e] = "secure"
    /\ txKey[e].gen < MaxRekey + 1
    /\ rekeying' = [rekeying EXCEPT ![e] = TRUE]
    /\ Write(e, Control(txKey[e], "REKEY"))
    /\ txKey' = [txKey EXCEPT ![e] = deriveRekey(@)]
    /\ UNCHANGED <<rcvd, phase, rxKey, txSeq, rxSeq, rkMsgs, msgCount, closed,
                   eof, gone, fault, sent, delivered>>

rekey(e) ==
    /\ phase[e] = "secure"
    /\ ~rekeying[e]
    /\ txKey[e].gen < MaxRekey
    /\ rekeying' = [rekeying EXCEPT ![e] = TRUE]
    /\ Write(e, Control(txKey[e], "REKEY"))
    /\ txKey' = [txKey EXCEPT ![e] = deriveRekey(@)]
    /\ UNCHANGED <<rcvd, phase, rxKey, txSeq, rxSeq, rkMsgs, msgCount, closed,
                   eof, gone, fault, sent, delivered>>

(* A manual rekey() by the user, or the one-second timer of the initiator,  *)
(* which lives from MSG2 to the failure or the end of the socket.           *)
Rekey(e) ==
    /\ \/ MayCall(e)
       \/ e = "I" /\ ~gone[e] /\ sock[e] # "destroyed"
    /\ rekey(e)

(* Mutant: close() announces CLOSE and does not end the socket. *)
Close_NoEnd(e) ==
    /\ MayCall(e)
    /\ phase[e] = "secure"
    /\ Writable(e)
    /\ stream' = [stream EXCEPT ![e] = Append(@, Control(txKey[e], "CLOSE"))]
    /\ UNCHANGED <<rcvd, sessionVars, closed, sock, eof, gone, fault, sent, delivered>>

Close(e) ==
    /\ MayCall(e)
    /\ ~closed[e]
    /\ stream' = [stream EXCEPT
                    ![e] = IF phase[e] = "secure" /\ Writable(e)
                           THEN Append(@, Control(txKey[e], "CLOSE")) ELSE @]
    /\ sock' = [sock EXCEPT
                  ![e] = IF @ = "open" THEN "ended"
                         ELSE IF phase[e] = "secure" THEN SockAfterWrite(e) ELSE @]
    /\ UNCHANGED <<rcvd, sessionVars, closed, eof, gone, fault, sent, delivered>>

-----------------------------------------------------------------------------
(* Transport: what arrives *)

(* Mutant: a message over the rate is dropped and the session kept.         *)
RecvData_DropsOverRate(e) ==
    /\ Opens(e, "DATA")
    /\ Take(e)
    /\ \E windowOver \in BOOLEAN :
         LET n == IF windowOver THEN 1 ELSE msgCount[e] + 1
         IN  /\ msgCount' = [msgCount EXCEPT ![e] = n]
             /\ IF n > MaxMsgPerSecond
                THEN UNCHANGED <<rxSeq, delivered>>
                ELSE /\ rxSeq' = [rxSeq EXCEPT ![e] = NextFrame(e).seq]
                     /\ delivered' = [delivered EXCEPT ![e] = Append(@, NextFrame(e).body)]
    /\ UNCHANGED <<stream, phase, txKey, rxKey, txSeq, rekeying, rkMsgs, closed,
                   sock, eof, gone, fault, sent>>

(* _msgAllow counts per fixed one-second window; whether the window is over *)
(* is the clock's choice.  The "message" listener may throw, too; nothing   *)
(* in the program listens for "rekey" and "peerclose".                      *)
RecvData(e) ==
    /\ Opens(e, "DATA")
    /\ Take(e)
    /\ \E windowOver \in BOOLEAN :
         LET n == IF windowOver THEN 1 ELSE msgCount[e] + 1
             f == NextFrame(e)
         IN  /\ msgCount' = [msgCount EXCEPT ![e] = n]
             /\ \/ /\ n > MaxMsgPerSecond
                   /\ Fail(e, "session_rate_limit")
                   /\ UNCHANGED <<rxSeq, delivered>>
                \/ /\ n <= MaxMsgPerSecond
                   /\ f.seq <= rxSeq[e]
                   /\ Fail(e, "session_replay")
                   /\ UNCHANGED <<rxSeq, delivered>>
                \/ /\ n <= MaxMsgPerSecond
                   /\ f.seq > rxSeq[e]
                   /\ rxSeq' = [rxSeq EXCEPT ![e] = f.seq]
                   /\ delivered' = [delivered EXCEPT ![e] = Append(@, f.body)]
                   /\ \/ UNCHANGED <<closed, sock, fault>>
                      \/ Fail(e, "listener_error")
    /\ UNCHANGED <<stream, phase, txKey, rxKey, txSeq, rekeying, rkMsgs, eof,
                   gone, sent>>

(* Mutants: the acknowledgement is sealed with the new key; a REKEY that    *)
(* crosses one's own is not acknowledged.                                   *)
RecvRekey_TxFirst(e) ==
    /\ Opens(e, "REKEY")
    /\ Take(e)
    /\ rxKey' = [rxKey EXCEPT ![e] = deriveRekey(@)]
    /\ Write(e, Control(deriveRekey(txKey[e]), "REKEY_ACK"))
    /\ txKey' = [txKey EXCEPT ![e] = deriveRekey(@)]
    /\ UNCHANGED <<phase, txSeq, rxSeq, rekeying, rkMsgs, msgCount, closed, eof,
                   gone, fault, sent, delivered>>

RecvRekey_NoAckWhenCrossing(e) ==
    /\ Opens(e, "REKEY")
    /\ Take(e)
    /\ rxKey' = [rxKey EXCEPT ![e] = deriveRekey(@)]
    /\ IF rekeying[e]
       THEN UNCHANGED <<stream, sock, txKey>>
       ELSE /\ Write(e, Control(txKey[e], "REKEY_ACK"))
            /\ txKey' = [txKey EXCEPT ![e] = deriveRekey(@)]
    /\ UNCHANGED <<phase, txSeq, rxSeq, rekeying, rkMsgs, msgCount, closed, eof,
                   gone, fault, sent, delivered>>

RecvRekey(e) ==
    /\ Opens(e, "REKEY")
    /\ Take(e)
    /\ rxKey' = [rxKey EXCEPT ![e] = deriveRekey(@)]
    /\ Write(e, Control(txKey[e], "REKEY_ACK"))
    /\ txKey' = [txKey EXCEPT ![e] = deriveRekey(@)]
    /\ UNCHANGED <<phase, txSeq, rxSeq, rekeying, rkMsgs, msgCount, closed, eof,
                   gone, fault, sent, delivered>>

(* Mutant: the receiving key does not advance with the acknowledgement. *)
RecvRekeyAck_KeepsKey(e) ==
    /\ Opens(e, "REKEY_ACK")
    /\ Take(e)
    /\ rekeying' = [rekeying EXCEPT ![e] = FALSE]
    /\ rkMsgs' = [rkMsgs EXCEPT ![e] = 0]
    /\ UNCHANGED <<stream, phase, txKey, rxKey, txSeq, rxSeq, msgCount, closed, sock,
                   eof, gone, fault, sent, delivered>>

RecvRekeyAck(e) ==
    /\ Opens(e, "REKEY_ACK")
    /\ Take(e)
    /\ rxKey' = [rxKey EXCEPT ![e] = deriveRekey(@)]
    /\ rekeying' = [rekeying EXCEPT ![e] = FALSE]
    /\ rkMsgs' = [rkMsgs EXCEPT ![e] = 0]
    /\ UNCHANGED <<stream, phase, txKey, txSeq, rxSeq, msgCount, closed, sock,
                   eof, gone, fault, sent, delivered>>

RecvClose(e) ==
    /\ Opens(e, "CLOSE")
    /\ TakeLast(e)
    /\ closed' = [closed EXCEPT ![e] = TRUE]
    /\ sock' = [sock EXCEPT ![e] = IF @ = "open" THEN "ended" ELSE @]
    /\ UNCHANGED <<stream, sessionVars, eof, gone, fault, sent, delivered>>

(* Everything _handleFrame throws on: a handshake message that does not     *)
(* verify, a frame that does not decrypt, an unknown control type.          *)
Rejects(e) ==
    CASE phase[e] = "wait1"  -> ~Accepts(e, "MSG1", Transcript1)
      [] phase[e] = "wait2"  -> ~Accepts(e, "MSG2", Transcript2)
      [] phase[e] = "wait3"  -> ~Accepts(e, "MSG3", Transcript3)
      [] phase[e] = "secure" -> NextFrame(e).key # rxKey[e]
                                \/ NextFrame(e).t = "UNKNOWN"

RecvBad(e) ==
    /\ CanRead(e)
    /\ Rejects(e)
    /\ Take(e)
    /\ Fail(e, "crypto_error")
    /\ UNCHANGED <<stream, sessionVars, eof, gone, sent, delivered>>

(* The decoder throws on the length prefix of an oversize frame before any  *)
(* frame of the same chunk is handled: those complete before it are lost.   *)
RecvOversize(e) ==
    /\ Arrives(e)
    /\ \E n \in (rcvd[e] + 1)..Len(stream[Peer(e)]) :
         /\ Jammed(e, n)
         /\ n > rcvd[e] + 1 => ~Jammed(e, n - 1)
         /\ rcvd' = [rcvd EXCEPT ![e] = n]
    /\ Fail(e, "oversize_frame")
    /\ UNCHANGED <<stream, sessionVars, eof, gone, sent, delivered>>

(* security.allowFrame of the server: the IP is banned or over its rate.    *)
RefuseFrame(e) ==
    /\ e = "R"
    /\ CanRead(e)
    /\ Take(e)
    /\ Fail(e, "rate_limit")
    /\ UNCHANGED <<stream, sessionVars, eof, gone, sent, delivered>>

-----------------------------------------------------------------------------
(* The socket (node's net.Socket, allowHalfOpen = false) *)

(* The "error" event of a write after end(). *)
ErrorEvent(e) ==
    /\ sock[e] = "destroyed"
    /\ ~closed[e]
    /\ Fail(e, "write_after_end")
    /\ UNCHANGED <<stream, rcvd, sessionVars, eof, gone, sent, delivered>>

(* A reset: on its own, or because the peer's socket was destroyed.         *)
SocketError(e) ==
    /\ NetErrors \/ sock[Peer(e)] = "destroyed"
    /\ ~gone[e]
    /\ sock[e] # "destroyed"
    /\ sock' = [sock EXCEPT ![e] = "destroyed"]
    /\ closed' = [closed EXCEPT ![e] = TRUE]
    /\ fault' = [fault EXCEPT ![e] = IF closed[e] THEN @ ELSE "socket"]
    /\ UNCHANGED <<stream, rcvd, sessionVars, eof, gone, sent, delivered>>

(* End of input: after every frame when the peer ended its side, after any  *)
(* of them when it destroyed its socket.  The socket ends itself in return. *)
PeerEnd(e) ==
    /\ ~eof[e]
    /\ sock[e] # "destroyed"
    /\ \/ sock[Peer(e)] = "ended" /\ rcvd[e] = Len(stream[Peer(e)])
       \/ sock[Peer(e)] = "destroyed"
    /\ eof' = [eof EXCEPT ![e] = TRUE]
    /\ sock' = [sock EXCEPT ![e] = "ended"]
    /\ UNCHANGED <<stream, rcvd, sessionVars, closed, gone, fault, sent, delivered>>

(* The "close" event and the handler the constructor gives it. *)
SocketClose(e) ==
    /\ ~gone[e]
    /\ IF sock[e] = "destroyed" THEN closed[e] ELSE eof[e]
    /\ gone' = [gone EXCEPT ![e] = TRUE]
    /\ closed' = [closed EXCEPT ![e] = TRUE]
    /\ UNCHANGED <<stream, rcvd, sessionVars, sock, eof, fault, sent, delivered>>

(* An endpoint that does not run this code may write what it likes between  *)
(* what this code would write: frames that it makes up, sealed with any key,*)
(* and any frame that was on the wire in either direction.                  *)
Misbehave(e) ==
    /\ e \in Misbehaving
    /\ Writable(e)
    /\ sock[Peer(e)] # "destroyed"
    /\ Len(stream[e]) < MaxFrames
    /\ Len(stream[e]) - rcvd[Peer(e)] < MaxAhead
    /\ \E f \in Forged \cup UNION {Frames(x) : x \in End} :
         stream' = [stream EXCEPT ![e] = Append(@, f)]
    /\ UNCHANGED <<rcvd, sessionVars, closed, sock, eof, gone, fault, sent, delivered>>

-----------------------------------------------------------------------------

Receive(e) ==
    \/ RecvMsg1(e) \/ RecvMsg2(e) \/ RecvMsg3(e)
    \/ RecvData(e) \/ RecvRekey(e) \/ RecvRekeyAck(e) \/ RecvClose(e)
    \/ RecvBad(e) \/ RecvOversize(e)

UserCall(e) ==
    \/ \E b \in Body : Send(e, b)
    \/ Rekey(e)
    \/ Close(e)

SocketEvent(e) == ErrorEvent(e) \/ PeerEnd(e) \/ SocketClose(e)

Next ==
    \E e \in End :
        \/ Receive(e)
        \/ RefuseFrame(e)
        \/ UserCall(e)
        \/ HandshakeTimeout(e)
        \/ SocketEvent(e)
        \/ SocketError(e)
        \/ Misbehave(e)

Spec == Init /\ [][Next]_vars

(* Scheduling: timers fire, sockets finish, and an established session gets *)
(* what its peer wrote.  During the handshake the network may stall.        *)
Fairness ==
    \A e \in End :
        /\ WF_vars(phase[e] = "secure" /\ Receive(e))
        /\ WF_vars(HandshakeTimeout(e))
        /\ WF_vars(SocketEvent(e))

FairSpec == Spec /\ Fairness

-----------------------------------------------------------------------------
(* Properties *)

TypeOK ==
    /\ stream \in [End -> Seq(Frame)]
    /\ rcvd \in [End -> Nat]
    /\ phase \in [End -> Phase]
    /\ txKey \in [End -> Key]
    /\ rxKey \in [End -> Key]
    /\ txSeq \in [End -> Nat]
    /\ rxSeq \in [End -> Nat]
    /\ rekeying \in [End -> BOOLEAN]
    /\ rkMsgs \in [End -> Nat]
    /\ msgCount \in [End -> Nat]
    /\ closed \in [End -> BOOLEAN]
    /\ sock \in [End -> SockState]
    /\ eof \in [End -> BOOLEAN]
    /\ gone \in [End -> BOOLEAN]
    /\ fault \in [End -> Fault]
    /\ sent \in [End -> Seq(Body)]
    /\ delivered \in [End -> Seq(Body)]
    /\ \A e \in End : rcvd[e] <= Len(stream[Peer(e)])

(* An endpoint whose peer runs this code never rejects one of its frames as *)
(* undecryptable, badly signed or replayed, whatever the two sides rekey,   *)
(* send and close at the same time (secureConnection.js 163, 188-191): the  *)
(* server counts such a rejection as a strike against the peer's address.   *)
HonestFramesAccepted ==
    \A e \in End :
        Peer(e) \notin Misbehaving =>
            fault[e] \notin {"crypto_error", "session_replay"}

(* The key with which an endpoint will open the next frame is the key with  *)
(* which its peer sealed it, or will seal it, across crossing rekeys in     *)
(* both directions (handshake.js 85-96).                                    *)
KeysInPhase ==
    \A e \in End :
        LET p == Peer(e)
        IN  p \notin Misbehaving /\ phase[e] = "secure" /\ ~closed[e] =>
              /\ rcvd[e] < Len(stream[p]) => NextFrame(e).key = rxKey[e]
              /\ rcvd[e] = Len(stream[p]) /\ phase[p] = "secure" /\ Writable(p)
                    => txKey[p] = rxKey[e]

(* CLOSE is the last frame of a direction: nothing sent after it could      *)
(* reach a listener of a connection already reported as closed (_onData     *)
(* does not look at _closed, 146-168).                                      *)
CloseIsLast ==
    \A e \in End \ Misbehaving : \A i \in 1..Len(stream[e]) :
        stream[e][i].t = "CLOSE" => i = Len(stream[e]) /\ sock[e] # "open"

(* A REKEY_ACK an endpoint is about to take answers the one rekey it has    *)
(* under way: _rekeying and _rk are never reset on account of another       *)
(* (110-115, 202-207).                                                      *)
Unread(e, t) ==
    {i \in (rcvd[Peer(e)] + 1)..Len(stream[e]) : stream[e][i].t = t}

OneRekeyAtATime ==
    \A e \in End :
        {e, Peer(e)} \cap Misbehaving = {} /\ ~closed[e] /\ ~closed[Peer(e)] =>
            LET open == {<<"REKEY", i>> : i \in Unread(e, "REKEY")}
                        \cup {<<"ACK", i>> : i \in Unread(Peer(e), "REKEY_ACK")}
            IN  /\ open # {} => rekeying[e]
                /\ \A x, y \in open : x = y

(* A session that ends without a destroyed socket on either side has        *)
(* delivered every message written to it, those that crossed the other      *)
(* side's CLOSE included (127-134, 208-212).                                *)
CleanEndLosesNothing ==
    \A e \in End :
        LET p == Peer(e)
        IN  p \notin Misbehaving /\ gone[e] /\ sock[e] = "ended" /\ sock[p] = "ended" =>
              \A i \in 1..Len(stream[p]) :
                  stream[p][i].t = "DATA" => stream[p][i].seq <= Len(delivered[e])

(* What a listener receives is a prefix of what the peer's user sent, in    *)
(* order, each message once, and nothing after the session is closed: the   *)
(* session implements SecureChannel.                                        *)
Channel == INSTANCE SecureChannel WITH up <- [e \in End |-> ~closed[e]]

ImplementsChannel == Channel!Spec

(* A frame that comes a second time, or comes back to the endpoint that     *)
(* wrote it, ends the session and has no other effect, whatever the peer    *)
(* writes: no message is delivered twice, no key advances, no rekey passes  *)
(* for acknowledged and none is answered.  DATA is recognised by its number *)
(* (188-193); REKEY and REKEY_ACK have none, so for them it rests on the    *)
(* key chain alone (handshake.js 85-96).                                    *)
Stale(e) ==
    NextFrame(e) \in Frames(e) \cup {stream[Peer(e)][i] : i \in 1..rcvd[e]}

StaleFramesEndSession ==
    [][\A e \in End \ Misbehaving :
         ~closed[e] /\ rcvd'[e] # rcvd[e] /\ Stale(e) =>
             /\ closed'[e]
             /\ UNCHANGED <<delivered[e], stream[e], txKey[e], rxKey[e], rekeying[e]>>]_vars

(* close() is the clean way to end a session ("Fermeture propre", 127): an  *)
(* endpoint whose user called it once does not end up in "error".           *)
CloseIsClean ==
    \A e \in End :
        (\E i \in 1..Len(stream[e]) : stream[e][i].t = "CLOSE")
            => fault[e] # "write_after_end"

(* Every handshake ends: the session is secure or the connection closed.    *)
HandshakeEnds ==
    \A e \in End : <>(phase[e] = "secure" \/ closed[e])

(* A rekey under way is acknowledged or the session closes: _rekeying is    *)
(* never left set, which would disable all later rekeys (111, 118).         *)
RekeyEnds ==
    \A e \in End : rekeying[e] ~> (~rekeying[e] \/ closed[e])

(* When one side has ended or lost its socket, both sides get their "close" *)
(* event, on which their timers and the users' session tables depend.       *)
CloseReachesBoth ==
    \A e \in End : sock[e] # "open" ~> (gone["I"] /\ gone["R"])
=============================================================================
