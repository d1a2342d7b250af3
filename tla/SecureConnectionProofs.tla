---------------------- MODULE SecureConnectionProofs ----------------------
(***************************************************************************)
(* Type correctness and safety of SecureConnection, for any set of         *)
(* messages, any thresholds, any misbehaving endpoints and any values of   *)
(* the bounds.  Of a peer that runs this code: its frames are never        *)
(* rejected, keys stay in phase, CLOSE is its last frame and a clean end   *)
(* loses none of its messages.  Of any peer: a frame that comes a second   *)
(* time ends the session.  When both run this code, rekeys do not overlap  *)
(* and the session implements SecureChannel.                               *)
(***************************************************************************)
EXTENDS SecureConnection, TLAPS

-----------------------------------------------------------------------------
(* Type correctness *)

LEMMA PeerType == \A e \in End : Peer(e) \in End /\ Peer(e) # e /\ Peer(Peer(e)) = e
  BY DEF End, Peer

LEMMA KeyTypes ==
  /\ NoKey \in Key /\ kI \in Key /\ kR \in Key
  /\ \A k \in Key : deriveRekey(k) \in Key
  BY DEF NoKey, kI, kR, deriveRekey, Key

LEMMA FrameTypes ==
  /\ Signed("MSG1", Transcript1) \in Frame
  /\ Signed("MSG2", Transcript2) \in Frame
  /\ Signed("MSG3", Transcript3) \in Frame
  /\ \A k \in Key, t \in CtrlType : Control(k, t) \in Frame
  /\ \A k \in Key, n \in Nat, b \in Body : seal(k, "DATA", n, b) \in Frame
  <1>1. /\ Signed("MSG1", Transcript1) \in HsFrame
        /\ Signed("MSG2", Transcript2) \in HsFrame
        /\ Signed("MSG3", Transcript3) \in HsFrame
    BY DEF Signed, HsFrame, HsType
  <1>2. \A k \in Key, t \in CtrlType : Control(k, t) \in CtrlFrame
    BY DEF Control, seal, CtrlFrame
  <1>3. \A k \in Key, n \in Nat, b \in Body : seal(k, "DATA", n, b) \in DataFrame
    BY DEF seal, DataFrame
  <1> QED BY <1>1, <1>2, <1>3 DEF Frame

LEMMA FrameFields ==
  ASSUME NEW f \in Frame
  PROVE  /\ f.key \in Key /\ f.seq \in Nat
         /\ f.t = "DATA" => f.body \in Body
  BY KeyTypes DEF Frame, HsFrame, DataFrame, CtrlFrame, HsType, CtrlType

LEMMA WriteType ==
  ASSUME TypeOK, NEW e \in End, NEW f \in Frame, Write(e, f)
  PROVE  /\ stream' \in [End -> Seq(Frame)]
         /\ sock' \in [End -> SockState]
         /\ \A p \in End : Len(stream[p]) <= Len(stream'[p])
  BY DEF TypeOK, Write, Puts, SockAfterWrite, SockState

LEMMA Write2Type ==
  ASSUME TypeOK, NEW e \in End, NEW f \in Frame, NEW g \in Frame, Write2(e, f, g)
  PROVE  /\ stream' \in [End -> Seq(Frame)]
         /\ sock' \in [End -> SockState]
         /\ \A p \in End : Len(stream[p]) <= Len(stream'[p])
  BY DEF TypeOK, Write2, SockAfterWrite, SockState

LEMMA FailType ==
  ASSUME TypeOK, NEW e \in End, NEW why \in Fault, Fail(e, why)
  PROVE  /\ closed' \in [End -> BOOLEAN]
         /\ sock' \in [End -> SockState]
         /\ fault' \in [End -> Fault]
  BY DEF TypeOK, Fail, SockState

LEMMA NextFrameType ==
  ASSUME TypeOK, NEW e \in End, Arrives(e)
  PROVE  /\ NextFrame(e) \in Frame
         /\ rcvd[e] + 1 <= Len(stream[Peer(e)])
  BY PeerType DEF TypeOK, Arrives, NextFrame

LEMMA ReadArrives ==
  ASSUME NEW e, CanRead(e)
  PROVE  Arrives(e)
  BY DEF CanRead

(* Whatever an endpoint takes, it takes of what its peer wrote. *)
Takes(e) ==
    \E n \in (rcvd[e] + 1)..Len(stream[Peer(e)]) : rcvd' = [rcvd EXCEPT ![e] = n]

LEMMA TakeTakes ==
  ASSUME TypeOK, NEW e \in End, Arrives(e), Take(e) \/ TakeLast(e)
  PROVE  Takes(e)
  <1>1. CASE Take(e) /\ ~closed[e]
    <2>1. rcvd' = [rcvd EXCEPT ![e] = rcvd[e] + 1]
      BY <1>1 DEF Take
    <2>2. rcvd[e] + 1 \in (rcvd[e] + 1)..Len(stream[Peer(e)])
      <3>1. stream[Peer(e)] \in Seq(Frame) /\ rcvd[e] \in Nat
        BY PeerType DEF TypeOK
      <3> QED BY <3>1, NextFrameType
    <2> QED BY <2>1, <2>2 DEF Takes
  <1> QED BY <1>1 DEF Take, TakeLast, Takes

LEMMA TakesFacts ==
  ASSUME TypeOK, NEW e \in End, Takes(e)
  PROVE  /\ rcvd' \in [End -> Nat]
         /\ rcvd'[Peer(e)] = rcvd[Peer(e)]
         /\ \A p \in End : rcvd'[p] <= Len(stream[Peer(p)])
  <1>1. PICK n \in (rcvd[e] + 1)..Len(stream[Peer(e)]) : rcvd' = [rcvd EXCEPT ![e] = n]
    BY DEF Takes
  <1>2. n \in Nat /\ n <= Len(stream[Peer(e)])
    <2>1. stream[Peer(e)] \in Seq(Frame) /\ rcvd[e] \in Nat
      BY PeerType DEF TypeOK
    <2> QED BY <1>1, <2>1
  <1>3. rcvd' \in [End -> Nat]
    BY <1>1, <1>2 DEF TypeOK
  <1>4. \A p \in End : rcvd'[p] <= Len(stream[Peer(p)])
    BY <1>1, <1>2 DEF TypeOK
  <1> QED BY <1>1, <1>3, <1>4, PeerType DEF TypeOK

LEMMA InitType == Init => TypeOK
  <1> SUFFICES ASSUME Init PROVE TypeOK
    OBVIOUS
  <1>1. stream \in [End -> Seq(Frame)]
    BY FrameTypes DEF Init
  <1>2. phase \in [End -> Phase] /\ fault \in [End -> Fault]
    BY DEF Init, Phase, Fault
  <1>3. sock \in [End -> SockState]
    BY DEF Init, SockState
  <1> QED
    BY <1>1, <1>2, <1>3, KeyTypes, PeerType DEF Init, TypeOK

(* What a step must keep of the streams and the read positions. *)
StreamsOK ==
    /\ stream \in [End -> Seq(Frame)]
    /\ sock \in [End -> SockState]
    /\ rcvd \in [End -> Nat]
    /\ \A e \in End : rcvd[e] <= Len(stream[Peer(e)])

(* A handler takes a frame and writes one. *)
LEMMA TakeWriteType ==
  ASSUME TypeOK, NEW e \in End, NEW f \in Frame, CanRead(e), Take(e), Puts(e, f)
  PROVE  /\ stream' \in [End -> Seq(Frame)]
         /\ rcvd' \in [End -> Nat]
         /\ \A p \in End : rcvd'[p] <= Len(stream'[Peer(p)])
  <1>1. /\ rcvd' \in [End -> Nat]
        /\ \A p \in End : rcvd'[p] <= Len(stream[Peer(p)])
    BY ReadArrives, TakeTakes, TakesFacts
  <1>2. /\ stream' \in [End -> Seq(Frame)]
        /\ \A p \in End : Len(stream[p]) <= Len(stream'[p])
    BY DEF TypeOK, Puts
  <1>3. ASSUME NEW p \in End PROVE rcvd'[p] <= Len(stream'[Peer(p)])
    <2>1. rcvd'[p] \in Nat /\ rcvd'[p] <= Len(stream[Peer(p)])
      BY <1>1
    <2>2. Peer(p) \in End /\ Len(stream[Peer(p)]) <= Len(stream'[Peer(p)])
      BY <1>2, PeerType
    <2>3. stream[Peer(p)] \in Seq(Frame) /\ stream'[Peer(p)] \in Seq(Frame)
      BY <1>2, <2>2 DEF TypeOK
    <2>4. Len(stream[Peer(p)]) \in Nat /\ Len(stream'[Peer(p)]) \in Nat
      BY <2>3
    <2> QED BY <2>1, <2>2, <2>4
  <1> QED BY <1>1, <1>2, <1>3

(* A handler takes a frame and writes nothing. *)
LEMMA TakeType ==
  ASSUME TypeOK, NEW e \in End, CanRead(e), Take(e) \/ TakeLast(e), UNCHANGED stream
  PROVE  /\ rcvd' \in [End -> Nat]
         /\ \A p \in End : rcvd'[p] <= Len(stream'[Peer(p)])
  BY ReadArrives, TakeTakes, TakesFacts

(* A step writes and takes nothing. *)
LEMMA WriteOnlyType ==
  ASSUME TypeOK, stream' \in [End -> Seq(Frame)], sock' \in [End -> SockState],
         \A p \in End : Len(stream[p]) <= Len(stream'[p]),
         UNCHANGED rcvd
  PROVE  StreamsOK'
  <1>1. ASSUME NEW p \in End PROVE rcvd'[p] <= Len(stream'[Peer(p)])
    <2>1. Peer(p) \in End /\ rcvd'[p] = rcvd[p]
      BY PeerType
    <2>2. /\ stream[Peer(p)] \in Seq(Frame) /\ stream'[Peer(p)] \in Seq(Frame)
          /\ rcvd[p] \in Nat /\ rcvd[p] <= Len(stream[Peer(p)])
      BY <2>1 DEF TypeOK
    <2>3. Len(stream[Peer(p)]) \in Nat /\ Len(stream'[Peer(p)]) \in Nat
      BY <2>2
    <2> QED BY <2>1, <2>2, <2>3
  <1> QED BY <1>1 DEF StreamsOK, TypeOK

LEMMA TypeRecvMsg1 ==
  ASSUME TypeOK, NEW e \in End, RecvMsg1(e)
  PROVE  TypeOK'
  <1>1. /\ stream' \in [End -> Seq(Frame)]
        /\ rcvd' \in [End -> Nat]
        /\ \A p \in End : rcvd'[p] <= Len(stream'[Peer(p)])
    BY TakeWriteType, FrameTypes DEF RecvMsg1, Write
  <1>2. txKey' \in [End -> Key] /\ rxKey' \in [End -> Key]
    BY KeyTypes DEF RecvMsg1, TypeOK
  <1>3. phase' \in [End -> Phase]
    BY DEF RecvMsg1, TypeOK, Phase
  <1>4. sock' \in [End -> SockState]
    BY FrameTypes, WriteType DEF RecvMsg1
  <1> QED BY <1>1, <1>2, <1>3, <1>4 DEF RecvMsg1, TypeOK

LEMMA TypeRecvMsg2 ==
  ASSUME TypeOK, NEW e \in End, RecvMsg2(e)
  PROVE  TypeOK'
  <1>1. /\ stream' \in [End -> Seq(Frame)]
        /\ rcvd' \in [End -> Nat]
        /\ \A p \in End : rcvd'[p] <= Len(stream'[Peer(p)])
    BY TakeWriteType, FrameTypes DEF RecvMsg2
  <1>2. txKey' \in [End -> Key] /\ rxKey' \in [End -> Key]
    BY KeyTypes DEF RecvMsg2, TypeOK
  <1>3. phase' \in [End -> Phase]
    BY DEF RecvMsg2, TypeOK, Phase
  <1>4. /\ closed' \in [End -> BOOLEAN] /\ sock' \in [End -> SockState]
        /\ fault' \in [End -> Fault]
    <2>1. CASE Fail(e, "listener_error")
      BY <2>1, FailType DEF Fault
    <2>2. CASE /\ sock' = [sock EXCEPT ![e] = SockAfterWrite(e)]
               /\ UNCHANGED <<closed, fault>>
      BY <2>2 DEF TypeOK, SockAfterWrite, SockState
    <2> QED BY <2>1, <2>2 DEF RecvMsg2
  <1> QED BY <1>1, <1>2, <1>3, <1>4 DEF RecvMsg2, TypeOK

LEMMA TypeRecvMsg3 ==
  ASSUME TypeOK, NEW e \in End, RecvMsg3(e)
  PROVE  TypeOK'
  <1>1. /\ rcvd' \in [End -> Nat]
        /\ \A p \in End : rcvd'[p] <= Len(stream'[Peer(p)])
    BY TakeType DEF RecvMsg3
  <1>2. phase' \in [End -> Phase]
    BY DEF RecvMsg3, TypeOK, Phase
  <1>3. /\ closed' \in [End -> BOOLEAN] /\ sock' \in [End -> SockState]
        /\ fault' \in [End -> Fault]
    <2>1. CASE Fail(e, "listener_error")
      BY <2>1, FailType DEF Fault
    <2>2. CASE UNCHANGED <<closed, sock, fault>>
      BY <2>2 DEF TypeOK
    <2> QED BY <2>1, <2>2 DEF RecvMsg3
  <1> QED BY <1>1, <1>2, <1>3 DEF RecvMsg3, TypeOK

LEMMA TypeSend ==
  ASSUME TypeOK, NEW e \in End, NEW b \in Body, Send(e, b)
  PROVE  TypeOK'
  <1> DEFINE data == seal(txKey[e], "DATA", txSeq[e] + 1, b)
  <1>1. data \in Frame /\ Control(txKey[e], "REKEY") \in Frame
    BY FrameTypes DEF TypeOK, CtrlType
  <1>2. \/ Write(e, data) /\ UNCHANGED <<rekeying, txKey>>
        \/ /\ Write2(e, data, Control(txKey[e], "REKEY"))
           /\ rekeying' = [rekeying EXCEPT ![e] = TRUE]
           /\ txKey' = [txKey EXCEPT ![e] = deriveRekey(@)]
    BY DEF Send
  <1> HIDE DEF data
  <1>3. StreamsOK'
    <2>1. /\ stream' \in [End -> Seq(Frame)] /\ sock' \in [End -> SockState]
          /\ \A p \in End : Len(stream[p]) <= Len(stream'[p])
      BY <1>1, <1>2, WriteType, Write2Type
    <2>2. UNCHANGED rcvd
      BY DEF Send
    <2> QED BY <2>1, <2>2, WriteOnlyType
  <1>4. rekeying' \in [End -> BOOLEAN]
    BY <1>2 DEF TypeOK
  <1>5. txKey' \in [End -> Key]
    <2>1. CASE txKey' = txKey
      BY <2>1 DEF TypeOK
    <2>2. CASE txKey' = [txKey EXCEPT ![e] = deriveRekey(@)]
      BY <2>2, KeyTypes DEF TypeOK
    <2> QED BY <1>2, <2>1, <2>2
  <1>6. sent' \in [End -> Seq(Body)]
    BY DEF Send, TypeOK
  <1>7. txSeq' \in [End -> Nat] /\ rkMsgs' \in [End -> Nat]
    BY DEF Send, TypeOK
  <1> QED BY <1>3, <1>4, <1>5, <1>6, <1>7 DEF Send, TypeOK, StreamsOK

LEMMA TypeRekey ==
  ASSUME TypeOK, NEW e \in End, Rekey(e)
  PROVE  TypeOK'
  <1>1. Control(txKey[e], "REKEY") \in Frame
    BY FrameTypes DEF TypeOK, CtrlType
  <1>2. StreamsOK'
    <2>1. Write(e, Control(txKey[e], "REKEY")) /\ UNCHANGED rcvd
      BY DEF Rekey, rekey
    <2> QED BY <1>1, <2>1, WriteType, WriteOnlyType
  <1>3. rekeying' \in [End -> BOOLEAN]
    BY DEF Rekey, rekey, TypeOK
  <1>4. txKey' \in [End -> Key]
    BY KeyTypes DEF Rekey, rekey, TypeOK
  <1> QED BY <1>2, <1>3, <1>4 DEF Rekey, rekey, TypeOK, StreamsOK

LEMMA TypeClose ==
  ASSUME TypeOK, NEW e \in End, Close(e)
  PROVE  TypeOK'
  <1>1. Control(txKey[e], "CLOSE") \in Frame
    BY FrameTypes DEF TypeOK, CtrlType
  <1>2. /\ stream' \in [End -> Seq(Frame)]
        /\ \A p \in End : Len(stream[p]) <= Len(stream'[p])
    BY <1>1 DEF Close, TypeOK
  <1>3. sock' \in [End -> SockState]
    BY DEF Close, TypeOK, SockState, SockAfterWrite
  <1>4. StreamsOK'
    BY <1>2, <1>3, WriteOnlyType DEF Close
  <1> QED BY <1>4 DEF Close, TypeOK, StreamsOK, sessionVars

LEMMA TypeRecvData ==
  ASSUME TypeOK, NEW e \in End, RecvData(e)
  PROVE  TypeOK'
  <1> DEFINE f == NextFrame(e)
  <1>1. CanRead(e) /\ Take(e) /\ f.t = "DATA"
    BY DEF RecvData, Opens
  <1>2. f.seq \in Nat /\ f.body \in Body
    BY <1>1, ReadArrives, NextFrameType, FrameFields
  <1>3. /\ rcvd' \in [End -> Nat]
        /\ \A p \in End : rcvd'[p] <= Len(stream'[Peer(p)])
    BY <1>1, TakeType DEF RecvData
  <1>4. PICK n \in Nat :
           /\ msgCount' = [msgCount EXCEPT ![e] = n]
           /\ \/ /\ Fail(e, "session_rate_limit")
                 /\ UNCHANGED <<rxSeq, delivered>>
              \/ /\ Fail(e, "session_replay")
                 /\ UNCHANGED <<rxSeq, delivered>>
              \/ /\ rxSeq' = [rxSeq EXCEPT ![e] = f.seq]
                 /\ delivered' = [delivered EXCEPT ![e] = Append(@, f.body)]
                 /\ \/ UNCHANGED <<closed, sock, fault>>
                    \/ Fail(e, "listener_error")
    <2>1. PICK windowOver \in BOOLEAN :
             LET n == IF windowOver THEN 1 ELSE msgCount[e] + 1
             IN  /\ msgCount' = [msgCount EXCEPT ![e] = n]
                 /\ \/ /\ Fail(e, "session_rate_limit")
                       /\ UNCHANGED <<rxSeq, delivered>>
                    \/ /\ Fail(e, "session_replay")
                       /\ UNCHANGED <<rxSeq, delivered>>
                    \/ /\ rxSeq' = [rxSeq EXCEPT ![e] = f.seq]
                       /\ delivered' = [delivered EXCEPT ![e] = Append(@, f.body)]
                       /\ \/ UNCHANGED <<closed, sock, fault>>
                          \/ Fail(e, "listener_error")
      BY DEF RecvData
    <2>2. (IF windowOver THEN 1 ELSE msgCount[e] + 1) \in Nat
      BY DEF TypeOK
    <2> QED BY <2>1, <2>2
  <1> HIDE DEF f
  <1>5. msgCount' \in [End -> Nat]
    BY <1>4 DEF TypeOK
  <1>6. rxSeq' \in [End -> Nat] /\ delivered' \in [End -> Seq(Body)]
    <2>1. CASE UNCHANGED <<rxSeq, delivered>>
      BY <2>1 DEF TypeOK
    <2>2. CASE /\ rxSeq' = [rxSeq EXCEPT ![e] = f.seq]
               /\ delivered' = [delivered EXCEPT ![e] = Append(@, f.body)]
      BY <1>2, <2>2 DEF TypeOK
    <2> QED BY <1>4, <2>1, <2>2
  <1>7. /\ closed' \in [End -> BOOLEAN] /\ sock' \in [End -> SockState]
        /\ fault' \in [End -> Fault]
    <2>1. {"session_rate_limit", "session_replay", "listener_error"} \subseteq Fault
      BY DEF Fault
    <2>2. CASE UNCHANGED <<closed, sock, fault>>
      BY <2>2 DEF TypeOK
    <2> QED BY <1>4, <2>1, <2>2, FailType
  <1> QED BY <1>3, <1>5, <1>6, <1>7 DEF RecvData, TypeOK

LEMMA TypeRecvRekey ==
  ASSUME TypeOK, NEW e \in End, RecvRekey(e)
  PROVE  TypeOK'
  <1>1. Control(txKey[e], "REKEY_ACK") \in Frame
    BY FrameTypes DEF TypeOK, CtrlType
  <1>2. /\ stream' \in [End -> Seq(Frame)]
        /\ rcvd' \in [End -> Nat]
        /\ \A p \in End : rcvd'[p] <= Len(stream'[Peer(p)])
    BY <1>1, TakeWriteType DEF RecvRekey, Opens, Write
  <1>3. rxKey' \in [End -> Key]
    BY KeyTypes DEF RecvRekey, TypeOK
  <1>4. txKey' \in [End -> Key]
    BY KeyTypes DEF RecvRekey, TypeOK
  <1>5. sock' \in [End -> SockState]
    BY <1>1, WriteType DEF RecvRekey
  <1> QED BY <1>2, <1>3, <1>4, <1>5 DEF RecvRekey, TypeOK

LEMMA TypeRecvRekeyAck ==
  ASSUME TypeOK, NEW e \in End, RecvRekeyAck(e)
  PROVE  TypeOK'
  <1>1. /\ rcvd' \in [End -> Nat]
        /\ \A p \in End : rcvd'[p] <= Len(stream'[Peer(p)])
    BY TakeType DEF RecvRekeyAck, Opens
  <1>2. rxKey' \in [End -> Key]
    BY KeyTypes DEF RecvRekeyAck, TypeOK
  <1>3. rekeying' \in [End -> BOOLEAN]
    BY DEF RecvRekeyAck, TypeOK
  <1>4. rkMsgs' \in [End -> Nat]
    BY DEF RecvRekeyAck, TypeOK
  <1> QED BY <1>1, <1>2, <1>3, <1>4 DEF RecvRekeyAck, TypeOK

LEMMA TypeRecvClose ==
  ASSUME TypeOK, NEW e \in End, RecvClose(e)
  PROVE  TypeOK'
  <1>1. /\ rcvd' \in [End -> Nat]
        /\ \A p \in End : rcvd'[p] <= Len(stream'[Peer(p)])
    BY TakeType DEF RecvClose, Opens
  <1>2. closed' \in [End -> BOOLEAN]
    BY DEF RecvClose, TypeOK
  <1>3. sock' \in [End -> SockState]
    BY DEF RecvClose, TypeOK, SockState
  <1> QED BY <1>1, <1>2, <1>3 DEF RecvClose, TypeOK, sessionVars

LEMMA TypeRecvBad ==
  ASSUME TypeOK, NEW e \in End, RecvBad(e)
  PROVE  TypeOK'
  <1>1. /\ rcvd' \in [End -> Nat]
        /\ \A p \in End : rcvd'[p] <= Len(stream'[Peer(p)])
    BY TakeType DEF RecvBad
  <1>2. /\ closed' \in [End -> BOOLEAN] /\ sock' \in [End -> SockState]
        /\ fault' \in [End -> Fault]
    BY FailType DEF RecvBad, Fault
  <1> QED BY <1>1, <1>2 DEF RecvBad, TypeOK, sessionVars

LEMMA TypeRecvOversize ==
  ASSUME TypeOK, NEW e \in End, RecvOversize(e)
  PROVE  TypeOK'
  <1>1. /\ rcvd' \in [End -> Nat]
        /\ \A p \in End : rcvd'[p] <= Len(stream'[Peer(p)])
    BY TakesFacts DEF RecvOversize, Takes
  <1>2. /\ closed' \in [End -> BOOLEAN] /\ sock' \in [End -> SockState]
        /\ fault' \in [End -> Fault]
    BY FailType DEF RecvOversize, Fault
  <1> QED BY <1>1, <1>2 DEF RecvOversize, TypeOK, sessionVars

LEMMA TypeFailing ==
  ASSUME TypeOK, NEW e \in End,
         HandshakeTimeout(e) \/ RefuseFrame(e) \/ ErrorEvent(e)
  PROVE  TypeOK'
  <1>1. PICK why \in Fault : Fail(e, why)
    BY DEF HandshakeTimeout, RefuseFrame, ErrorEvent, Fault
  <1>2. /\ closed' \in [End -> BOOLEAN] /\ sock' \in [End -> SockState]
        /\ fault' \in [End -> Fault]
    BY <1>1, FailType
  <1>3. UNCHANGED <<stream, sessionVars, eof, gone, sent, delivered>>
    BY DEF HandshakeTimeout, RefuseFrame, ErrorEvent
  <1>4. /\ rcvd' \in [End -> Nat]
        /\ \A p \in End : rcvd'[p] <= Len(stream'[Peer(p)])
    <2>1. CASE RefuseFrame(e)
      BY <2>1, TakeType DEF RefuseFrame
    <2>2. CASE HandshakeTimeout(e) \/ ErrorEvent(e)
      BY <2>2 DEF HandshakeTimeout, ErrorEvent, TypeOK
    <2> QED BY <2>1, <2>2
  <1> QED BY <1>2, <1>3, <1>4 DEF TypeOK, sessionVars

LEMMA TypeSocket ==
  ASSUME TypeOK, NEW e \in End,
         SocketError(e) \/ PeerEnd(e) \/ SocketClose(e)
  PROVE  TypeOK'
  <1>1. CASE SocketError(e)
    <2>1. sock' \in [End -> SockState]
      BY <1>1 DEF SocketError, TypeOK, SockState
    <2>2. closed' \in [End -> BOOLEAN]
      BY <1>1 DEF SocketError, TypeOK
    <2>3. fault' \in [End -> Fault]
      BY <1>1 DEF SocketError, TypeOK, Fault
    <2> QED BY <1>1, <2>1, <2>2, <2>3 DEF SocketError, TypeOK, sessionVars
  <1>2. CASE PeerEnd(e)
    <2>1. sock' \in [End -> SockState]
      BY <1>2 DEF PeerEnd, TypeOK, SockState
    <2>2. eof' \in [End -> BOOLEAN]
      BY <1>2 DEF PeerEnd, TypeOK
    <2> QED BY <1>2, <2>1, <2>2 DEF PeerEnd, TypeOK, sessionVars
  <1>3. CASE SocketClose(e)
    <2>1. closed' \in [End -> BOOLEAN] /\ gone' \in [End -> BOOLEAN]
      BY <1>3 DEF SocketClose, TypeOK
    <2> QED BY <1>3, <2>1 DEF SocketClose, TypeOK, sessionVars
  <1> QED BY <1>1, <1>2, <1>3

LEMMA TypeMisbehave ==
  ASSUME TypeOK, NEW e \in End, Misbehave(e)
  PROVE  TypeOK'
  <1>1. PICK f \in Forged \cup UNION {Frames(x) : x \in End} :
             stream' = [stream EXCEPT ![e] = Append(@, f)]
    BY DEF Misbehave
  <1>2. f \in Frame
    <2>1. CASE f \in Forged
      BY <2>1, ConstantsAssumption
    <2>2. ASSUME NEW x \in End, f \in Frames(x)
          PROVE  f \in Frame
      <3>1. stream[x] \in Seq(Frame)
        BY DEF TypeOK
      <3>2. PICK i \in 1..Len(stream[x]) : f = stream[x][i]
        BY <2>2 DEF Frames
      <3> QED BY <3>1, <3>2
    <2> QED BY <1>1, <2>1, <2>2
  <1>3. /\ stream' \in [End -> Seq(Frame)]
        /\ \A p \in End : Len(stream[p]) <= Len(stream'[p])
    BY <1>1, <1>2 DEF TypeOK
  <1>4. StreamsOK'
    BY <1>3, WriteOnlyType DEF Misbehave, TypeOK
  <1> QED BY <1>4 DEF Misbehave, TypeOK, StreamsOK, sessionVars

LEMMA TypeStep ==
  ASSUME TypeOK, [Next]_vars
  PROVE  TypeOK'
  <1>1. CASE Next
    <2>1. PICK e \in End :
            \/ Receive(e) \/ RefuseFrame(e) \/ UserCall(e) \/ HandshakeTimeout(e)
            \/ SocketEvent(e) \/ SocketError(e) \/ Misbehave(e)
      BY <1>1 DEF Next
    <2>2. CASE Receive(e)
      BY <2>2, TypeRecvMsg1, TypeRecvMsg2, TypeRecvMsg3, TypeRecvData,
         TypeRecvRekey, TypeRecvRekeyAck, TypeRecvClose, TypeRecvBad,
         TypeRecvOversize DEF Receive
    <2>3. CASE UserCall(e)
      BY <2>3, TypeSend, TypeRekey, TypeClose DEF UserCall
    <2> QED
      BY <2>1, <2>2, <2>3, TypeFailing, TypeSocket, TypeMisbehave DEF SocketEvent
  <1>2. CASE UNCHANGED vars
    BY <1>2 DEF vars, TypeOK
  <1> QED BY <1>1, <1>2

(* The variables of SecureConnection keep their types and no endpoint reads *)
(* past what its peer wrote, in every behaviour of the two endpoints.       *)
THEOREM TypeCorrect == Spec => []TypeOK
  BY InitType, TypeStep, PTL DEF Spec

-----------------------------------------------------------------------------
(* The inductive invariant.  Each direction p -> Peer(p) is described by    *)
(* what its sender has written and by what its receiver has taken of it.    *)
(* Of an endpoint that may write anything nothing is claimed but its types. *)

HsLen(p) == IF p = "I" THEN 2 ELSE 1

HsMessage(p, i) ==
    IF p = "R" THEN Signed("MSG2", Transcript2)
    ELSE IF i = 1 THEN Signed("MSG1", Transcript1)
    ELSE Signed("MSG3", Transcript3)

FirstKey(p) == IF p = "I" THEN kI ELSE kR

(* The key in force after a frame. *)
Advance(f) == IF f.t \in {"REKEY", "REKEY_ACK"} THEN deriveRekey(f.key) ELSE f.key

(* The key the frame at position i of stream s of p is sealed with. *)
KeyAt(p, s, i) == IF i = HsLen(p) + 1 THEN FirstKey(p) ELSE Advance(s[i - 1])

WellSealed(p, s) ==
    \A i \in 1..Len(s) :
        IF i <= HsLen(p)
        THEN s[i] = HsMessage(p, i)
        ELSE /\ s[i].t \in {"DATA", "REKEY", "REKEY_ACK", "CLOSE"}
             /\ s[i].key = KeyAt(p, s, i)

Increasing(s) ==
    \A i, j \in 1..Len(s) :
        i < j /\ s[i].t = "DATA" /\ s[j].t = "DATA" => s[i].seq < s[j].seq

Written(s, n, i) == \E j \in 1..i : s[j].t = "DATA" /\ s[j].seq = n

(* The DATA frames of s carry the messages of m under their index in m, and *)
(* none before all messages of a smaller index.                             *)
Numbered(s, m) ==
    \A i \in 1..Len(s) :
        s[i].t = "DATA" =>
            /\ s[i].seq \in 1..Len(m)
            /\ s[i].body = m[s[i].seq]
            /\ \A n \in 1..(s[i].seq - 1) : Written(s, n, i - 1)

(* CLOSE is the last frame of s. *)
ClosedLast(s) == \A i \in 1..Len(s) : s[i].t = "CLOSE" => i = Len(s)

NoClose(s) == \A i \in 1..Len(s) : s[i].t # "CLOSE"

AllWritten(s, m) == \A n \in 1..Len(m) : Written(s, n, Len(s))

PhaseInv ==
    /\ phase["I"] \in {"wait2", "secure"}
    /\ phase["R"] \in {"wait1", "wait3", "secure"}

(* What a sender has written: its messages and its CLOSE. *)
SendInv(p) ==
    /\ txSeq[p] = Len(sent[p])
    /\ Numbered(stream[p], sent[p])
    /\ Writable(p) => AllWritten(stream[p], sent[p])
    /\ ClosedLast(stream[p])
    /\ sock[p] = "open" => NoClose(stream[p])

(* The keys and numbers its frames carry. *)
SealInv(p) ==
    /\ WellSealed(p, stream[p])
    /\ Increasing(stream[p])
    /\ Writable(p) =>
         /\ phase[p] = "wait1" => Len(stream[p]) = 0
         /\ phase[p] \in {"wait2", "wait3"} => Len(stream[p]) = 1
         /\ phase[p] = "secure" => Len(stream[p]) >= HsLen(p)
         /\ phase[p] \in {"wait3", "secure"} =>
              txKey[p] = KeyAt(p, stream[p], Len(stream[p]) + 1)

(* What a receiver has delivered and taken. *)
RecvInv(q) ==
    LET p == Peer(q) IN
    /\ rxSeq[q] <= Len(sent[p])
    /\ Len(delivered[q]) = rxSeq[q]
    /\ \A n \in 1..rxSeq[q] : delivered[q][n] = sent[p][n]
    /\ ~closed[q] => \A i \in 1..rcvd[q] :
                        stream[p][i].t = "DATA" => stream[p][i].seq <= rxSeq[q]
    /\ closed[q] /\ sock[q] # "destroyed" /\ ~gone[q] =>
         rcvd[q] = Len(stream[p]) /\ sock[p] # "open"

(* It follows its peer's keys and numbers. *)
OpenInv(q) ==
    LET p == Peer(q) IN
    /\ fault[q] \notin {"crypto_error", "session_replay"}
    /\ ~closed[q] =>
         /\ phase[q] \in {"wait1", "wait2"} => rcvd[q] = 0
         /\ phase[q] = "wait3" => rcvd[q] = 1 /\ rxKey[q] = FirstKey(p)
         /\ phase[q] = "secure" =>
              rcvd[q] >= HsLen(p) /\ rxKey[q] = KeyAt(p, stream[p], rcvd[q] + 1)
         /\ \A i \in (rcvd[q] + 1)..Len(stream[p]) :
               stream[p][i].t = "DATA" => stream[p][i].seq > rxSeq[q]

IInv ==
    /\ TypeOK
    /\ PhaseInv
    /\ \A e \in End :
         /\ e \notin Misbehaving => SendInv(e) /\ SealInv(e)
         /\ Peer(e) \notin Misbehaving => RecvInv(e) /\ OpenInv(e)

-----------------------------------------------------------------------------
(* Sequences of frames *)

LEMMA AppendFacts ==
  ASSUME NEW S, NEW s \in Seq(S), NEW x \in S
  PROVE  /\ Append(s, x) \in Seq(S)
         /\ Len(Append(s, x)) = Len(s) + 1
         /\ Len(s) \in Nat
         /\ \A i \in 1..Len(s) : Append(s, x)[i] = s[i]
         /\ Append(s, x)[Len(s) + 1] = x
  OBVIOUS

LEMMA HsLenType == \A p \in End : HsLen(p) \in {1, 2}
  BY DEF HsLen, End

LEMMA KeyAtAppend ==
  ASSUME NEW p \in End, NEW s \in Seq(Frame), NEW f \in Frame,
         NEW i \in Nat, HsLen(p) + 1 <= i, i <= Len(s) + 1
  PROVE  KeyAt(p, Append(s, f), i) = KeyAt(p, s, i)
  BY AppendFacts, HsLenType DEF KeyAt

LEMMA AppendHs ==
  ASSUME NEW p \in End, NEW s \in Seq(Frame), WellSealed(p, s),
         Len(s) < HsLen(p), HsMessage(p, Len(s) + 1) \in Frame
  PROVE  WellSealed(p, Append(s, HsMessage(p, Len(s) + 1)))
  BY AppendFacts, HsLenType DEF WellSealed

LEMMA AppendSealed ==
  ASSUME NEW p \in End, NEW s \in Seq(Frame), NEW f \in Frame, WellSealed(p, s),
         Len(s) >= HsLen(p),
         f.t \in {"DATA", "REKEY", "REKEY_ACK", "CLOSE"},
         f.key = KeyAt(p, s, Len(s) + 1)
  PROVE  /\ WellSealed(p, Append(s, f))
         /\ Len(Append(s, f)) >= HsLen(p)
         /\ KeyAt(p, Append(s, f), Len(Append(s, f)) + 1) = Advance(f)
  <1> DEFINE t == Append(s, f)
  <1>1. /\ t \in Seq(Frame) /\ Len(t) = Len(s) + 1 /\ Len(s) \in Nat
        /\ \A i \in 1..Len(s) : t[i] = s[i]
        /\ t[Len(s) + 1] = f
    BY AppendFacts
  <1>2. HsLen(p) \in {1, 2}
    BY HsLenType
  <1>3. ASSUME NEW i \in 1..Len(t)
        PROVE IF i <= HsLen(p) THEN t[i] = HsMessage(p, i)
              ELSE /\ t[i].t \in {"DATA", "REKEY", "REKEY_ACK", "CLOSE"}
                   /\ t[i].key = KeyAt(p, t, i)
    <2>1. i \in Nat /\ 1 <= i /\ i <= Len(s) + 1
      BY <1>1
    <2>2. CASE i <= HsLen(p)
      BY <1>1, <1>2, <2>1, <2>2 DEF WellSealed
    <2>3. CASE i > HsLen(p)
      <3>1. KeyAt(p, t, i) = KeyAt(p, s, i)
        BY <1>2, <2>1, <2>3, KeyAtAppend
      <3>2. CASE i = Len(s) + 1
        BY <1>1, <2>3, <3>1, <3>2, <1>2
      <3>3. CASE i <= Len(s)
        BY <1>1, <1>2, <2>1, <2>3, <3>1, <3>3 DEF WellSealed
      <3> QED BY <2>1, <1>1, <3>2, <3>3
    <2> QED BY <1>2, <2>1, <2>2, <2>3
  <1>4. KeyAt(p, t, Len(t) + 1) = Advance(f)
    BY <1>1, <1>2 DEF KeyAt
  <1> QED BY <1>1, <1>2, <1>3, <1>4 DEF WellSealed

LEMMA IncreasingAppend ==
  ASSUME NEW s \in Seq(Frame), NEW f \in Frame, Increasing(s),
         f.t = "DATA" => \A i \in 1..Len(s) : s[i].t = "DATA" => s[i].seq < f.seq
  PROVE  Increasing(Append(s, f))
  BY AppendFacts DEF Increasing

LEMMA WrittenAppend ==
  ASSUME NEW s \in Seq(Frame), NEW f \in Frame, NEW n, NEW i \in 0..Len(s),
         Written(s, n, i)
  PROVE  /\ Written(Append(s, f), n, i)
         /\ Written(Append(s, f), n, Len(Append(s, f)))
  BY AppendFacts DEF Written

LEMMA NumberedAppendCtrl ==
  ASSUME NEW s \in Seq(Frame), NEW f \in Frame, NEW m \in Seq(Body),
         Numbered(s, m), f.t # "DATA"
  PROVE  Numbered(Append(s, f), m)
  <1> DEFINE t == Append(s, f)
  <1>1. /\ Len(t) = Len(s) + 1 /\ Len(s) \in Nat
        /\ \A i \in 1..Len(s) : t[i] = s[i]
        /\ t[Len(s) + 1] = f
    BY AppendFacts
  <1> SUFFICES ASSUME NEW i \in 1..Len(t), t[i].t = "DATA"
               PROVE  /\ t[i].seq \in 1..Len(m)
                      /\ t[i].body = m[t[i].seq]
                      /\ \A n \in 1..(t[i].seq - 1) : Written(t, n, i - 1)
    BY DEF Numbered
  <1>2. i \in 1..Len(s) /\ t[i] = s[i]
    BY <1>1
  <1>3. /\ s[i].seq \in 1..Len(m)
        /\ s[i].body = m[s[i].seq]
        /\ \A n \in 1..(s[i].seq - 1) : Written(s, n, i - 1)
    BY <1>2 DEF Numbered
  <1>4. i - 1 \in 0..Len(s)
    BY <1>1, <1>2
  <1> QED BY <1>2, <1>3, <1>4, WrittenAppend

LEMMA NumberedMore ==
  ASSUME NEW s \in Seq(Frame), NEW m \in Seq(Body), NEW b \in Body, Numbered(s, m)
  PROVE  Numbered(s, Append(m, b))
  BY AppendFacts DEF Numbered

LEMMA NumberedAppendData ==
  ASSUME NEW s \in Seq(Frame), NEW f \in Frame, NEW m \in Seq(Body), NEW b \in Body,
         Numbered(s, m), AllWritten(s, m),
         f.t = "DATA", f.seq = Len(m) + 1, f.body = b
  PROVE  /\ Numbered(Append(s, f), Append(m, b))
         /\ AllWritten(Append(s, f), Append(m, b))
  <1> DEFINE t == Append(s, f)
             k == Append(m, b)
  <1>1. /\ Len(t) = Len(s) + 1 /\ Len(s) \in Nat
        /\ \A i \in 1..Len(s) : t[i] = s[i]
        /\ t[Len(s) + 1] = f
    BY AppendFacts
  <1>2. /\ Len(k) = Len(m) + 1 /\ Len(m) \in Nat
        /\ k[Len(m) + 1] = b
    BY AppendFacts
  <1>3. Numbered(s, k)
    BY NumberedMore
  <1>4. \A n \in 1..Len(m) : Written(t, n, Len(s)) /\ Written(t, n, Len(t))
    BY <1>1, WrittenAppend DEF AllWritten
  <1>5. Written(t, Len(m) + 1, Len(t))
    BY <1>1 DEF Written
  <1> HIDE DEF t, k
  <1>6. ASSUME NEW i \in 1..Len(t), t[i].t = "DATA"
        PROVE  /\ t[i].seq \in 1..Len(k)
               /\ t[i].body = k[t[i].seq]
               /\ \A n \in 1..(t[i].seq - 1) : Written(t, n, i - 1)
    <2>1. CASE i = Len(s) + 1
      BY <1>1, <1>2, <1>4, <2>1
    <2>2. CASE i \in 1..Len(s)
      <3>1. t[i] = s[i]
        BY <1>1, <2>2
      <3>2. /\ s[i].seq \in 1..Len(k)
            /\ s[i].body = k[s[i].seq]
            /\ \A n \in 1..(s[i].seq - 1) : Written(s, n, i - 1)
        BY <1>3, <1>6, <2>2, <3>1 DEF Numbered
      <3>3. i - 1 \in 0..Len(s)
        BY <1>1, <2>2
      <3> QED BY <3>1, <3>2, <3>3, WrittenAppend DEF t
    <2> QED BY <1>1, <2>1, <2>2
  <1>7. Numbered(t, k)
    BY <1>6 DEF Numbered
  <1>8. \A n \in 1..Len(k) : Written(t, n, Len(t))
    BY <1>2, <1>4, <1>5
  <1> QED BY <1>7, <1>8 DEF t, k, AllWritten

LEMMA AllWrittenAppend ==
  ASSUME NEW s \in Seq(Frame), NEW f \in Frame, NEW m \in Seq(Body), AllWritten(s, m)
  PROVE  AllWritten(Append(s, f), m)
  <1>1. Len(s) \in 0..Len(s)
    OBVIOUS
  <1> QED BY <1>1, WrittenAppend DEF AllWritten

LEMMA NoCloseAppend ==
  ASSUME NEW s \in Seq(Frame), NEW f \in Frame, NoClose(s)
  PROVE  /\ ClosedLast(Append(s, f))
         /\ f.t # "CLOSE" => NoClose(Append(s, f))
  BY AppendFacts DEF NoClose, ClosedLast

-----------------------------------------------------------------------------
(* One direction, one step *)

(* What every step does to the sending side of p. *)
SenderStep(p) ==
    /\ Len(stream[p]) <= Len(stream'[p])
    /\ \A i \in 1..Len(stream[p]) : stream'[p][i] = stream[p][i]
    /\ sock[p] # "open" => stream'[p] = stream[p] /\ sock'[p] # "open"
    /\ Len(sent[p]) <= Len(sent'[p])
    /\ \A n \in 1..Len(sent[p]) : sent'[p][n] = sent[p][n]

(* What a sender that runs this code adds has fresh sequence numbers. *)
FreshStep(p) ==
    \A i \in (Len(stream[p]) + 1)..Len(stream'[p]) :
        stream'[p][i].t = "DATA" => stream'[p][i].seq > Len(sent[p])

(* The step is not one of q. *)
Idle(q) ==
    /\ stream'[q] = stream[q] /\ rcvd'[q] = rcvd[q] /\ phase'[q] = phase[q]
    /\ txKey'[q] = txKey[q] /\ rxKey'[q] = rxKey[q] /\ txSeq'[q] = txSeq[q]
    /\ rxSeq'[q] = rxSeq[q] /\ closed'[q] = closed[q] /\ sock'[q] = sock[q]
    /\ gone'[q] = gone[q] /\ fault'[q] = fault[q] /\ sent'[q] = sent[q]
    /\ delivered'[q] = delivered[q]

LEMMA LenTypes ==
  ASSUME TypeOK
  PROVE  \A p \in End : /\ stream[p] \in Seq(Frame) /\ Len(stream[p]) \in Nat
                        /\ sent[p] \in Seq(Body) /\ Len(sent[p]) \in Nat
                        /\ delivered[p] \in Seq(Body) /\ Len(delivered[p]) \in Nat
                        /\ rcvd[p] \in Nat /\ rcvd[p] <= Len(stream[Peer(p)])
                        /\ rxSeq[p] \in Nat /\ txSeq[p] \in Nat
                        /\ txKey[p] \in Key /\ rxKey[p] \in Key
  <1>1. stream \in [End -> Seq(Frame)] /\ sent \in [End -> Seq(Body)]
        /\ delivered \in [End -> Seq(Body)]
    BY DEF TypeOK
  <1>2. /\ rcvd \in [End -> Nat] /\ rxSeq \in [End -> Nat] /\ txSeq \in [End -> Nat]
        /\ txKey \in [End -> Key] /\ rxKey \in [End -> Key]
        /\ \A e \in End : rcvd[e] <= Len(stream[Peer(e)])
    BY DEF TypeOK
  <1> QED BY <1>1, <1>2

(* The sending side of an idle endpoint keeps its invariant. *)
LEMMA SendIdle ==
  ASSUME NEW p \in End, Idle(p)
  PROVE  /\ SendInv(p) => SendInv(p)'
         /\ SealInv(p) => SealInv(p)'
  BY DEF Idle, SendInv, SealInv, Writable

(* Writing goes on while reading does not. *)
SenderQuiet(p) ==
    /\ stream'[p] = stream[p] /\ sent'[p] = sent[p] /\ txSeq'[p] = txSeq[p]
    /\ txKey'[p] = txKey[p]
    /\ sock'[p] = "open" => sock[p] = "open"
    /\ Writable(p)' => Writable(p) /\ phase'[p] = phase[p]

LEMMA SendQuiet ==
  ASSUME TypeOK, NEW p \in End, SenderQuiet(p)
  PROVE  /\ SendInv(p) => SendInv(p)'
         /\ SealInv(p) => SealInv(p)'
         /\ SenderStep(p) /\ FreshStep(p)
  <1>1. SendInv(p) => SendInv(p)'
    BY DEF SenderQuiet, SendInv
  <1>2. SealInv(p) => SealInv(p)'
    BY DEF SenderQuiet, SealInv
  <1>3. SenderStep(p) /\ FreshStep(p)
    BY LenTypes DEF SenderQuiet, SenderStep, FreshStep
  <1> QED BY <1>1, <1>2, <1>3

(* The receiving side of an idle endpoint, whatever its peer does. *)
LEMMA RecvIdle ==
  ASSUME TypeOK, TypeOK', NEW q \in End, Idle(q), SenderStep(Peer(q)), RecvInv(q)
  PROVE  RecvInv(q)'
  <1> DEFINE p == Peer(q)
  <1>1. p \in End
    BY PeerType
  <1>2. /\ Len(stream[p]) \in Nat /\ Len(sent[p]) \in Nat /\ rcvd[q] \in Nat
        /\ rcvd[q] <= Len(stream[p]) /\ rxSeq[q] \in Nat /\ Len(sent'[p]) \in Nat
    <2>1. sent' \in [End -> Seq(Body)]
      BY DEF TypeOK
    <2>2. Len(sent'[p]) \in Nat
      BY <1>1, <2>1
    <2> QED BY <1>1, <2>2, LenTypes
  <1>3. /\ rxSeq'[q] <= Len(sent'[p])
        /\ Len(delivered'[q]) = rxSeq'[q]
        /\ \A n \in 1..rxSeq'[q] : delivered'[q][n] = sent'[p][n]
    BY <1>2 DEF RecvInv, Idle, SenderStep
  <1>4. ~closed'[q] => \A i \in 1..rcvd'[q] :
            stream'[p][i].t = "DATA" => stream'[p][i].seq <= rxSeq'[q]
    BY <1>2 DEF RecvInv, Idle, SenderStep
  <1>5. closed'[q] /\ sock'[q] # "destroyed" /\ ~gone'[q] =>
            rcvd'[q] = Len(stream'[p]) /\ sock'[p] # "open"
    BY <1>2 DEF RecvInv, Idle, SenderStep
  <1> QED BY <1>3, <1>4, <1>5 DEF RecvInv

LEMMA OpenIdle ==
  ASSUME TypeOK, TypeOK', NEW q \in End, Idle(q), SenderStep(Peer(q)),
         FreshStep(Peer(q)), RecvInv(q), OpenInv(q)
  PROVE  OpenInv(q)'
  <1> DEFINE p == Peer(q)
  <1>1. p \in End
    BY PeerType
  <1>2. /\ stream[p] \in Seq(Frame) /\ Len(stream[p]) \in Nat
        /\ Len(sent[p]) \in Nat /\ rcvd[q] \in Nat
        /\ rcvd[q] <= Len(stream[p]) /\ rxSeq[q] \in Nat /\ rxSeq[q] <= Len(sent[p])
    BY <1>1, LenTypes DEF RecvInv
  <1>3. Len(stream'[p]) \in Nat /\ \A i \in 1..Len(stream'[p]) : stream'[p][i] \in Frame
    <2>1. stream' \in [End -> Seq(Frame)]
      BY DEF TypeOK
    <2>2. stream'[p] \in Seq(Frame)
      BY <1>1, <2>1
    <2> QED BY <2>2
  <1>4. fault'[q] \notin {"crypto_error", "session_replay"}
    BY DEF OpenInv, Idle
  <1>5. ASSUME ~closed'[q]
        PROVE  /\ phase'[q] \in {"wait1", "wait2"} => rcvd'[q] = 0
               /\ phase'[q] = "wait3" => rcvd'[q] = 1 /\ rxKey'[q] = FirstKey(p)
    BY <1>5 DEF OpenInv, Idle
  <1>6. ASSUME ~closed'[q], phase'[q] = "secure"
        PROVE  rcvd'[q] >= HsLen(p) /\ rxKey'[q] = KeyAt(p, stream'[p], rcvd'[q] + 1)
    <2>1. rcvd[q] >= HsLen(p) /\ rxKey[q] = KeyAt(p, stream[p], rcvd[q] + 1)
      BY <1>6 DEF OpenInv, Idle
    <2>2. KeyAt(p, stream'[p], rcvd[q] + 1) = KeyAt(p, stream[p], rcvd[q] + 1)
      <3>1. HsLen(p) \in {1, 2}
        BY <1>1, HsLenType
      <3>2. rcvd[q] \in 1..Len(stream[p]) /\ rcvd[q] + 1 - 1 = rcvd[q]
        BY <1>2, <2>1, <3>1
      <3>3. stream'[p][rcvd[q]] = stream[p][rcvd[q]]
        BY <3>2 DEF SenderStep
      <3> QED BY <3>2, <3>3 DEF KeyAt
    <2> QED BY <2>1, <2>2 DEF Idle
  <1>7. ASSUME ~closed'[q], NEW i \in (rcvd'[q] + 1)..Len(stream'[p]),
               stream'[p][i].t = "DATA"
        PROVE  stream'[p][i].seq > rxSeq'[q]
    <2>1. i \in Nat /\ rcvd[q] + 1 <= i /\ i <= Len(stream'[p])
      BY <1>2, <1>3 DEF Idle
    <2>2. CASE i <= Len(stream[p])
      <3>1. stream'[p][i] = stream[p][i]
        BY <1>2, <2>1, <2>2 DEF SenderStep
      <3> QED BY <1>2, <1>7, <2>1, <2>2, <3>1 DEF OpenInv, Idle
    <2>3. CASE i > Len(stream[p])
      <3>1. stream'[p][i].seq > Len(sent[p])
        BY <1>2, <1>3, <1>7, <2>1, <2>3 DEF FreshStep
      <3>2. stream'[p][i].seq \in Nat
        BY <1>2, <1>3, <2>1, FrameFields
      <3> QED BY <1>2, <3>1, <3>2 DEF Idle
    <2> QED BY <1>2, <2>1, <2>2, <2>3
  <1> QED BY <1>4, <1>5, <1>6, <1>7 DEF OpenInv

(* Only an open connection reads what a peer that runs this code writes. *)
LEMMA ReaderOpen ==
  ASSUME TypeOK, NEW q \in End, RecvInv(q), Arrives(q)
  PROVE  ~closed[q] /\ rcvd[q] < Len(stream[Peer(q)])
  <1>1. rcvd[q] < Len(stream[Peer(q)]) /\ rcvd[q] \in Nat
    BY LenTypes DEF Arrives
  <1> QED BY <1>1 DEF Arrives, RecvInv

-----------------------------------------------------------------------------
(* What a write does to the sending side *)

NotReopened(p) ==
    /\ closed[p] => closed'[p]
    /\ sock'[p] = "open" => sock[p] = "open"

(* The cases of a write. *)
LEMMA PutsCases ==
  ASSUME TypeOK, NEW p \in End, NEW f, Puts(p, f), NotReopened(p)
  PROVE  \/ /\ Writable(p) /\ sock[p] = "open"
            /\ stream'[p] = Append(stream[p], f)
         \/ /\ ~Writable(p) /\ ~Writable(p)' /\ stream'[p] = stream[p]
            /\ sock'[p] = "open" => sock[p] = "open"
  BY DEF TypeOK, Puts, Writable, NotReopened

LEMMA WritePuts ==
  ASSUME TypeOK, NEW p \in End, NEW f, Write(p, f), closed' = closed
  PROVE  Puts(p, f) /\ NotReopened(p)
  BY DEF TypeOK, Write, SockAfterWrite, NotReopened

LEMMA WriteCases ==
  ASSUME TypeOK, NEW p \in End, NEW f, Write(p, f), closed' = closed
  PROVE  \/ /\ Writable(p) /\ sock[p] = "open" /\ sock'[p] = "open"
            /\ stream'[p] = Append(stream[p], f)
         \/ /\ ~Writable(p) /\ ~Writable(p)' /\ stream'[p] = stream[p]
            /\ sock'[p] = "open" <=> sock[p] = "open"
  BY DEF TypeOK, Write, Puts, Writable, SockAfterWrite

LEMMA Write2Cases ==
  ASSUME TypeOK, NEW p \in End, NEW f, NEW g, Write2(p, f, g), closed' = closed
  PROVE  \/ /\ Writable(p) /\ sock[p] = "open" /\ sock'[p] = "open"
            /\ stream'[p] = Append(Append(stream[p], f), g)
         \/ /\ ~Writable(p) /\ ~Writable(p)' /\ stream'[p] = stream[p]
            /\ sock'[p] = "open" <=> sock[p] = "open"
  BY DEF TypeOK, Write2, Writable, SockAfterWrite

(* A frame other than DATA and CLOSE. *)
LEMMA WriteCtrl ==
  ASSUME TypeOK, NEW p \in End, NEW f \in Frame, f.t \notin {"DATA", "CLOSE"},
         SendInv(p), Puts(p, f), NotReopened(p), sent' = sent, txSeq' = txSeq
  PROVE  SendInv(p)' /\ SenderStep(p) /\ FreshStep(p)
  <1> DEFINE s == stream[p]
  <1>1. /\ s \in Seq(Frame) /\ Len(s) \in Nat
        /\ sent[p] \in Seq(Body) /\ Len(sent[p]) \in Nat
    BY LenTypes
  <1>2. CASE /\ Writable(p) /\ sock[p] = "open"
             /\ stream'[p] = Append(s, f)
    <2>1. Numbered(Append(s, f), sent[p]) /\ AllWritten(Append(s, f), sent[p])
      BY <1>1, <1>2, NumberedAppendCtrl, AllWrittenAppend DEF SendInv
    <2>2. ClosedLast(Append(s, f)) /\ NoClose(Append(s, f))
      BY <1>1, <1>2, NoCloseAppend DEF SendInv
    <2>3. SendInv(p)'
      BY <1>2, <2>1, <2>2 DEF SendInv
    <2>4. /\ Len(Append(s, f)) = Len(s) + 1
          /\ \A i \in 1..Len(s) : Append(s, f)[i] = s[i]
          /\ Append(s, f)[Len(s) + 1] = f
      BY <1>1, AppendFacts
    <2>5. SenderStep(p) /\ FreshStep(p)
      BY <1>1, <1>2, <2>4 DEF SenderStep, FreshStep
    <2> QED BY <2>3, <2>5
  <1>3. CASE /\ ~Writable(p) /\ ~Writable(p)' /\ stream'[p] = s
             /\ sock'[p] = "open" => sock[p] = "open"
    <2>1. SendInv(p)'
      BY <1>3 DEF SendInv
    <2>2. SenderStep(p) /\ FreshStep(p)
      BY <1>1, <1>3 DEF SenderStep, FreshStep
    <2> QED BY <2>1, <2>2
  <1> QED BY <1>2, <1>3, PutsCases

(* REKEY or REKEY_ACK, after which the sender advances its key. *)
LEMMA WriteRekeySeal ==
  ASSUME TypeOK, NEW p \in End, NEW t \in {"REKEY", "REKEY_ACK"},
         SealInv(p), Write(p, Control(txKey[p], t)), closed' = closed,
         phase[p] = "secure", phase'[p] = "secure",
         txKey'[p] = deriveRekey(txKey[p])
  PROVE  SealInv(p)'
  <1> DEFINE s == stream[p]
             f == Control(txKey[p], t)
  <1>1. s \in Seq(Frame) /\ Len(s) \in Nat /\ txKey[p] \in Key
    BY LenTypes
  <1>2. f \in Frame /\ f.t = t /\ f.key = txKey[p]
    BY <1>1, FrameTypes DEF CtrlType, Control, seal
  <1> HIDE DEF f
  <1>3. CASE /\ Writable(p) /\ sock[p] = "open"
             /\ stream'[p] = Append(s, f)
    <2>1. Len(s) >= HsLen(p) /\ txKey[p] = KeyAt(p, s, Len(s) + 1)
      BY <1>3 DEF SealInv
    <2>2. /\ WellSealed(p, Append(s, f))
          /\ Len(Append(s, f)) >= HsLen(p)
          /\ KeyAt(p, Append(s, f), Len(Append(s, f)) + 1) = Advance(f)
      BY <1>1, <1>2, <2>1, AppendSealed DEF SealInv
    <2>3. Advance(f) = txKey'[p]
      BY <1>2 DEF Advance
    <2>4. Increasing(Append(s, f))
      BY <1>1, <1>2, IncreasingAppend DEF SealInv
    <2> QED BY <1>3, <2>2, <2>3, <2>4 DEF SealInv
  <1>4. CASE /\ ~Writable(p) /\ ~Writable(p)' /\ stream'[p] = s
             /\ sock'[p] = "open" => sock[p] = "open"
    BY <1>4 DEF SealInv
  <1> QED BY <1>3, <1>4, PutsCases, WritePuts DEF f

(* A handshake message, after which the sender is in phase ph with key k. *)
LEMMA WriteHsSeal ==
  ASSUME TypeOK, NEW p \in End, SealInv(p),
         NEW f \in Frame, Puts(p, f), NotReopened(p),
         Writable(p) => Len(stream[p]) = HsLen(p) - 1 /\ f = HsMessage(p, HsLen(p)),
         phase'[p] \in {"wait3", "secure"}, phase'[p] = "wait3" => HsLen(p) = 1,
         txKey'[p] = FirstKey(p), f.t # "DATA"
  PROVE  SealInv(p)'
  <1> DEFINE s == stream[p]
  <1>1. s \in Seq(Frame) /\ Len(s) \in Nat
    BY LenTypes
  <1>2. HsLen(p) \in {1, 2}
    BY HsLenType
  <1>3. CASE /\ Writable(p) /\ sock[p] = "open"
             /\ stream'[p] = Append(s, f)
    <2>1. Len(s) + 1 = HsLen(p) /\ Len(s) < HsLen(p)
      BY <1>1, <1>2, <1>3
    <2>2. WellSealed(p, Append(s, f))
      BY <1>1, <1>3, <2>1, AppendHs DEF SealInv
    <2>3. Increasing(Append(s, f))
      BY <1>1, IncreasingAppend DEF SealInv
    <2>4. Len(Append(s, f)) = HsLen(p)
      BY <1>1, <2>1, AppendFacts
    <2>5. KeyAt(p, Append(s, f), Len(Append(s, f)) + 1) = FirstKey(p)
      BY <2>4 DEF KeyAt
    <2> QED BY <1>2, <1>3, <2>2, <2>3, <2>4, <2>5 DEF SealInv
  <1>4. CASE /\ ~Writable(p) /\ ~Writable(p)' /\ stream'[p] = s
             /\ sock'[p] = "open" => sock[p] = "open"
    BY <1>4 DEF SealInv
  <1> QED BY <1>3, <1>4, PutsCases

(* send(), with or without the automatic rekey. *)
LEMMA SendSender ==
  ASSUME TypeOK, NEW p \in End, NEW b \in Body, SendInv(p), Send(p, b)
  PROVE  /\ SendInv(p)' /\ SenderStep(p) /\ FreshStep(p)
         /\ SealInv(p) => SealInv(p)'
  <1> DEFINE s == stream[p]
             f == seal(txKey[p], "DATA", txSeq[p] + 1, b)
             g == Control(txKey[p], "REKEY")
             s1 == Append(s, f)
             s2 == Append(s1, g)
             m1 == Append(sent[p], b)
  <1>1. /\ s \in Seq(Frame) /\ Len(s) \in Nat
        /\ sent[p] \in Seq(Body) /\ Len(sent[p]) \in Nat
        /\ txKey[p] \in Key /\ txSeq[p] = Len(sent[p])
    BY LenTypes DEF SendInv
  <1>2. /\ f \in Frame /\ f.t = "DATA" /\ f.key = txKey[p]
        /\ f.seq = Len(sent[p]) + 1 /\ f.body = b
    <2>1. f \in Frame
      BY <1>1, FrameTypes
    <2>2. /\ f.t = "DATA" /\ f.key = txKey[p]
          /\ f.seq = txSeq[p] + 1 /\ f.body = b
      BY DEF seal
    <2> QED BY <1>1, <2>1, <2>2
  <1>3. g \in Frame /\ g.t = "REKEY" /\ g.key = txKey[p]
    BY <1>1, FrameTypes DEF CtrlType, Control, seal
  <1>4. /\ closed' = closed /\ phase' = phase /\ phase[p] = "secure"
        /\ sent'[p] = m1 /\ txSeq'[p] = Len(sent[p]) + 1
    BY <1>1 DEF Send, TypeOK
  <1>5. \/ Write(p, f) /\ txKey'[p] = txKey[p]
        \/ Write2(p, f, g) /\ txKey'[p] = deriveRekey(txKey[p])
    BY DEF Send, TypeOK
  <1> HIDE DEF f, g
  <1>6. /\ s1 \in Seq(Frame) /\ Len(s1) = Len(s) + 1
        /\ \A i \in 1..Len(s) : s1[i] = s[i]
        /\ s1[Len(s) + 1] = f
    BY <1>1, <1>2, AppendFacts
  <1>7. /\ s2 \in Seq(Frame) /\ Len(s2) = Len(s) + 2
        /\ \A i \in 1..Len(s) : s2[i] = s[i]
        /\ s2[Len(s) + 1] = f /\ s2[Len(s) + 2] = g
    <2>1. /\ s2 \in Seq(Frame) /\ Len(s2) = Len(s1) + 1
          /\ \A i \in 1..Len(s1) : s2[i] = s1[i]
          /\ s2[Len(s1) + 1] = g
      BY <1>3, <1>6, AppendFacts
    <2> QED BY <1>1, <1>6, <2>1
  <1>8. /\ m1 \in Seq(Body) /\ Len(m1) = Len(sent[p]) + 1
        /\ \A n \in 1..Len(sent[p]) : m1[n] = sent[p][n]
    BY <1>1, AppendFacts
  <1>9. CASE ~Writable(p)
    <2>1. /\ ~Writable(p)' /\ stream'[p] = s
          /\ sock'[p] = "open" <=> sock[p] = "open"
      BY <1>4, <1>5, <1>9, WriteCases, Write2Cases
    <2>2. Numbered(s, m1)
      BY <1>1, NumberedMore DEF SendInv
    <2>3. SendInv(p)'
      BY <1>4, <1>8, <2>1, <2>2 DEF SendInv
    <2>4. SenderStep(p) /\ FreshStep(p)
      BY <1>1, <1>4, <1>8, <2>1 DEF SenderStep, FreshStep
    <2>5. SealInv(p) => SealInv(p)'
      BY <2>1 DEF SealInv
    <2> QED BY <2>3, <2>4, <2>5
  <1>10. CASE Writable(p)
    <2>1. /\ sock[p] = "open" /\ sock'[p] = "open"
          /\ \/ stream'[p] = s1 /\ txKey'[p] = txKey[p]
             \/ stream'[p] = s2 /\ txKey'[p] = deriveRekey(txKey[p])
      BY <1>4, <1>5, <1>10, WriteCases, Write2Cases
    <2>2. Numbered(s1, m1) /\ AllWritten(s1, m1)
      BY <1>1, <1>2, <1>10, NumberedAppendData DEF SendInv
    <2>3. Numbered(s2, m1) /\ AllWritten(s2, m1)
      BY <1>3, <1>6, <1>8, <2>2, NumberedAppendCtrl, AllWrittenAppend
    <2>4. ClosedLast(s1) /\ NoClose(s1)
      BY <1>1, <1>2, <2>1, NoCloseAppend DEF SendInv
    <2>5. ClosedLast(s2) /\ NoClose(s2)
      BY <1>3, <1>6, <2>4, NoCloseAppend
    <2>6. SendInv(p)'
      BY <1>4, <1>8, <2>1, <2>2, <2>3, <2>4, <2>5 DEF SendInv
    <2>7. SenderStep(p)
      <3>1. Len(sent[p]) <= Len(sent'[p]) /\ \A n \in 1..Len(sent[p]) : sent'[p][n] = sent[p][n]
        BY <1>1, <1>4, <1>8
      <3> QED BY <1>1, <1>6, <1>7, <2>1, <3>1 DEF SenderStep
    <2>8. FreshStep(p)
      <3>1. CASE stream'[p] = s1
        <4>1. \A i \in (Len(s) + 1)..Len(s1) : i = Len(s) + 1
          BY <1>1, <1>6
        <4> QED BY <1>1, <1>2, <1>6, <3>1, <4>1 DEF FreshStep
      <3>2. CASE stream'[p] = s2
        <4>1. \A i \in (Len(s) + 1)..Len(s2) : i = Len(s) + 1 \/ i = Len(s) + 2
          BY <1>1, <1>7
        <4> QED BY <1>1, <1>2, <1>3, <1>7, <3>2, <4>1 DEF FreshStep
      <3> QED BY <2>1, <3>1, <3>2
    <2>9. ASSUME SealInv(p) PROVE SealInv(p)'
      <3>1. WellSealed(p, s) /\ Len(s) >= HsLen(p) /\ txKey[p] = KeyAt(p, s, Len(s) + 1)
        BY <1>4, <1>10, <2>9 DEF SealInv
      <3>2. /\ WellSealed(p, s1) /\ Len(s1) >= HsLen(p)
            /\ KeyAt(p, s1, Len(s1) + 1) = Advance(f)
        BY <1>1, <1>2, <3>1, AppendSealed
      <3>3. Advance(f) = txKey[p] /\ Advance(g) = deriveRekey(txKey[p])
        BY <1>2, <1>3 DEF Advance
      <3>4. /\ WellSealed(p, s2) /\ Len(s2) >= HsLen(p)
            /\ KeyAt(p, s2, Len(s2) + 1) = Advance(g)
        BY <1>3, <1>6, <3>2, <3>3, AppendSealed
      <3>5. Increasing(s1)
        <4>1. ASSUME NEW i \in 1..Len(s), s[i].t = "DATA" PROVE s[i].seq < f.seq
          BY <1>1, <1>2, <4>1 DEF SendInv, Numbered
        <4> QED BY <1>1, <1>2, <2>9, <4>1, IncreasingAppend DEF SealInv
      <3>6. Increasing(s2)
        BY <1>3, <1>6, <3>5, IncreasingAppend
      <3> QED
        BY <1>4, <2>1, <3>2, <3>3, <3>4, <3>5, <3>6 DEF SealInv
    <2> QED BY <2>6, <2>7, <2>8, <2>9
  <1> QED BY <1>9, <1>10

LEMMA CloseSender ==
  ASSUME TypeOK, NEW p \in End, SendInv(p), Close(p)
  PROVE  /\ SendInv(p)' /\ SenderStep(p) /\ FreshStep(p)
         /\ SealInv(p) => SealInv(p)'
  <1> DEFINE s == stream[p]
             f == Control(txKey[p], "CLOSE")
  <1>1. /\ s \in Seq(Frame) /\ Len(s) \in Nat
        /\ sent[p] \in Seq(Body) /\ Len(sent[p]) \in Nat /\ txKey[p] \in Key
    BY LenTypes
  <1>2. f \in Frame /\ f.t = "CLOSE" /\ f.key = txKey[p]
    BY <1>1, FrameTypes DEF CtrlType, Control, seal
  <1>3. /\ stream'[p] = IF phase[p] = "secure" /\ Writable(p) THEN Append(s, f) ELSE s
        /\ sock'[p] # "open" /\ ~Writable(p)'
        /\ sent' = sent /\ txSeq' = txSeq
    BY DEF Close, TypeOK, SockAfterWrite, Writable, sessionVars
  <1> HIDE DEF f
  <1>4. CASE phase[p] = "secure" /\ Writable(p)
    <2>1. Numbered(Append(s, f), sent[p])
      BY <1>1, <1>2, NumberedAppendCtrl DEF SendInv
    <2>2. ClosedLast(Append(s, f))
      BY <1>1, <1>2, <1>4, NoCloseAppend DEF SendInv, Writable
    <2>3. SendInv(p)'
      BY <1>3, <1>4, <2>1, <2>2 DEF SendInv
    <2>4. /\ Len(Append(s, f)) = Len(s) + 1
          /\ \A i \in 1..Len(s) : Append(s, f)[i] = s[i]
          /\ Append(s, f)[Len(s) + 1] = f
      BY <1>1, <1>2, AppendFacts
    <2>5. SenderStep(p) /\ FreshStep(p)
      BY <1>1, <1>2, <1>3, <1>4, <2>4 DEF SenderStep, FreshStep, Writable
    <2>6. ASSUME SealInv(p) PROVE SealInv(p)'
      <3>1. WellSealed(p, s) /\ Len(s) >= HsLen(p) /\ txKey[p] = KeyAt(p, s, Len(s) + 1)
        BY <1>4, <2>6 DEF SealInv
      <3>2. WellSealed(p, Append(s, f))
        BY <1>1, <1>2, <3>1, AppendSealed
      <3>3. Increasing(Append(s, f))
        BY <1>1, <1>2, <2>6, IncreasingAppend DEF SealInv
      <3> QED BY <1>3, <1>4, <3>2, <3>3 DEF SealInv
    <2> QED BY <2>3, <2>5, <2>6
  <1>5. CASE ~(phase[p] = "secure" /\ Writable(p))
    <2>1. SendInv(p)'
      BY <1>3, <1>5 DEF SendInv
    <2>2. SenderStep(p) /\ FreshStep(p)
      BY <1>1, <1>3, <1>5 DEF SenderStep, FreshStep
    <2>3. SealInv(p) => SealInv(p)'
      BY <1>3, <1>5 DEF SealInv
    <2> QED BY <2>1, <2>2, <2>3
  <1> QED BY <1>4, <1>5

-----------------------------------------------------------------------------
(* What a step does to the receiving side *)

(* A step of q that takes nothing and closes nothing. *)
LEMMA RecvStill ==
  ASSUME TypeOK, NEW q \in End, Idle(Peer(q)), RecvInv(q),
         rcvd'[q] = rcvd[q], rxSeq'[q] = rxSeq[q], delivered'[q] = delivered[q],
         closed'[q] = closed[q], gone'[q] = gone[q],
         closed[q] /\ sock'[q] # "destroyed" => sock[q] # "destroyed",
         phase'[q] = phase[q], rxKey'[q] = rxKey[q], fault'[q] = fault[q]
  PROVE  /\ RecvInv(q)'
         /\ OpenInv(q) => OpenInv(q)'
  <1>1. RecvInv(q)'
    BY DEF RecvInv, Idle
  <1>2. OpenInv(q) => OpenInv(q)'
    BY DEF OpenInv, Idle
  <1> QED BY <1>1, <1>2

(* A step after which q reads no more. *)
LEMMA RecvStop ==
  ASSUME TypeOK, NEW q \in End, Idle(Peer(q)), RecvInv(q),
         rxSeq'[q] = rxSeq[q], delivered'[q] = delivered[q],
         closed'[q], sock'[q] = "destroyed" \/ gone'[q]
  PROVE  /\ RecvInv(q)'
         /\ fault'[q] \notin {"crypto_error", "session_replay"} => OpenInv(q)'
  <1>1. RecvInv(q)'
    BY DEF RecvInv, Idle
  <1>2. fault'[q] \notin {"crypto_error", "session_replay"} => OpenInv(q)'
    BY DEF OpenInv
  <1> QED BY <1>1, <1>2

(* A frame other than DATA is taken and q stays open. *)
LEMMA RecvTakeCtrl ==
  ASSUME TypeOK, NEW q \in End, Idle(Peer(q)), RecvInv(q), CanRead(q), Take(q),
         NextFrame(q).t # "DATA", rxSeq'[q] = rxSeq[q],
         delivered'[q] = delivered[q], closed'[q] = closed[q]
  PROVE  RecvInv(q)'
  <1> DEFINE p == Peer(q)
  <1>1. ~closed[q] /\ rcvd[q] < Len(stream[p]) /\ rcvd[q] \in Nat
    BY ReadArrives, ReaderOpen, LenTypes
  <1>2. rcvd'[q] = rcvd[q] + 1
    BY <1>1 DEF Take, TypeOK
  <1>3. \A i \in 1..rcvd'[q] :
            stream'[p][i].t = "DATA" => stream'[p][i].seq <= rxSeq'[q]
    BY <1>1, <1>2 DEF RecvInv, Idle, NextFrame
  <1> QED BY <1>1, <1>3 DEF RecvInv, Idle

LEMMA TakeCount ==
  ASSUME TypeOK, NEW q \in End, Take(q), ~closed[q]
  PROVE  rcvd'[q] = rcvd[q] + 1
  BY DEF TypeOK, Take

(* What an honest sender's next frame is to its receiver. *)
LEMMA NextSealed ==
  ASSUME TypeOK, NEW q \in End, RecvInv(q), OpenInv(q), SealInv(Peer(q)),
         CanRead(q), phase[q] = "secure"
  PROVE  /\ NextFrame(q).key = rxKey[q]
         /\ NextFrame(q).t \in {"DATA", "REKEY", "REKEY_ACK", "CLOSE"}
         /\ KeyAt(Peer(q), stream[Peer(q)], rcvd[q] + 2) = Advance(NextFrame(q))
         /\ rcvd[q] + 1 >= HsLen(Peer(q))
  <1> DEFINE p == Peer(q)
  <1>1. ~closed[q] /\ rcvd[q] < Len(stream[p]) /\ rcvd[q] \in Nat /\ Len(stream[p]) \in Nat
    BY ReadArrives, ReaderOpen, LenTypes, PeerType
  <1>2. p \in End /\ HsLen(p) \in {1, 2}
    BY PeerType, HsLenType
  <1>3. rcvd[q] >= HsLen(p) /\ rxKey[q] = KeyAt(p, stream[p], rcvd[q] + 1)
    BY <1>1 DEF OpenInv
  <1>4. rcvd[q] + 1 \in 1..Len(stream[p]) /\ ~(rcvd[q] + 1 <= HsLen(p))
    BY <1>1, <1>2, <1>3
  <1>5. /\ stream[p][rcvd[q] + 1].t \in {"DATA", "REKEY", "REKEY_ACK", "CLOSE"}
        /\ stream[p][rcvd[q] + 1].key = KeyAt(p, stream[p], rcvd[q] + 1)
    BY <1>4 DEF SealInv, WellSealed
  <1>6. KeyAt(p, stream[p], rcvd[q] + 2) = Advance(stream[p][rcvd[q] + 1])
    <2>1. rcvd[q] + 2 # HsLen(p) + 1 /\ rcvd[q] + 2 - 1 = rcvd[q] + 1
      BY <1>1, <1>2, <1>3
    <2>2. \A k \in Nat : k # HsLen(p) + 1 => KeyAt(p, stream[p], k) = Advance(stream[p][k - 1])
      BY DEF KeyAt
    <2>3. KeyAt(p, stream[p], rcvd[q] + 2) = Advance(stream[p][rcvd[q] + 2 - 1])
      BY <1>1, <2>1, <2>2
    <2> QED BY <2>1, <2>3
  <1> QED BY <1>1, <1>2, <1>3, <1>5, <1>6 DEF NextFrame

(* The receiver follows the key chain past a frame other than DATA. *)
LEMMA OpenTakeCtrl ==
  ASSUME TypeOK, NEW q \in End, Idle(Peer(q)), RecvInv(q), OpenInv(q),
         SealInv(Peer(q)), CanRead(q), Take(q), phase[q] = "secure",
         phase'[q] = phase[q], NextFrame(q).t # "DATA",
         rxKey'[q] = Advance(NextFrame(q)), rxSeq'[q] = rxSeq[q],
         closed'[q] = closed[q], fault'[q] = fault[q]
  PROVE  OpenInv(q)'
  <1> DEFINE p == Peer(q)
  <1>1. ~closed[q] /\ rcvd[q] < Len(stream[p]) /\ rcvd[q] \in Nat /\ Len(stream[p]) \in Nat
    BY ReadArrives, ReaderOpen, LenTypes, PeerType
  <1>2. rcvd'[q] = rcvd[q] + 1 /\ rcvd'[q] + 1 = rcvd[q] + 2
    BY <1>1 DEF Take, TypeOK
  <1>3. rxKey'[q] = KeyAt(p, stream[p], rcvd[q] + 2) /\ rcvd[q] + 1 >= HsLen(p)
    BY NextSealed
  <1>4. \A i \in (rcvd'[q] + 1)..Len(stream'[p]) :
               stream'[p][i].t = "DATA" => stream'[p][i].seq > rxSeq'[q]
    BY <1>1, <1>2 DEF OpenInv, Idle
  <1> QED BY <1>1, <1>2, <1>3, <1>4 DEF OpenInv, Idle

(* The next DATA frame that passes the sequence check carries the message   *)
(* after the last one delivered.                                            *)
LEMMA NextInOrder ==
  ASSUME TypeOK, NEW q \in End, RecvInv(q), SendInv(Peer(q)), CanRead(q),
         NextFrame(q).t = "DATA", NextFrame(q).seq > rxSeq[q]
  PROVE  /\ NextFrame(q).seq = rxSeq[q] + 1
         /\ rxSeq[q] + 1 <= Len(sent[Peer(q)])
         /\ NextFrame(q).body = sent[Peer(q)][rxSeq[q] + 1]
  <1> DEFINE p == Peer(q)
             s == stream[p]
             i == rcvd[q] + 1
  <1>1. /\ ~closed[q] /\ rcvd[q] < Len(s) /\ rcvd[q] \in Nat /\ Len(s) \in Nat
        /\ rxSeq[q] \in Nat /\ Len(sent[p]) \in Nat
    BY ReadArrives, ReaderOpen, LenTypes, PeerType
  <1>2. i \in 1..Len(s) /\ i - 1 = rcvd[q]
    BY <1>1
  <1>3. /\ s[i].seq \in 1..Len(sent[p])
        /\ s[i].body = sent[p][s[i].seq]
        /\ \A n \in 1..(s[i].seq - 1) : Written(s, n, i - 1)
    BY <1>2 DEF SendInv, Numbered, NextFrame
  <1>0. NextFrame(q) = s[i]
    BY DEF NextFrame
  <1> HIDE DEF i
  <1>4. ASSUME s[i].seq # rxSeq[q] + 1 PROVE FALSE
    <2>1. rxSeq[q] + 1 \in 1..(s[i].seq - 1)
      <3>1. s[i].seq > rxSeq[q]
        BY <1>0
      <3>2. s[i].seq \in Nat
        BY <1>1, <1>3
      <3> QED BY <1>1, <1>4, <3>1, <3>2
    <2>2. PICK j \in 1..rcvd[q] : s[j].t = "DATA" /\ s[j].seq = rxSeq[q] + 1
      BY <1>2, <1>3, <2>1 DEF Written
    <2>3. s[j].seq <= rxSeq[q]
      BY <1>1, <2>2 DEF RecvInv
    <2> QED BY <1>1, <2>2, <2>3
  <1> QED BY <1>0, <1>1, <1>3, <1>4

-----------------------------------------------------------------------------
(* One step per action *)

(* What a step of e must establish of its writing, if e runs this code, and *)
(* of its reading, if its peer does.                                        *)
SentOK(e) == SendInv(e)' /\ SealInv(e)' /\ SenderStep(e) /\ FreshStep(e)

ReadOK(e) == RecvInv(e)' /\ OpenInv(e)'

StepOK(e) ==
    /\ Idle(Peer(e))
    /\ e \notin Misbehaving => SentOK(e)
    /\ Peer(e) \notin Misbehaving => ReadOK(e)
    /\ PhaseInv'

LEMMA StepSuffices ==
  ASSUME IInv, TypeOK', NEW e \in End, StepOK(e)
  PROVE  IInv'
  <1> DEFINE p == Peer(e)
  <1>1. p \in End /\ Peer(p) = e /\ \A x \in End : x = e \/ x = p
    BY PeerType DEF End
  <1>2. TypeOK /\ (p \notin Misbehaving => SendInv(p) /\ SealInv(p))
        /\ (e \notin Misbehaving => RecvInv(p) /\ OpenInv(p))
    BY <1>1 DEF IInv
  <1>3. p \notin Misbehaving => SendInv(p)' /\ SealInv(p)'
    BY <1>1, <1>2, SendIdle DEF StepOK
  <1>4. e \notin Misbehaving => RecvInv(p)' /\ OpenInv(p)'
    BY <1>1, <1>2, RecvIdle, OpenIdle DEF StepOK, SentOK
  <1>5. /\ PhaseInv'
        /\ e \notin Misbehaving => SendInv(e)' /\ SealInv(e)'
        /\ p \notin Misbehaving => RecvInv(e)' /\ OpenInv(e)'
    BY DEF StepOK, SentOK, ReadOK
  <1> QED
    <2> SUFFICES ASSUME NEW x \in End
                 PROVE  /\ x \notin Misbehaving => SendInv(x)' /\ SealInv(x)'
                        /\ Peer(x) \notin Misbehaving => RecvInv(x)' /\ OpenInv(x)'
      BY <1>5 DEF IInv
    <2>1. CASE x = e
      BY <1>5, <2>1
    <2>2. CASE x = p
      BY <1>1, <1>3, <1>4, <2>2
    <2> QED BY <1>1, <2>1, <2>2

LEMMA Unpack ==
  ASSUME IInv, NEW e \in End
  PROVE  /\ TypeOK /\ PhaseInv /\ Peer(e) \in End
         /\ e \notin Misbehaving => SendInv(e) /\ SealInv(e)
         /\ Peer(e) \notin Misbehaving =>
              /\ RecvInv(e) /\ OpenInv(e)
              /\ SendInv(Peer(e)) /\ SealInv(Peer(e))
  BY PeerType DEF IInv

(* A reader of what a peer that runs this code writes. *)
LEMMA HonestReader ==
  ASSUME IInv, NEW e \in End, Peer(e) \notin Misbehaving
  PROVE  /\ Arrives(e) => ~closed[e] /\ rcvd[e] < Len(stream[Peer(e)])
         /\ CanRead(e) /\ Take(e) => rcvd'[e] = rcvd[e] + 1
  BY Unpack, ReadArrives, ReaderOpen, TakeCount

(* Which endpoint is in which phase. *)
LEMMA PhaseOf ==
  ASSUME PhaseInv, NEW e \in End
  PROVE  /\ phase[e] \in {"wait1", "wait3"} => e = "R"
         /\ phase[e] = "wait2" => e = "I"
         /\ phase[e] \in Phase
  BY DEF PhaseInv, End, Phase

LEMMA SamePhase ==
  ASSUME PhaseInv, UNCHANGED phase
  PROVE  PhaseInv'
  BY DEF PhaseInv

(* A failure leaves the peer alone. *)
LEMMA FailOther ==
  ASSUME TypeOK, NEW e \in End, NEW why, Fail(e, why)
  PROVE  /\ closed'[e] /\ (sock'[e] = "open" => sock[e] = "open")
         /\ closed'[Peer(e)] = closed[Peer(e)] /\ sock'[Peer(e)] = sock[Peer(e)]
         /\ fault'[Peer(e)] = fault[Peer(e)]
  BY PeerType DEF Fail, TypeOK

(* A failure of a connection that is still open. *)
LEMMA FailStops ==
  ASSUME TypeOK, NEW e \in End, NEW why, Fail(e, why), ~closed[e]
  PROVE  closed'[e] /\ sock'[e] = "destroyed" /\ fault'[e] = why
  BY DEF Fail, TypeOK

LEMMA StepRecvMsg1 ==
  ASSUME IInv, NEW e \in End, RecvMsg1(e)
  PROVE  StepOK(e)
  <1> DEFINE f == Signed("MSG2", Transcript2)
  <1>1. /\ TypeOK /\ PhaseInv /\ Peer(e) \in End
        /\ e \notin Misbehaving => SendInv(e) /\ SealInv(e)
        /\ Peer(e) \notin Misbehaving =>
             /\ RecvInv(e) /\ OpenInv(e)
             /\ SendInv(Peer(e)) /\ SealInv(Peer(e))
    BY Unpack
  <1>0. e = "R"
    BY Unpack, PhaseOf DEF RecvMsg1
  <1>2. HsLen(e) = 1 /\ FirstKey(e) = kR /\ HsLen(Peer(e)) = 2
        /\ FirstKey(Peer(e)) = kI
    BY <1>0 DEF Peer, HsLen, FirstKey
  <1>3. f \in Frame /\ f.t = "MSG2" /\ f = HsMessage(e, 1)
    BY <1>0, FrameTypes DEF Signed, HsMessage
  <1>4. /\ CanRead(e) /\ Take(e) /\ Write(e, f) /\ NextFrame(e).t = "MSG1"
        /\ closed' = closed /\ sent' = sent /\ txSeq' = txSeq /\ fault' = fault
        /\ rxSeq' = rxSeq /\ delivered' = delivered /\ gone' = gone
        /\ phase[e] = "wait1"
    BY DEF RecvMsg1, Accepts
  <1>5. phase'[e] = "wait3" /\ txKey'[e] = kR /\ rxKey'[e] = kI
    BY <1>1 DEF RecvMsg1, TypeOK
  <1>6. Idle(Peer(e))
    <2>1. rcvd'[Peer(e)] = rcvd[Peer(e)]
      BY <1>1, <1>4, ReadArrives, TakeTakes, TakesFacts
    <2> QED BY <1>1, <2>1, PeerType DEF RecvMsg1, Write, Puts, Idle, TypeOK
  <1> HIDE DEF f
  <1>7. ASSUME e \notin Misbehaving PROVE SentOK(e)
    <2>1. Puts(e, f) /\ NotReopened(e)
      BY <1>1, <1>4, WritePuts
    <2>2. SendInv(e)' /\ SenderStep(e) /\ FreshStep(e)
      BY <1>1, <1>3, <1>4, <1>7, <2>1, WriteCtrl
    <2>3. Writable(e) => Len(stream[e]) = HsLen(e) - 1
      BY <1>1, <1>2, <1>4, <1>7 DEF SealInv
    <2>4. SealInv(e)'
      BY <1>1, <1>2, <1>3, <1>5, <1>7, <2>1, <2>3, WriteHsSeal
    <2> QED BY <2>2, <2>4 DEF SentOK
  <1>8. ASSUME Peer(e) \notin Misbehaving PROVE ReadOK(e)
    <2>1. RecvInv(e)'
      BY <1>1, <1>4, <1>6, <1>8, RecvTakeCtrl
    <2>2. ~closed[e] /\ rcvd[e] = 0 /\ rcvd'[e] = 1
      <3>1. ~closed[e] /\ rcvd'[e] = rcvd[e] + 1
        BY <1>4, <1>8, HonestReader, ReadArrives
      <3> QED BY <1>1, <1>4, <1>8, <3>1 DEF OpenInv
    <2>3. \A i \in 2..Len(stream'[Peer(e)]) :
              stream'[Peer(e)][i].t = "DATA" => stream'[Peer(e)][i].seq > rxSeq'[e]
      <3>1. Len(stream[Peer(e)]) \in Nat
        BY <1>1, LenTypes
      <3> QED BY <1>1, <1>4, <1>6, <1>8, <2>2, <3>1 DEF OpenInv, Idle
    <2>4. OpenInv(e)'
      BY <1>1, <1>2, <1>4, <1>5, <1>8, <2>2, <2>3 DEF OpenInv
    <2> QED BY <2>1, <2>4 DEF ReadOK
  <1>9. PhaseInv'
    BY <1>0, <1>1 DEF PhaseInv, RecvMsg1, TypeOK, End
  <1> QED BY <1>6, <1>7, <1>8, <1>9 DEF StepOK

LEMMA StepRecvMsg2 ==
  ASSUME IInv, NEW e \in End, RecvMsg2(e)
  PROVE  StepOK(e)
  <1> DEFINE f == Signed("MSG3", Transcript3)
  <1>1. /\ TypeOK /\ PhaseInv /\ Peer(e) \in End
        /\ e \notin Misbehaving => SendInv(e) /\ SealInv(e)
        /\ Peer(e) \notin Misbehaving =>
             /\ RecvInv(e) /\ OpenInv(e)
             /\ SendInv(Peer(e)) /\ SealInv(Peer(e))
    BY Unpack
  <1>0. e = "I"
    BY Unpack, PhaseOf DEF RecvMsg2
  <1>2. HsLen(e) = 2 /\ FirstKey(e) = kI /\ HsLen(Peer(e)) = 1
        /\ FirstKey(Peer(e)) = kR
    BY <1>0 DEF Peer, HsLen, FirstKey
  <1>3. f \in Frame /\ f.t = "MSG3" /\ f = HsMessage(e, 2)
    BY <1>0, FrameTypes DEF Signed, HsMessage
  <1>4. /\ CanRead(e) /\ Take(e) /\ Puts(e, f) /\ NextFrame(e).t = "MSG2"
        /\ sent' = sent /\ txSeq' = txSeq
        /\ rxSeq' = rxSeq /\ delivered' = delivered /\ gone' = gone
        /\ phase[e] = "wait2"
        /\ \/ sock' = [sock EXCEPT ![e] = SockAfterWrite(e)] /\ UNCHANGED <<closed, fault>>
           \/ Fail(e, "listener_error")
    BY DEF RecvMsg2, Accepts
  <1>5. phase'[e] = "secure" /\ txKey'[e] = kI /\ rxKey'[e] = kR
    BY <1>1 DEF RecvMsg2, TypeOK
  <1>6. /\ NotReopened(e) /\ closed'[Peer(e)] = closed[Peer(e)]
        /\ sock'[Peer(e)] = sock[Peer(e)] /\ fault'[Peer(e)] = fault[Peer(e)]
    <2>1. CASE Fail(e, "listener_error")
      BY <1>1, <2>1, FailOther DEF NotReopened
    <2>2. CASE sock' = [sock EXCEPT ![e] = SockAfterWrite(e)] /\ UNCHANGED <<closed, fault>>
      BY <1>1, <2>2, PeerType DEF NotReopened, TypeOK, SockAfterWrite
    <2> QED BY <1>4, <2>1, <2>2
  <1>7. Idle(Peer(e))
    <2>1. rcvd'[Peer(e)] = rcvd[Peer(e)]
      BY <1>1, <1>4, ReadArrives, TakeTakes, TakesFacts
    <2> QED BY <1>1, <1>6, <2>1, PeerType DEF RecvMsg2, Puts, Idle, TypeOK
  <1> HIDE DEF f
  <1>8. ASSUME e \notin Misbehaving PROVE SentOK(e)
    <2>1. SendInv(e)' /\ SenderStep(e) /\ FreshStep(e)
      BY <1>1, <1>3, <1>4, <1>6, <1>8, WriteCtrl
    <2>2. Writable(e) => Len(stream[e]) = HsLen(e) - 1
      <3>1. Writable(e) => Len(stream[e]) = 1
        BY <1>1, <1>4, <1>8 DEF SealInv
      <3> QED BY <1>2, <3>1
    <2>3. SealInv(e)'
      BY <1>1, <1>2, <1>3, <1>4, <1>5, <1>6, <1>8, <2>2, WriteHsSeal
    <2> QED BY <2>1, <2>3 DEF SentOK
  <1>9. ASSUME Peer(e) \notin Misbehaving PROVE ReadOK(e)
    <2>1. ~closed[e] /\ rcvd'[e] = rcvd[e] + 1
      BY <1>4, <1>9, HonestReader, ReadArrives
    <2>2. CASE Fail(e, "listener_error")
      <3>1. closed'[e] /\ sock'[e] = "destroyed" /\ fault'[e] = "listener_error"
        BY <1>1, <2>1, <2>2, FailStops
      <3> QED BY <1>1, <1>4, <1>7, <1>9, <3>1, RecvStop DEF ReadOK
    <2>3. CASE UNCHANGED <<closed, fault>>
      <3>1. RecvInv(e)'
        BY <1>1, <1>4, <1>7, <1>9, <2>3, RecvTakeCtrl
      <3>2. rcvd[e] = 0 /\ rcvd'[e] = 1
        BY <1>1, <1>4, <1>9, <2>1 DEF OpenInv
      <3>3. \A i \in 2..Len(stream'[Peer(e)]) :
                stream'[Peer(e)][i].t = "DATA" => stream'[Peer(e)][i].seq > rxSeq'[e]
        <4>1. Len(stream[Peer(e)]) \in Nat
          BY <1>1, LenTypes
        <4> QED BY <1>1, <1>4, <1>7, <1>9, <2>1, <3>2, <4>1 DEF OpenInv, Idle
      <3>4. KeyAt(Peer(e), stream'[Peer(e)], 2) = kR
        BY <1>2 DEF KeyAt
      <3>5. OpenInv(e)'
        BY <1>1, <1>2, <1>4, <1>5, <1>9, <2>1, <2>3, <3>2, <3>3, <3>4 DEF OpenInv
      <3> QED BY <3>1, <3>5 DEF ReadOK
    <2> QED BY <1>4, <2>2, <2>3
  <1>10. PhaseInv'
    BY <1>0, <1>1 DEF PhaseInv, RecvMsg2, TypeOK, End
  <1> QED BY <1>7, <1>8, <1>9, <1>10 DEF StepOK

LEMMA StepRecvMsg3 ==
  ASSUME IInv, NEW e \in End, RecvMsg3(e)
  PROVE  StepOK(e)
  <1>1. /\ TypeOK /\ PhaseInv /\ Peer(e) \in End
        /\ e \notin Misbehaving => SendInv(e) /\ SealInv(e)
        /\ Peer(e) \notin Misbehaving =>
             /\ RecvInv(e) /\ OpenInv(e)
             /\ SendInv(Peer(e)) /\ SealInv(Peer(e))
    BY Unpack
  <1>0. e = "R"
    BY Unpack, PhaseOf DEF RecvMsg3
  <1>2. HsLen(e) = 1 /\ HsLen(Peer(e)) = 2
        /\ FirstKey(Peer(e)) = kI
    BY <1>0 DEF Peer, HsLen, FirstKey
  <1>3. /\ CanRead(e) /\ Take(e) /\ NextFrame(e).t = "MSG3" /\ phase[e] = "wait3"
        /\ UNCHANGED <<stream, txKey, rxKey, txSeq, rxSeq, gone, sent, delivered>>
        /\ UNCHANGED <<closed, sock, fault>> \/ Fail(e, "listener_error")
    BY DEF RecvMsg3, Accepts
  <1>4. phase'[e] = "secure"
    BY <1>1 DEF RecvMsg3, TypeOK
  <1>5. /\ NotReopened(e) /\ closed'[Peer(e)] = closed[Peer(e)]
        /\ sock'[Peer(e)] = sock[Peer(e)] /\ fault'[Peer(e)] = fault[Peer(e)]
    BY <1>1, <1>3, FailOther DEF NotReopened
  <1>6. Idle(Peer(e))
    <2>1. rcvd'[Peer(e)] = rcvd[Peer(e)]
      BY <1>1, <1>3, ReadArrives, TakeTakes, TakesFacts
    <2> QED BY <1>1, <1>3, <1>5, <2>1, PeerType DEF RecvMsg3, Idle, TypeOK
  <1>7. ASSUME e \notin Misbehaving PROVE SentOK(e)
    <2>1. Writable(e)' => Writable(e)
      BY <1>5 DEF Writable, NotReopened
    <2>2. SendInv(e)'
      BY <1>1, <1>3, <1>5, <1>7, <2>1 DEF SendInv, NotReopened
    <2>3. SenderStep(e) /\ FreshStep(e)
      BY <1>1, <1>3, <1>5, LenTypes DEF SenderStep, FreshStep, NotReopened
    <2>4. Writable(e) => /\ Len(stream[e]) = 1
                         /\ txKey[e] = KeyAt(e, stream[e], Len(stream[e]) + 1)
      BY <1>1, <1>3, <1>7 DEF SealInv
    <2>5. WellSealed(e, stream[e]) /\ Increasing(stream[e])
      BY <1>1, <1>7 DEF SealInv
    <2>6. stream'[e] = stream[e] /\ txKey'[e] = txKey[e]
      BY <1>3
    <2>7. Writable(e)' => /\ Len(stream'[e]) >= HsLen(e)
                          /\ txKey'[e] = KeyAt(e, stream'[e], Len(stream'[e]) + 1)
      <3>1. Writable(e)' => Len(stream'[e]) >= HsLen(e)
        <4>1. HsLen(e) = 1
          BY <1>2
        <4>2. Writable(e)' => Len(stream'[e]) = 1
          BY <2>1, <2>4, <2>6
        <4> QED BY <4>1, <4>2
      <3> QED BY <2>1, <2>4, <2>6, <3>1
    <2>8. SealInv(e)'
      BY <1>4, <2>5, <2>6, <2>7 DEF SealInv
    <2> QED BY <2>2, <2>3, <2>8 DEF SentOK
  <1>8. ASSUME Peer(e) \notin Misbehaving PROVE ReadOK(e)
    <2>1. ~closed[e] /\ rcvd'[e] = rcvd[e] + 1
      BY <1>3, <1>8, HonestReader, ReadArrives
    <2>2. CASE Fail(e, "listener_error")
      <3>1. closed'[e] /\ sock'[e] = "destroyed" /\ fault'[e] = "listener_error"
        BY <1>1, <2>1, <2>2, FailStops
      <3> QED BY <1>1, <1>3, <1>6, <1>8, <3>1, RecvStop DEF ReadOK
    <2>3. CASE UNCHANGED <<closed, fault>>
      <3>1. RecvInv(e)'
        BY <1>1, <1>3, <1>6, <1>8, <2>3, RecvTakeCtrl
      <3>2. rcvd[e] = 1 /\ rcvd'[e] = 2 /\ rxKey[e] = kI
        BY <1>1, <1>2, <1>3, <1>8, <2>1 DEF OpenInv
      <3>3. \A i \in 3..Len(stream'[Peer(e)]) :
                stream'[Peer(e)][i].t = "DATA" => stream'[Peer(e)][i].seq > rxSeq'[e]
        <4>1. Len(stream[Peer(e)]) \in Nat
          BY <1>1, LenTypes
        <4> QED BY <1>1, <1>3, <1>8, <2>1, <3>2, <4>1 DEF OpenInv
      <3>4. KeyAt(Peer(e), stream'[Peer(e)], 3) = kI
        BY <1>2 DEF KeyAt
      <3>5. OpenInv(e)'
        BY <1>1, <1>2, <1>3, <1>4, <1>8, <2>1, <2>3, <3>2, <3>3, <3>4 DEF OpenInv
      <3> QED BY <3>1, <3>5 DEF ReadOK
    <2> QED BY <1>3, <2>2, <2>3
  <1>9. PhaseInv'
    BY <1>0, <1>1 DEF PhaseInv, RecvMsg3, TypeOK, End
  <1> QED BY <1>6, <1>7, <1>8, <1>9 DEF StepOK

LEMMA StepSend ==
  ASSUME IInv, NEW e \in End, NEW b \in Body, Send(e, b)
  PROVE  StepOK(e)
  <1>1. /\ TypeOK /\ PhaseInv /\ Peer(e) \in End
        /\ e \notin Misbehaving => SendInv(e) /\ SealInv(e)
        /\ Peer(e) \notin Misbehaving => RecvInv(e) /\ OpenInv(e)
    BY Unpack
  <1>2. Idle(Peer(e))
    BY <1>1, PeerType DEF Send, Write, Puts, Write2, Idle, TypeOK
  <1>3. e \notin Misbehaving => SentOK(e)
    BY <1>1, SendSender DEF SentOK
  <1>4. closed[e] => sock'[e] = sock[e]
    BY <1>1 DEF Send, Write, Write2, SockAfterWrite, TypeOK
  <1>5. Peer(e) \notin Misbehaving => ReadOK(e)
    BY <1>1, <1>2, <1>4, RecvStill DEF Send, ReadOK
  <1>6. PhaseInv'
    BY <1>1, SamePhase DEF Send
  <1> QED BY <1>2, <1>3, <1>5, <1>6 DEF StepOK

LEMMA StepRekey ==
  ASSUME IInv, NEW e \in End, Rekey(e)
  PROVE  StepOK(e)
  <1>1. /\ TypeOK /\ PhaseInv /\ Peer(e) \in End
        /\ e \notin Misbehaving => SendInv(e) /\ SealInv(e)
        /\ Peer(e) \notin Misbehaving => RecvInv(e) /\ OpenInv(e)
    BY Unpack
  <1>2. /\ phase[e] = "secure" /\ Write(e, Control(txKey[e], "REKEY"))
        /\ txKey' = [txKey EXCEPT ![e] = deriveRekey(@)]
        /\ UNCHANGED <<rcvd, phase, rxKey, txSeq, rxSeq, closed, gone, fault, sent, delivered>>
    BY DEF Rekey, rekey
  <1>3. Idle(Peer(e))
    BY <1>1, <1>2, PeerType DEF Write, Puts, Idle, TypeOK
  <1>4. Control(txKey[e], "REKEY") \in Frame /\ Control(txKey[e], "REKEY").t = "REKEY"
    <2>1. txKey[e] \in Key
      BY <1>1, LenTypes
    <2> QED BY <2>1, FrameTypes DEF CtrlType, Control, seal
  <1>5. ASSUME e \notin Misbehaving PROVE SentOK(e)
    <2>1. SendInv(e)' /\ SenderStep(e) /\ FreshStep(e)
      BY <1>1, <1>2, <1>4, <1>5, WritePuts, WriteCtrl
    <2>2. txKey'[e] = deriveRekey(txKey[e])
      BY <1>1, <1>2 DEF TypeOK
    <2>3. SealInv(e)'
      BY <1>1, <1>2, <1>5, <2>2, WriteRekeySeal
    <2> QED BY <2>1, <2>3 DEF SentOK
  <1>6. closed[e] => sock'[e] = sock[e]
    BY <1>1, <1>2 DEF Write, SockAfterWrite, TypeOK
  <1>7. Peer(e) \notin Misbehaving => ReadOK(e)
    BY <1>1, <1>2, <1>3, <1>6, RecvStill DEF ReadOK
  <1>8. PhaseInv'
    BY <1>1, <1>2, SamePhase
  <1> QED BY <1>3, <1>5, <1>7, <1>8 DEF StepOK

LEMMA StepClose ==
  ASSUME IInv, NEW e \in End, Close(e)
  PROVE  StepOK(e)
  <1>1. /\ TypeOK /\ PhaseInv /\ Peer(e) \in End
        /\ e \notin Misbehaving => SendInv(e) /\ SealInv(e)
        /\ Peer(e) \notin Misbehaving => RecvInv(e) /\ OpenInv(e)
    BY Unpack
  <1>2. Idle(Peer(e))
    BY <1>1, PeerType DEF Close, Idle, TypeOK, sessionVars
  <1>3. e \notin Misbehaving => SentOK(e)
    BY <1>1, CloseSender DEF SentOK
  <1>4. Peer(e) \notin Misbehaving => ReadOK(e)
    BY <1>1, <1>2, RecvStill DEF Close, sessionVars, ReadOK
  <1>5. PhaseInv'
    BY <1>1, SamePhase DEF Close, sessionVars
  <1> QED BY <1>2, <1>3, <1>4, <1>5 DEF StepOK

LEMMA StepMisbehave ==
  ASSUME IInv, NEW e \in End, Misbehave(e)
  PROVE  StepOK(e)
  <1>1. /\ TypeOK /\ PhaseInv /\ Peer(e) \in End
        /\ Peer(e) \notin Misbehaving => RecvInv(e) /\ OpenInv(e)
    BY Unpack
  <1>2. e \in Misbehaving
    BY DEF Misbehave
  <1>3. Idle(Peer(e))
    BY <1>1, PeerType DEF Misbehave, Idle, TypeOK, sessionVars
  <1>4. Peer(e) \notin Misbehaving => ReadOK(e)
    BY <1>1, <1>3, RecvStill DEF Misbehave, sessionVars, ReadOK
  <1>5. PhaseInv'
    BY <1>1, SamePhase DEF Misbehave, sessionVars
  <1> QED BY <1>2, <1>3, <1>4, <1>5 DEF StepOK

(* A step that only reads, or only closes: nothing is written or sent. *)
LEMMA ReadingSender ==
  ASSUME TypeOK, NEW e \in End, SendInv(e), SealInv(e),
         UNCHANGED <<stream, txKey, txSeq, sent, phase>>,
         closed[e] => closed'[e], sock'[e] = "open" => sock[e] = "open"
  PROVE  SentOK(e)
  <1>1. SenderQuiet(e)
    BY DEF SenderQuiet, Writable
  <1> QED BY <1>1, SendQuiet DEF SentOK

LEMMA StepFail ==
  ASSUME IInv, NEW e \in End, NEW why, Fail(e, why),
         UNCHANGED <<stream, sessionVars, gone, sent, delivered>>,
         rcvd'[Peer(e)] = rcvd[Peer(e)],
         Peer(e) \notin Misbehaving =>
             ~closed[e] /\ why \notin {"crypto_error", "session_replay"}
  PROVE  StepOK(e)
  <1>1. /\ TypeOK /\ PhaseInv /\ Peer(e) \in End
        /\ e \notin Misbehaving => SendInv(e) /\ SealInv(e)
        /\ Peer(e) \notin Misbehaving => RecvInv(e) /\ OpenInv(e)
    BY Unpack
  <1>2. /\ closed'[e] /\ (sock'[e] = "open" => sock[e] = "open")
        /\ closed'[Peer(e)] = closed[Peer(e)] /\ sock'[Peer(e)] = sock[Peer(e)]
        /\ fault'[Peer(e)] = fault[Peer(e)]
    BY <1>1, FailOther
  <1>3. Idle(Peer(e))
    BY <1>2 DEF Idle, sessionVars
  <1>4. e \notin Misbehaving => SentOK(e)
    BY <1>1, <1>2, ReadingSender DEF sessionVars
  <1>5. ASSUME Peer(e) \notin Misbehaving PROVE ReadOK(e)
    <2>1. closed'[e] /\ sock'[e] = "destroyed" /\ fault'[e] = why
      BY <1>1, <1>5, FailStops
    <2> QED BY <1>1, <1>3, <1>5, <2>1, RecvStop DEF sessionVars, ReadOK
  <1>6. PhaseInv'
    BY <1>1, SamePhase DEF sessionVars
  <1> QED BY <1>3, <1>4, <1>5, <1>6 DEF StepOK

(* An honest peer's frame is accepted, whatever the phase. *)
LEMMA NotRejected ==
  ASSUME IInv, NEW e \in End, CanRead(e), Peer(e) \notin Misbehaving
  PROVE  ~Rejects(e)
  <1>1. /\ TypeOK /\ PhaseInv /\ Peer(e) \in End
        /\ RecvInv(e) /\ OpenInv(e) /\ SealInv(Peer(e))
    BY Unpack
  <1> DEFINE p == Peer(e)
  <1>2. /\ ~closed[e] /\ rcvd[e] < Len(stream[p]) /\ rcvd[e] \in Nat
        /\ Len(stream[p]) \in Nat
    BY <1>1, ReadArrives, ReaderOpen, LenTypes
  <1>3. rcvd[e] + 1 \in 1..Len(stream[p])
    BY <1>2
  <1>4. phase[e] \in Phase
    BY <1>1, PhaseOf
  <1>5. CASE phase[e] = "wait1"
    <2>1. p = "I"
      BY <1>1, <1>5, PhaseOf DEF Peer
    <2>2. rcvd[e] = 0
      BY <1>1, <1>2, <1>5 DEF OpenInv
    <2>3. stream["I"][1] = HsMessage("I", 1)
      BY <1>1, <1>3, <2>1, <2>2 DEF SealInv, WellSealed, HsLen
    <2>4. NextFrame(e) = Signed("MSG1", Transcript1)
      BY <2>1, <2>2, <2>3 DEF NextFrame, HsMessage
    <2> QED BY <1>5, <2>4 DEF Rejects, Accepts, Signed
  <1>6. CASE phase[e] = "wait2"
    <2>1. p = "R"
      BY <1>1, <1>6, PhaseOf DEF Peer
    <2>2. rcvd[e] = 0
      BY <1>1, <1>2, <1>6 DEF OpenInv
    <2>3. stream["R"][1] = HsMessage("R", 1)
      BY <1>1, <1>3, <2>1, <2>2 DEF SealInv, WellSealed, HsLen
    <2>4. NextFrame(e) = Signed("MSG2", Transcript2)
      BY <2>1, <2>2, <2>3 DEF NextFrame, HsMessage
    <2> QED BY <1>6, <2>4 DEF Rejects, Accepts, Signed
  <1>7. CASE phase[e] = "wait3"
    <2>1. p = "I"
      BY <1>1, <1>7, PhaseOf DEF Peer
    <2>2. rcvd[e] = 1
      BY <1>1, <1>2, <1>7 DEF OpenInv
    <2>3. stream["I"][2] = HsMessage("I", 2)
      BY <1>1, <1>3, <2>1, <2>2 DEF SealInv, WellSealed, HsLen
    <2>4. NextFrame(e) = Signed("MSG3", Transcript3)
      BY <2>1, <2>2, <2>3 DEF NextFrame, HsMessage
    <2> QED BY <1>7, <2>4 DEF Rejects, Accepts, Signed
  <1>8. CASE phase[e] = "secure"
    <2>1. NextFrame(e).key = rxKey[e]
          /\ NextFrame(e).t \in {"DATA", "REKEY", "REKEY_ACK", "CLOSE"}
      BY <1>1, <1>8, NextSealed
    <2> QED BY <1>8, <2>1 DEF Rejects
  <1> QED BY <1>4, <1>5, <1>6, <1>7, <1>8 DEF Phase

LEMMA StepFailing ==
  ASSUME IInv, NEW e \in End,
         \/ HandshakeTimeout(e) \/ RefuseFrame(e) \/ ErrorEvent(e)
         \/ RecvBad(e) \/ RecvOversize(e)
  PROVE  StepOK(e)
  <1>1. TypeOK /\ Peer(e) \in End
    BY Unpack
  <1>2. ASSUME Takes(e) PROVE rcvd'[Peer(e)] = rcvd[Peer(e)]
    BY <1>1, <1>2, TakesFacts
  <1>3. CASE HandshakeTimeout(e)
    BY <1>3, StepFail DEF HandshakeTimeout
  <1>4. CASE RefuseFrame(e)
    <2>1. CanRead(e) /\ Takes(e)
      BY <1>1, <1>4, ReadArrives, TakeTakes DEF RefuseFrame
    <2>2. Peer(e) \notin Misbehaving => ~closed[e]
      BY <2>1, ReadArrives, HonestReader
    <2> QED BY <1>2, <1>4, <2>1, <2>2, StepFail DEF RefuseFrame
  <1>5. CASE ErrorEvent(e)
    BY <1>5, StepFail DEF ErrorEvent
  <1>6. CASE RecvBad(e)
    <2>1. Takes(e)
      BY <1>1, <1>6, ReadArrives, TakeTakes DEF RecvBad
    <2>2. Peer(e) \in Misbehaving
      BY <1>6, NotRejected DEF RecvBad
    <2> QED BY <1>2, <1>6, <2>1, <2>2, StepFail DEF RecvBad
  <1>7. CASE RecvOversize(e)
    <2>1. Takes(e)
      BY <1>7 DEF RecvOversize, Takes
    <2>2. Peer(e) \notin Misbehaving => ~closed[e]
      BY <1>7, HonestReader DEF RecvOversize
    <2> QED BY <1>2, <1>7, <2>1, <2>2, StepFail DEF RecvOversize
  <1> QED BY <1>3, <1>4, <1>5, <1>6, <1>7

LEMMA StepRecvRekey ==
  ASSUME IInv, NEW e \in End, RecvRekey(e)
  PROVE  StepOK(e)
  <1>1. /\ TypeOK /\ PhaseInv /\ Peer(e) \in End
        /\ e \notin Misbehaving => SendInv(e) /\ SealInv(e)
        /\ Peer(e) \notin Misbehaving =>
             /\ RecvInv(e) /\ OpenInv(e)
             /\ SendInv(Peer(e)) /\ SealInv(Peer(e))
    BY Unpack
  <1>2. /\ CanRead(e) /\ Take(e) /\ phase[e] = "secure"
        /\ NextFrame(e).t = "REKEY" /\ NextFrame(e).key = rxKey[e]
        /\ Write(e, Control(txKey[e], "REKEY_ACK"))
        /\ UNCHANGED <<phase, txSeq, rxSeq, closed, gone, fault, sent, delivered>>
    BY DEF RecvRekey, Opens
  <1>3. rxKey'[e] = deriveRekey(rxKey[e]) /\ txKey'[e] = deriveRekey(txKey[e])
    BY <1>1 DEF RecvRekey, TypeOK
  <1>4. Idle(Peer(e))
    <2>1. rcvd'[Peer(e)] = rcvd[Peer(e)]
      BY <1>1, <1>2, ReadArrives, TakeTakes, TakesFacts
    <2> QED BY <1>1, <2>1, PeerType DEF RecvRekey, Write, Puts, Idle, TypeOK
  <1>5. ASSUME e \notin Misbehaving PROVE SentOK(e)
    <2>1. Control(txKey[e], "REKEY_ACK") \in Frame
          /\ Control(txKey[e], "REKEY_ACK").t = "REKEY_ACK"
      <3>1. txKey[e] \in Key
        BY <1>1, LenTypes
      <3> QED BY <3>1, FrameTypes DEF CtrlType, Control, seal
    <2>2. SendInv(e)' /\ SenderStep(e) /\ FreshStep(e)
      BY <1>1, <1>2, <1>5, <2>1, WritePuts, WriteCtrl
    <2>3. SealInv(e)'
      BY <1>1, <1>2, <1>3, <1>5, WriteRekeySeal
    <2> QED BY <2>2, <2>3 DEF SentOK
  <1>6. ASSUME Peer(e) \notin Misbehaving PROVE ReadOK(e)
    <2>1. RecvInv(e)'
      BY <1>1, <1>2, <1>4, <1>6, RecvTakeCtrl
    <2>2. rxKey'[e] = Advance(NextFrame(e))
      BY <1>2, <1>3 DEF Advance
    <2>3. OpenInv(e)'
      BY <1>1, <1>2, <1>4, <1>6, <2>2, OpenTakeCtrl
    <2> QED BY <2>1, <2>3 DEF ReadOK
  <1>7. PhaseInv'
    BY <1>1, <1>2, SamePhase
  <1> QED BY <1>4, <1>5, <1>6, <1>7 DEF StepOK

LEMMA StepRecvRekeyAck ==
  ASSUME IInv, NEW e \in End, RecvRekeyAck(e)
  PROVE  StepOK(e)
  <1>1. /\ TypeOK /\ PhaseInv /\ Peer(e) \in End
        /\ e \notin Misbehaving => SendInv(e) /\ SealInv(e)
        /\ Peer(e) \notin Misbehaving =>
             /\ RecvInv(e) /\ OpenInv(e)
             /\ SendInv(Peer(e)) /\ SealInv(Peer(e))
    BY Unpack
  <1>2. /\ CanRead(e) /\ Take(e) /\ phase[e] = "secure"
        /\ NextFrame(e).t = "REKEY_ACK" /\ NextFrame(e).key = rxKey[e]
        /\ UNCHANGED <<stream, phase, txKey, txSeq, rxSeq, closed, sock, gone,
                       fault, sent, delivered>>
    BY DEF RecvRekeyAck, Opens
  <1>3. rxKey'[e] = deriveRekey(rxKey[e])
    BY <1>1 DEF RecvRekeyAck, TypeOK
  <1>4. Idle(Peer(e))
    <2>1. rcvd'[Peer(e)] = rcvd[Peer(e)]
      BY <1>1, <1>2, ReadArrives, TakeTakes, TakesFacts
    <2> QED BY <1>1, <2>1, PeerType DEF RecvRekeyAck, Idle, TypeOK
  <1>5. e \notin Misbehaving => SentOK(e)
    BY <1>1, <1>2, ReadingSender
  <1>6. ASSUME Peer(e) \notin Misbehaving PROVE ReadOK(e)
    <2>1. RecvInv(e)'
      BY <1>1, <1>2, <1>4, <1>6, RecvTakeCtrl
    <2>2. rxKey'[e] = Advance(NextFrame(e))
      BY <1>2, <1>3 DEF Advance
    <2>3. OpenInv(e)'
      BY <1>1, <1>2, <1>4, <1>6, <2>2, OpenTakeCtrl
    <2> QED BY <2>1, <2>3 DEF ReadOK
  <1>7. PhaseInv'
    BY <1>1, <1>2, SamePhase
  <1> QED BY <1>4, <1>5, <1>6, <1>7 DEF StepOK

(* CLOSE is the last frame of a peer that runs this code. *)
LEMMA CloseTaken ==
  ASSUME IInv, NEW e \in End, RecvClose(e), Peer(e) \notin Misbehaving
  PROVE  /\ rcvd'[e] = rcvd[e] + 1
         /\ rcvd'[e] = Len(stream[Peer(e)]) /\ sock[Peer(e)] # "open"
  <1> DEFINE p == Peer(e)
  <1>1. /\ TypeOK /\ p \in End /\ SendInv(p)
        /\ CanRead(e) /\ NextFrame(e).t = "CLOSE" /\ TakeLast(e)
    BY Unpack DEF RecvClose, Opens
  <1>2. rcvd[e] < Len(stream[p]) /\ rcvd[e] \in Nat /\ Len(stream[p]) \in Nat
    BY <1>1, ReadArrives, HonestReader, LenTypes
  <1>3. rcvd[e] + 1 \in 1..Len(stream[p]) /\ stream[p][rcvd[e] + 1].t = "CLOSE"
    BY <1>1, <1>2 DEF NextFrame
  <1>4. rcvd[e] + 1 = Len(stream[p]) /\ sock[p] # "open"
    BY <1>1, <1>3 DEF SendInv, ClosedLast, NoClose
  <1>5. PICK n \in (rcvd[e] + 1)..Len(stream[p]) : rcvd' = [rcvd EXCEPT ![e] = n]
    BY <1>1 DEF TakeLast
  <1>6. rcvd'[e] = n /\ n = rcvd[e] + 1
    BY <1>1, <1>2, <1>4, <1>5 DEF TypeOK
  <1> QED BY <1>4, <1>6

LEMMA StepRecvClose ==
  ASSUME IInv, NEW e \in End, RecvClose(e)
  PROVE  StepOK(e)
  <1>1. /\ TypeOK /\ PhaseInv /\ Peer(e) \in End
        /\ e \notin Misbehaving => SendInv(e) /\ SealInv(e)
        /\ Peer(e) \notin Misbehaving => RecvInv(e) /\ OpenInv(e)
    BY Unpack
  <1> DEFINE p == Peer(e)
  <1>2. /\ CanRead(e) /\ TakeLast(e)
        /\ UNCHANGED <<stream, phase, txKey, rxKey, txSeq, rxSeq, gone, fault, sent,
                       delivered>>
    BY DEF RecvClose, Opens, sessionVars
  <1>3. closed'[e] /\ (sock'[e] = "open" => sock[e] = "open")
    BY <1>1 DEF RecvClose, TypeOK
  <1>4. Idle(p)
    <2>1. rcvd'[p] = rcvd[p]
      BY <1>1, <1>2, ReadArrives, TakeTakes, TakesFacts
    <2> QED BY <1>1, <2>1, PeerType DEF RecvClose, Idle, TypeOK, sessionVars
  <1>5. e \notin Misbehaving => SentOK(e)
    BY <1>1, <1>2, <1>3, ReadingSender
  <1>6. ASSUME p \notin Misbehaving PROVE ReadOK(e)
    <2>1. rcvd'[e] = Len(stream[p]) /\ sock[p] # "open"
      BY <1>6, CloseTaken
    <2>2. RecvInv(e)'
      BY <1>1, <1>2, <1>3, <1>4, <1>6, <2>1 DEF RecvInv, Idle
    <2>3. OpenInv(e)'
      BY <1>1, <1>2, <1>3, <1>6 DEF OpenInv
    <2> QED BY <2>2, <2>3 DEF ReadOK
  <1>7. PhaseInv'
    BY <1>1, <1>2, SamePhase
  <1> QED BY <1>4, <1>5, <1>6, <1>7 DEF StepOK

(* What RecvData does, by outcome. *)
LEMMA RecvDataCases ==
  ASSUME NEW e \in End, RecvData(e)
  PROVE  /\ CanRead(e) /\ Take(e) /\ phase[e] = "secure"
         /\ NextFrame(e).t = "DATA" /\ NextFrame(e).key = rxKey[e]
         /\ UNCHANGED <<stream, phase, txKey, rxKey, txSeq, gone, sent>>
         /\ \/ Fail(e, "session_rate_limit") /\ UNCHANGED <<rxSeq, delivered>>
            \/ /\ NextFrame(e).seq <= rxSeq[e]
               /\ Fail(e, "session_replay") /\ UNCHANGED <<rxSeq, delivered>>
            \/ /\ NextFrame(e).seq > rxSeq[e]
               /\ rxSeq' = [rxSeq EXCEPT ![e] = NextFrame(e).seq]
               /\ delivered' = [delivered EXCEPT ![e] = Append(@, NextFrame(e).body)]
               /\ UNCHANGED <<closed, sock, fault>> \/ Fail(e, "listener_error")
  BY DEF RecvData, Opens

LEMMA StepRecvData ==
  ASSUME IInv, NEW e \in End, RecvData(e)
  PROVE  StepOK(e)
  <1>1. /\ TypeOK /\ PhaseInv /\ Peer(e) \in End
        /\ e \notin Misbehaving => SendInv(e) /\ SealInv(e)
        /\ Peer(e) \notin Misbehaving =>
             /\ RecvInv(e) /\ OpenInv(e)
             /\ SendInv(Peer(e)) /\ SealInv(Peer(e))
    BY Unpack
  <1> DEFINE p == Peer(e)
             f == NextFrame(e)
  <1>2. /\ CanRead(e) /\ Take(e) /\ phase[e] = "secure" /\ f.t = "DATA" /\ f.key = rxKey[e]
        /\ UNCHANGED <<stream, phase, txKey, rxKey, txSeq, gone, sent>>
    BY RecvDataCases
  <1>3. /\ rcvd[e] \in Nat /\ Len(stream[p]) \in Nat /\ rxSeq[e] \in Nat
        /\ Len(sent[p]) \in Nat /\ delivered[e] \in Seq(Body)
        /\ f \in Frame /\ f.seq \in Nat /\ f.body \in Body
    BY <1>1, <1>2, LenTypes, ReadArrives, NextFrameType, FrameFields
  <1>4. rcvd'[p] = rcvd[p]
    BY <1>1, <1>2, ReadArrives, TakeTakes, TakesFacts
  <1>5. PhaseInv'
    BY <1>1, <1>2, SamePhase
  <1>10. p \notin Misbehaving =>
            ~closed[e] /\ rcvd[e] < Len(stream[p]) /\ rcvd'[e] = rcvd[e] + 1
    BY <1>2, ReadArrives, HonestReader
  <1> HIDE DEF f
  <1>6. ASSUME NEW why \in {"session_rate_limit", "session_replay"},
               Fail(e, why), UNCHANGED <<rxSeq, delivered>>,
               p \notin Misbehaving => why # "session_replay"
        PROVE  StepOK(e)
    <2>1. /\ closed'[e] /\ (sock'[e] = "open" => sock[e] = "open")
          /\ closed'[p] = closed[p] /\ sock'[p] = sock[p] /\ fault'[p] = fault[p]
      BY <1>1, <1>6, FailOther
    <2>2. Idle(p)
      BY <1>2, <1>4, <1>6, <2>1 DEF Idle
    <2>3. e \notin Misbehaving => SentOK(e)
      BY <1>1, <1>2, <2>1, ReadingSender
    <2>4. ASSUME p \notin Misbehaving PROVE ReadOK(e)
      <3>1. closed'[e] /\ sock'[e] = "destroyed" /\ fault'[e] = why
        BY <1>1, <1>6, <1>10, <2>4, FailStops
      <3> QED BY <1>1, <1>6, <2>2, <2>4, <3>1, RecvStop DEF ReadOK
    <2> QED BY <1>5, <2>2, <2>3, <2>4 DEF StepOK
  <1>7. CASE Fail(e, "session_rate_limit") /\ UNCHANGED <<rxSeq, delivered>>
    BY <1>6, <1>7
  <1>8. CASE f.seq <= rxSeq[e] /\ Fail(e, "session_replay") /\ UNCHANGED <<rxSeq, delivered>>
    <2>1. ASSUME p \notin Misbehaving PROVE FALSE
      <3>1. rcvd[e] + 1 \in (rcvd[e] + 1)..Len(stream[p])
        BY <1>3, <1>10, <2>1
      <3>2. f.seq > rxSeq[e]
        BY <1>1, <1>2, <1>3, <1>10, <2>1, <3>1 DEF OpenInv, f, NextFrame
      <3> QED BY <1>3, <1>8, <3>2
    <2> QED BY <1>6, <1>8, <2>1
  <1>9. CASE /\ f.seq > rxSeq[e]
             /\ rxSeq' = [rxSeq EXCEPT ![e] = f.seq]
             /\ delivered' = [delivered EXCEPT ![e] = Append(@, f.body)]
             /\ UNCHANGED <<closed, sock, fault>> \/ Fail(e, "listener_error")
    <2>1. /\ rxSeq'[e] = f.seq /\ rxSeq'[p] = rxSeq[p]
          /\ delivered'[e] = Append(delivered[e], f.body) /\ delivered'[p] = delivered[p]
      BY <1>1, <1>9, PeerType DEF TypeOK
    <2>2. /\ closed[e] => closed'[e]
          /\ sock'[e] = "open" => sock[e] = "open"
          /\ closed'[p] = closed[p] /\ sock'[p] = sock[p] /\ fault'[p] = fault[p]
      BY <1>1, <1>9, FailOther
    <2>3. Idle(p)
      BY <1>2, <1>4, <2>1, <2>2 DEF Idle
    <2>4. e \notin Misbehaving => SentOK(e)
      BY <1>1, <1>2, <2>2, ReadingSender
    <2>5. ASSUME p \notin Misbehaving PROVE ReadOK(e)
      <3>1. RecvInv(e) /\ OpenInv(e) /\ SendInv(p) /\ SealInv(p)
            /\ ~closed[e] /\ rcvd[e] < Len(stream[p]) /\ rcvd'[e] = rcvd[e] + 1
        BY <1>1, <1>10, <2>5
      <3>2. /\ f.seq = rxSeq[e] + 1
            /\ rxSeq[e] + 1 <= Len(sent[p])
            /\ f.body = sent[p][rxSeq[e] + 1]
        BY <1>1, <1>2, <1>9, <3>1, NextInOrder DEF f
      <3>3. \/ UNCHANGED <<closed, sock, fault>>
            \/ closed'[e] /\ sock'[e] = "destroyed" /\ fault'[e] = "listener_error"
        BY <1>1, <1>9, <3>1, FailStops
      <3>4. sent'[p] = sent[p] /\ stream'[p] = stream[p]
        BY <1>2
      <3>5. /\ Len(delivered'[e]) = rxSeq'[e]
            /\ \A n \in 1..rxSeq'[e] : delivered'[e][n] = sent[p][n]
        <4>1. Len(delivered[e]) = rxSeq[e]
              /\ \A n \in 1..rxSeq[e] : delivered[e][n] = sent[p][n]
          BY <3>1 DEF RecvInv
        <4>2. /\ Len(delivered'[e]) = Len(delivered[e]) + 1
              /\ \A n \in 1..Len(delivered[e]) : delivered'[e][n] = delivered[e][n]
              /\ delivered'[e][Len(delivered[e]) + 1] = f.body
          BY <1>3, <2>1, AppendFacts
        <4> QED BY <1>3, <2>1, <3>2, <4>1, <4>2
      <3>6. \A i \in 1..rcvd'[e] :
                stream[p][i].t = "DATA" => stream[p][i].seq <= rxSeq'[e]
        <4> SUFFICES ASSUME NEW i \in 1..rcvd'[e], stream[p][i].t = "DATA"
                     PROVE  stream[p][i].seq <= rxSeq'[e]
          OBVIOUS
        <4>1. stream[p] \in Seq(Frame) /\ i \in 1..Len(stream[p])
          BY <1>1, <1>3, <3>1, LenTypes
        <4>2. stream[p][i] \in Frame
          BY <4>1
        <4>3. stream[p][i].seq \in Nat
          BY <4>2, FrameFields
        <4>4. CASE i = rcvd[e] + 1
          BY <1>3, <2>1, <4>4 DEF f, NextFrame
        <4>5. CASE i \in 1..rcvd[e]
          <5>1. stream[p][i].seq <= rxSeq[e]
            BY <3>1, <4>5 DEF RecvInv
          <5>2. rxSeq'[e] = rxSeq[e] + 1
            BY <2>1, <3>2
          <5>3. rxSeq[e] \in Nat /\ rxSeq[e] <= rxSeq[e] + 1
            BY <1>3
          <5> QED BY <4>3, <5>1, <5>2, <5>3
        <4> QED BY <1>3, <3>1, <4>4, <4>5
      <3>7. RecvInv(e)'
        <4>1. rxSeq'[e] <= Len(sent[p])
          BY <2>1, <3>2
        <4>2. closed'[e] /\ sock'[e] # "destroyed" => FALSE
          BY <3>1, <3>3
        <4> QED BY <3>4, <3>5, <3>6, <4>1, <4>2 DEF RecvInv
      <3>8. OpenInv(e)'
        <4>1. fault'[e] \notin {"crypto_error", "session_replay"}
          BY <3>1, <3>3 DEF OpenInv
        <4>2. rxKey[e] = KeyAt(p, stream[p], rcvd[e] + 2) /\ rcvd[e] + 1 >= HsLen(p)
          <5>1. /\ KeyAt(p, stream[p], rcvd[e] + 2) = Advance(f)
                /\ rcvd[e] + 1 >= HsLen(p)
            BY <1>1, <1>2, <3>1, NextSealed DEF f
          <5>2. Advance(f) = rxKey[e]
            BY <1>2 DEF Advance
          <5> QED BY <5>1, <5>2
        <4>3. \A i \in (rcvd[e] + 2)..Len(stream[p]) :
                  stream[p][i].t = "DATA" => stream[p][i].seq > rxSeq'[e]
          <5> SUFFICES ASSUME NEW i \in (rcvd[e] + 2)..Len(stream[p]),
                              stream[p][i].t = "DATA"
                       PROVE  stream[p][i].seq > rxSeq'[e]
            OBVIOUS
          <5>1. /\ rcvd[e] + 1 \in 1..Len(stream[p]) /\ i \in 1..Len(stream[p])
                /\ rcvd[e] + 1 < i
            <6>1. rcvd[e] \in Nat /\ Len(stream[p]) \in Nat
              BY <1>3
            <6> QED BY <3>1, <6>1
          <5>2. stream[p][rcvd[e] + 1].seq < stream[p][i].seq
            BY <1>2, <3>1, <5>1 DEF SealInv, Increasing, f, NextFrame
          <5>3. stream[p] \in Seq(Frame) /\ stream[p][i] \in Frame
            BY <1>1, <5>1, LenTypes
          <5>4. stream[p][i].seq \in Nat
            BY <5>3, FrameFields
          <5> QED BY <1>3, <2>1, <5>2, <5>4 DEF f, NextFrame
        <4>4. rcvd'[e] + 1 = rcvd[e] + 2
          BY <1>3, <3>1
        <4>5. phase'[e] = "secure" /\ rxKey'[e] = rxKey[e]
          BY <1>2
        <4> QED BY <3>1, <3>4, <4>1, <4>2, <4>3, <4>4, <4>5 DEF OpenInv
      <3> QED BY <3>7, <3>8 DEF ReadOK
    <2> QED BY <1>5, <2>3, <2>4, <2>5 DEF StepOK
  <1> QED BY <1>7, <1>8, <1>9, RecvDataCases DEF f

LEMMA StepSocket ==
  ASSUME IInv, NEW e \in End,
         SocketError(e) \/ PeerEnd(e) \/ SocketClose(e)
  PROVE  StepOK(e)
  <1>1. /\ TypeOK /\ PhaseInv /\ Peer(e) \in End
        /\ e \notin Misbehaving => SendInv(e) /\ SealInv(e)
        /\ Peer(e) \notin Misbehaving => RecvInv(e) /\ OpenInv(e)
    BY Unpack
  <1> DEFINE p == Peer(e)
  <1>2. UNCHANGED <<stream, rcvd, phase, txKey, rxKey, txSeq, rxSeq, sent, delivered>>
    BY DEF SocketError, PeerEnd, SocketClose, sessionVars
  <1>3. Idle(p)
    BY <1>1, PeerType DEF SocketError, PeerEnd, SocketClose, sessionVars, Idle, TypeOK
  <1>4. /\ closed[e] => closed'[e]
        /\ sock'[e] = "open" => sock[e] = "open"
    BY <1>1 DEF SocketError, PeerEnd, SocketClose, TypeOK
  <1>5. e \notin Misbehaving => SentOK(e)
    BY <1>1, <1>2, <1>4, ReadingSender
  <1>6. ASSUME p \notin Misbehaving PROVE ReadOK(e)
    <2>1. CASE SocketError(e)
      <3>1. closed'[e] /\ sock'[e] = "destroyed"
        BY <1>1, <2>1 DEF SocketError, TypeOK
      <3>2. fault'[e] = fault[e] \/ fault'[e] = "socket"
        BY <1>1, <2>1 DEF SocketError, TypeOK
      <3>3. fault'[e] \notin {"crypto_error", "session_replay"}
        BY <1>1, <1>6, <3>2 DEF OpenInv
      <3> QED BY <1>1, <1>2, <1>3, <1>6, <3>1, <3>3, RecvStop DEF ReadOK
    <2>2. CASE PeerEnd(e)
      <3>1. closed' = closed /\ gone' = gone /\ fault' = fault /\ sock[e] # "destroyed"
        BY <2>2 DEF PeerEnd
      <3> QED BY <1>1, <1>2, <1>3, <1>6, <3>1, RecvStill DEF ReadOK
    <2>3. CASE SocketClose(e)
      <3>1. closed'[e] /\ gone'[e] /\ fault' = fault
        BY <1>1, <2>3 DEF SocketClose, TypeOK
      <3>2. fault'[e] \notin {"crypto_error", "session_replay"}
        BY <1>1, <1>6, <3>1 DEF OpenInv
      <3> QED BY <1>1, <1>2, <1>3, <1>6, <3>1, <3>2, RecvStop DEF ReadOK
    <2> QED BY <2>1, <2>2, <2>3
  <1>7. PhaseInv'
    BY <1>1, <1>2, SamePhase
  <1> QED BY <1>3, <1>5, <1>6, <1>7 DEF StepOK

-----------------------------------------------------------------------------
(* The invariant is inductive *)

LEMMA InitIInv == Init => IInv
  <1> SUFFICES ASSUME Init PROVE IInv
    OBVIOUS
  <1>1. TypeOK
    BY InitType
  <1>2. PhaseInv
    BY DEF Init, PhaseInv, End
  <1>3. ASSUME NEW e \in End PROVE SendInv(e) /\ SealInv(e)
    <2>1. CASE e = "I"
      <3>1. stream[e] = <<Signed("MSG1", Transcript1)>> /\ sent[e] = <<>>
            /\ txSeq[e] = 0 /\ phase[e] = "wait2"
        BY <2>1 DEF Init, End
      <3>2. Len(stream[e]) = 1 /\ stream[e][1] = Signed("MSG1", Transcript1)
            /\ stream[e][1].t = "MSG1"
        BY <3>1 DEF Signed
      <3>3. WellSealed(e, stream[e])
        BY <2>1, <3>2 DEF WellSealed, HsLen, HsMessage
      <3>4. Increasing(stream[e])
        BY <3>2 DEF Increasing
      <3>5. SendInv(e)
        BY <3>1, <3>2 DEF SendInv, Numbered, AllWritten, ClosedLast, NoClose
      <3> QED BY <3>1, <3>2, <3>3, <3>4, <3>5 DEF SealInv
    <2>2. CASE e = "R"
      <3>1. stream[e] = <<>> /\ sent[e] = <<>>
            /\ txSeq[e] = 0 /\ phase[e] = "wait1"
        BY <2>2 DEF Init, End
      <3>2. SendInv(e)
        BY <3>1 DEF SendInv, Numbered, AllWritten, ClosedLast, NoClose
      <3>3. WellSealed(e, stream[e]) /\ Increasing(stream[e])
        BY <3>1 DEF WellSealed, Increasing
      <3> QED BY <3>1, <3>2, <3>3 DEF SealInv
    <2> QED BY <2>1, <2>2 DEF End
  <1>4. ASSUME NEW e \in End PROVE RecvInv(e) /\ OpenInv(e)
    <2> DEFINE p == Peer(e)
    <2>1. /\ p \in End /\ rxSeq[e] = 0 /\ delivered[e] = <<>> /\ rcvd[e] = 0
          /\ closed[e] = FALSE /\ fault[e] = "none" /\ sent[p] = <<>>
          /\ phase[e] \in {"wait1", "wait2"}
      BY PeerType DEF Init
    <2>2. \A i \in 1..Len(stream[p]) : stream[p][i].t # "DATA"
      BY <2>1 DEF Init, Signed
    <2>3. RecvInv(e)
      BY <2>1 DEF RecvInv
    <2>4. OpenInv(e)
      BY <2>1, <2>2 DEF OpenInv
    <2> QED BY <2>3, <2>4
  <1> QED BY <1>1, <1>2, <1>3, <1>4 DEF IInv

(* A step of e. *)
Acts(e) ==
    \/ Receive(e) \/ RefuseFrame(e) \/ UserCall(e) \/ HandshakeTimeout(e)
    \/ SocketEvent(e) \/ SocketError(e) \/ Misbehave(e)

LEMMA NextActs == Next => \E e \in End : Acts(e)
  BY DEF Next, Acts

LEMMA ActStepOK ==
  ASSUME IInv, NEW e \in End, Acts(e)
  PROVE  StepOK(e)
  <1>1. CASE Receive(e)
    BY <1>1, StepRecvMsg1, StepRecvMsg2, StepRecvMsg3, StepRecvData, StepRecvRekey,
       StepRecvRekeyAck, StepRecvClose, StepFailing DEF Receive
  <1>2. CASE UserCall(e)
    BY <1>2, StepSend, StepRekey, StepClose DEF UserCall
  <1>3. CASE SocketEvent(e) \/ SocketError(e)
    BY <1>3, StepFailing, StepSocket DEF SocketEvent
  <1>4. CASE RefuseFrame(e) \/ HandshakeTimeout(e)
    BY <1>4, StepFailing
  <1>5. CASE Misbehave(e)
    BY <1>5, StepMisbehave
  <1> QED BY <1>1, <1>2, <1>3, <1>4, <1>5 DEF Acts

LEMMA NextIInv ==
  ASSUME IInv, [Next]_vars
  PROVE  IInv'
  <1>1. TypeOK'
    BY TypeStep DEF IInv
  <1>2. CASE Next
    BY <1>1, <1>2, NextActs, ActStepOK, StepSuffices
  <1>3. CASE UNCHANGED vars
    <2>1. \A e \in End : Idle(e)
      BY <1>3 DEF vars, Idle
    <2>2. \A e \in End : /\ SendInv(e) /\ SealInv(e) => SendInv(e)' /\ SealInv(e)'
                         /\ RecvInv(e) => RecvInv(e)'
                         /\ OpenInv(e) => OpenInv(e)'
      <3>1. \A e \in End : SendInv(e) /\ SealInv(e) => SendInv(e)' /\ SealInv(e)'
        BY <2>1, SendIdle
      <3>2. \A e \in End : RecvInv(e) => RecvInv(e)'
        BY <1>3 DEF vars, RecvInv
      <3>3. \A e \in End : OpenInv(e) => OpenInv(e)'
        BY <1>3 DEF vars, OpenInv
      <3> QED BY <3>1, <3>2, <3>3
    <2>3. PhaseInv'
      BY <1>3, SamePhase DEF vars, IInv
    <2> QED BY <1>1, <2>2, <2>3 DEF IInv
  <1> QED BY <1>2, <1>3

LEMMA Inductive == Spec => []IInv
  BY InitIInv, NextIInv, PTL DEF Spec

-----------------------------------------------------------------------------
(* Safety *)

(* An endpoint never rejects a frame of a peer that runs this code: what    *)
(* the handshake and the rekeys of both sides make of the keys, in whatever *)
(* order they cross, is what the other side expects (secureConnection.js    *)
(* 163, 188-191).                                                           *)
THEOREM HonestFramesAlwaysAccepted == Spec => []HonestFramesAccepted
  <1>1. IInv => HonestFramesAccepted
    BY DEF IInv, OpenInv, HonestFramesAccepted
  <1> QED BY <1>1, Inductive, PTL

(* The receiving key of an endpoint is at every moment the sending key of   *)
(* the frame it will take next (handshake.js 85-96).                        *)
THEOREM KeysAlwaysInPhase == Spec => []KeysInPhase
  <1>1. ASSUME IInv, NEW e \in End, Peer(e) \notin Misbehaving,
               phase[e] = "secure", ~closed[e]
        PROVE  /\ rcvd[e] < Len(stream[Peer(e)]) => NextFrame(e).key = rxKey[e]
               /\ rcvd[e] = Len(stream[Peer(e)]) /\ phase[Peer(e)] = "secure"
                     /\ Writable(Peer(e)) => txKey[Peer(e)] = rxKey[e]
    <2> DEFINE p == Peer(e)
    <2>1. p \in End /\ TypeOK /\ OpenInv(e) /\ SealInv(p)
      BY <1>1, Unpack
    <2>2. /\ rcvd[e] \in Nat /\ Len(stream[p]) \in Nat /\ HsLen(p) \in Nat
          /\ rcvd[e] >= HsLen(p) /\ rxKey[e] = KeyAt(p, stream[p], rcvd[e] + 1)
      BY <1>1, <2>1, HsLenType DEF TypeOK, OpenInv
    <2>3. ASSUME rcvd[e] < Len(stream[p]) PROVE NextFrame(e).key = rxKey[e]
      <3>1. rcvd[e] + 1 \in 1..Len(stream[p]) /\ ~(rcvd[e] + 1 <= HsLen(p))
        BY <2>2, <2>3
      <3>2. stream[p][rcvd[e] + 1].key = KeyAt(p, stream[p], rcvd[e] + 1)
        BY <2>1, <3>1 DEF SealInv, WellSealed
      <3> QED BY <2>2, <3>2 DEF NextFrame
    <2>4. ASSUME rcvd[e] = Len(stream[p]), phase[p] = "secure", Writable(p)
          PROVE  txKey[p] = rxKey[e]
      BY <2>1, <2>2, <2>4 DEF SealInv
    <2> QED BY <2>3, <2>4
  <1>2. IInv => KeysInPhase
    BY <1>1 DEF KeysInPhase
  <1> QED BY <1>2, Inductive, PTL

(* No endpoint writes a frame after its CLOSE (128-134).                    *)
THEOREM CloseAlwaysLast == Spec => []CloseIsLast
  <1>1. IInv => CloseIsLast
    BY DEF IInv, SendInv, ClosedLast, NoClose, CloseIsLast
  <1> QED BY <1>1, Inductive, PTL

-----------------------------------------------------------------------------
(* The session implements SecureChannel *)

(* A step of e that at most brings e down. *)
AtMostDown(e) ==
    /\ UNCHANGED <<sent, delivered>>
    /\ closed' = closed \/ closed' = [closed EXCEPT ![e] = TRUE]

LEMMA FailDown ==
  ASSUME NEW e \in End, NEW why, Fail(e, why), UNCHANGED <<sent, delivered>>
  PROVE  AtMostDown(e)
  BY DEF Fail, AtMostDown

LEMMA AtMostDownMaps ==
  ASSUME TypeOK, NEW e \in End, AtMostDown(e)
  PROVE  [Channel!Next]_(Channel!vars)
  <1> DEFINE up == [x \in End |-> ~closed[x]]
  <1>1. CASE closed' = closed \/ closed[e]
    <2>1. closed' = closed
      <3>1. CASE closed[e]
        <4>1. closed[e] = TRUE /\ closed = [x \in End |-> closed[x]]
          BY <3>1 DEF TypeOK
        <4>2. [closed EXCEPT ![e] = TRUE] = closed
          BY <4>1
        <4> QED BY <4>2 DEF AtMostDown
      <3> QED BY <1>1, <3>1
    <2>2. UNCHANGED Channel!vars
      BY <2>1 DEF Channel!vars, AtMostDown
    <2> QED BY <2>2
  <1>2. CASE closed' = [closed EXCEPT ![e] = TRUE] /\ ~closed[e]
    <2>1. up' = [up EXCEPT ![e] = FALSE]
      BY <1>2 DEF TypeOK
    <2>2. Channel!Cut(e)
      BY <1>2, <2>1 DEF Channel!Cut, AtMostDown
    <2> QED BY <2>2 DEF Channel!Next, Channel!End, End
  <1> QED BY <1>1, <1>2 DEF AtMostDown

LEMMA SendMaps ==
  ASSUME NEW e \in End, NEW b \in Body, Send(e, b)
  PROVE  Channel!Next
  <1>1. sent' = [sent EXCEPT ![e] = Append(@, b)] /\ UNCHANGED <<delivered, closed>>
    BY DEF Send
  <1>2. Channel!Submit(e, b)
    BY <1>1 DEF Channel!Submit
  <1> QED BY <1>2 DEF Channel!Next, Channel!End, End

LEMMA RecvDataMaps ==
  ASSUME IInv, NEW e \in End, RecvData(e), Peer(e) \notin Misbehaving
  PROVE  [Channel!Next]_(Channel!vars)
  <1> DEFINE f == NextFrame(e)
             p == Peer(e)
             up == [x \in End |-> ~closed[x]]
  <1>1. /\ TypeOK /\ p \in End /\ RecvInv(e) /\ SendInv(p)
    BY Unpack
  <1>2. CanRead(e) /\ Arrives(e) /\ UNCHANGED sent /\ f.t = "DATA"
    BY RecvDataCases, ReadArrives
  <1>3. CASE /\ Fail(e, "session_rate_limit") \/ Fail(e, "session_replay")
             /\ UNCHANGED <<rxSeq, delivered>>
    BY <1>1, <1>2, <1>3, FailDown, AtMostDownMaps
  <1>4. CASE /\ f.seq > rxSeq[e]
             /\ delivered' = [delivered EXCEPT ![e] = Append(@, f.body)]
             /\ UNCHANGED <<closed, sock, fault>> \/ Fail(e, "listener_error")
    <2>1. ~closed[e]
      BY <1>1, <1>2, ReaderOpen
    <2>2. /\ f.seq = rxSeq[e] + 1 /\ rxSeq[e] + 1 <= Len(sent[p])
          /\ f.body = sent[p][rxSeq[e] + 1]
      BY <1>1, <1>2, <1>4, NextInOrder
    <2>3. /\ Len(delivered[e]) = rxSeq[e] /\ Len(sent[p]) \in Nat
          /\ rxSeq[e] \in Nat
      BY <1>1 DEF RecvInv, TypeOK
    <2>4. delivered' = [delivered EXCEPT ![e] = Append(@, sent[p][Len(@) + 1])]
      BY <1>4, <2>2, <2>3
    <2>5. \E stillUp \in BOOLEAN : up' = [up EXCEPT ![e] = stillUp]
      <3>1. CASE closed' = closed
        BY <1>1, <3>1 DEF TypeOK
      <3>2. CASE Fail(e, "listener_error")
        BY <1>1, <3>2 DEF TypeOK, Fail
      <3> QED BY <1>4, <3>1, <3>2
    <2>6. p = Channel!Peer(e)
      BY DEF Peer, Channel!Peer
    <2>7. up[e] /\ Len(delivered[e]) < Len(sent[Channel!Peer(e)])
      <3>1. up[e]
        BY <2>1
      <3>2. Len(delivered[e]) < Len(sent[p])
        BY <2>2, <2>3
      <3> QED BY <2>6, <3>1, <3>2
    <2>8. delivered' =
            [delivered EXCEPT ![e] = Append(@, sent[Channel!Peer(e)][Len(@) + 1])]
      BY <2>4, <2>6
    <2> HIDE DEF up, p
    <2>9. Channel!Deliver(e)
      BY <1>2, <2>5, <2>7, <2>8 DEF Channel!Deliver, up
    <2> QED BY <2>9 DEF Channel!Next, Channel!End, End
  <1> QED BY <1>3, <1>4, RecvDataCases

LEMMA OthersDown ==
  ASSUME TypeOK, NEW e \in End,
         \/ RecvMsg1(e) \/ RecvMsg2(e) \/ RecvMsg3(e) \/ RecvRekey(e)
         \/ RecvRekeyAck(e) \/ RecvClose(e) \/ RecvBad(e) \/ RecvOversize(e)
         \/ RefuseFrame(e) \/ HandshakeTimeout(e) \/ Rekey(e) \/ Close(e)
         \/ SocketEvent(e) \/ SocketError(e) \/ Misbehave(e)
  PROVE  AtMostDown(e)
  <1>1. CASE RecvMsg1(e) \/ RecvMsg2(e) \/ RecvMsg3(e)
    BY <1>1, FailDown DEF RecvMsg1, RecvMsg2, RecvMsg3, AtMostDown
  <1>2. CASE RecvRekey(e) \/ RecvRekeyAck(e) \/ Rekey(e) \/ Close(e) \/ Misbehave(e)
    BY <1>2 DEF RecvRekey, RecvRekeyAck, Rekey, rekey, Close, Misbehave, AtMostDown
  <1>3. CASE RecvClose(e) \/ SocketError(e) \/ PeerEnd(e) \/ SocketClose(e)
    BY <1>3 DEF RecvClose, SocketError, PeerEnd, SocketClose, AtMostDown
  <1>4. CASE \/ RecvBad(e) \/ RecvOversize(e) \/ RefuseFrame(e)
             \/ HandshakeTimeout(e) \/ ErrorEvent(e)
    BY <1>4, FailDown
       DEF RecvBad, RecvOversize, RefuseFrame, HandshakeTimeout, ErrorEvent
  <1> QED BY <1>1, <1>2, <1>3, <1>4 DEF SocketEvent

(* Between endpoints that run this code the session implements              *)
(* SecureChannel for any number of messages, rekeys and failures: what a    *)
(* listener gets is a prefix of what the peer's user sent                   *)
(* (secureConnection.js 188-194).                                           *)
THEOREM SessionImplementsChannel ==
  ASSUME Misbehaving = {}
  PROVE  Spec => ImplementsChannel
  <1>1. Init => Channel!Init
    BY DEF Init, Channel!Init, Channel!End, End
  <1>2. ASSUME IInv, [Next]_vars
        PROVE  [Channel!Next]_(Channel!vars)
    <2>1. CASE Next
      <3>1. PICK e \in End :
              \/ Receive(e) \/ RefuseFrame(e) \/ UserCall(e) \/ HandshakeTimeout(e)
              \/ SocketEvent(e) \/ SocketError(e) \/ Misbehave(e)
        BY <2>1 DEF Next
      <3>2. TypeOK
        BY <1>2 DEF IInv
      <3>3. \/ RecvData(e)
            \/ \E b \in Body : Send(e, b)
            \/ AtMostDown(e)
        BY <3>1, <3>2, OthersDown DEF Receive, UserCall
      <3> QED BY <1>2, <3>2, <3>3, RecvDataMaps, SendMaps, AtMostDownMaps
    <2>2. CASE UNCHANGED vars
      BY <2>2 DEF vars, Channel!vars
    <2> QED BY <1>2, <2>1, <2>2
  <1> QED BY <1>1, <1>2, Inductive, PTL DEF Spec, ImplementsChannel, Channel!Spec

-----------------------------------------------------------------------------
(* Clean ends *)

(* What e has taken of a session that was not torn down it has delivered;   *)
(* the end of input is seen after the last frame, and once only.            *)
EndInv(e) ==
    LET p == Peer(e) IN
    /\ sock[e] # "destroyed" =>
         \A i \in 1..rcvd[e] : stream[p][i].t = "DATA" => stream[p][i].seq <= rxSeq[e]
    /\ eof[e] => sock[p] # "open"
    /\ eof[e] /\ sock[p] = "ended" => rcvd[e] = Len(stream[p])
    /\ gone[e] => eof[e] \/ sock[e] = "destroyed"

EInv == IInv /\ \A e \in End : Peer(e) \notin Misbehaving => EndInv(e)

(* What a step of e does to its socket and its read position. *)
EndStep(e) ==
    LET p == Peer(e) IN
    /\ eof'[p] = eof[p]
    /\ sock[e] = "destroyed" => sock'[e] = "destroyed"
    /\ eof[e] => eof'[e]
    /\ ~eof[e] /\ eof'[e] =>
         \/ sock[p] = "ended" /\ rcvd[e] = Len(stream[p]) /\ rcvd'[e] = rcvd[e]
         \/ sock[p] = "destroyed"
    /\ gone'[e] => gone[e] \/ eof[e] \/ sock[e] = "destroyed"
    /\ Arrives(e) \/ (rcvd'[e] = rcvd[e] /\ rxSeq'[e] = rxSeq[e])
    /\ p \notin Misbehaving /\ ~closed[e] /\ closed'[e] /\ sock'[e] # "destroyed" =>
         /\ rxSeq'[e] = rxSeq[e]
         /\ \/ rcvd'[e] = rcvd[e]
            \/ rcvd'[e] = rcvd[e] + 1 /\ NextFrame(e).t = "CLOSE"
    /\ closed[e] => closed'[e]

(* A step that neither reads nor ends the input, and keeps closed. *)
LEMMA EndStepWrites ==
  ASSUME TypeOK, NEW e \in End, UNCHANGED <<rcvd, rxSeq, eof, gone, closed>>,
         sock[e] = "destroyed" => sock'[e] = "destroyed"
  PROVE  EndStep(e)
  BY DEF EndStep

(* A step that reads a frame and does not close. *)
LEMMA EndStepReads ==
  ASSUME TypeOK, NEW e \in End, Arrives(e), UNCHANGED <<eof, gone, closed>>,
         sock[e] = "destroyed" => sock'[e] = "destroyed"
  PROVE  EndStep(e)
  BY DEF EndStep

(* A step that fails. *)
LEMMA EndStepFails ==
  ASSUME TypeOK, NEW e \in End, NEW why, Fail(e, why), UNCHANGED <<eof, gone>>,
         Arrives(e) \/ UNCHANGED <<rcvd, rxSeq>>
  PROVE  EndStep(e)
  <1>1. /\ sock'[e] = IF closed[e] THEN sock[e] ELSE "destroyed"
        /\ closed'[e]
    BY DEF TypeOK, Fail
  <1> QED BY <1>1 DEF EndStep

LEMMA SockWrites ==
  ASSUME TypeOK, NEW e \in End, NEW f, NEW g, Write(e, f) \/ Write2(e, f, g)
  PROVE  sock[e] = "destroyed" => sock'[e] = "destroyed"
  BY DEF TypeOK, Write, Write2, SockAfterWrite

LEMMA ActEndStep ==
  ASSUME IInv, NEW e \in End, Acts(e)
  PROVE  EndStep(e)
  <1> DEFINE p == Peer(e)
  <1>1. TypeOK /\ p \in End /\ p # e
    BY PeerType DEF IInv
  <1>2. CASE RecvMsg1(e) \/ RecvRekey(e)
    <2>1. /\ CanRead(e) /\ UNCHANGED <<eof, gone, closed>>
          /\ \E f : Write(e, f)
      BY <1>2 DEF RecvMsg1, RecvRekey, Opens
    <2> QED BY <1>1, <2>1, ReadArrives, SockWrites, EndStepReads
  <1>3. CASE RecvMsg2(e) \/ RecvMsg3(e) \/ RecvRekeyAck(e)
    <2>1. /\ CanRead(e) /\ UNCHANGED <<eof, gone>>
          /\ \/ /\ UNCHANGED closed
                /\ \/ UNCHANGED sock
                   \/ sock' = [sock EXCEPT ![e] = SockAfterWrite(e)]
             \/ \E why : Fail(e, why)
      BY <1>3 DEF RecvMsg2, RecvMsg3, RecvRekeyAck, Opens
    <2>2. SockAfterWrite(e) = "destroyed" \/ SockAfterWrite(e) = sock[e]
      BY DEF SockAfterWrite
    <2>3. CASE \E why : Fail(e, why)
      BY <1>1, <2>1, <2>3, ReadArrives, EndStepFails
    <2>4. CASE /\ UNCHANGED closed
               /\ UNCHANGED sock \/ sock' = [sock EXCEPT ![e] = SockAfterWrite(e)]
      <3>1. sock[e] = "destroyed" => sock'[e] = "destroyed"
        BY <1>1, <2>2, <2>4 DEF TypeOK
      <3> QED BY <1>1, <2>1, <2>4, <3>1, ReadArrives, EndStepReads
    <2> QED BY <2>1, <2>3, <2>4
  <1>4. CASE RecvData(e)
    <2>1. Arrives(e) /\ UNCHANGED <<eof, gone>>
      BY <1>4, ReadArrives DEF RecvData, Opens
    <2>2. CASE UNCHANGED <<closed, sock, fault>>
      BY <1>1, <2>1, <2>2, EndStepReads
    <2>3. CASE \E why : Fail(e, why)
      BY <1>1, <2>1, <2>3, EndStepFails
    <2> QED BY <1>4, <2>2, <2>3, RecvDataCases
  <1>5. CASE RecvClose(e)
    <2>1. /\ Arrives(e) /\ NextFrame(e).t = "CLOSE"
          /\ sock' = [sock EXCEPT ![e] = IF @ = "open" THEN "ended" ELSE @]
          /\ closed' = [closed EXCEPT ![e] = TRUE]
          /\ UNCHANGED <<eof, gone, rxSeq>>
      BY <1>5, ReadArrives DEF RecvClose, Opens, sessionVars
    <2>2. p \notin Misbehaving => rcvd'[e] = rcvd[e] + 1
      BY <1>5, CloseTaken
    <2> QED BY <1>1, <2>1, <2>2 DEF EndStep, TypeOK
  <1>6. CASE \/ RecvBad(e) \/ RecvOversize(e) \/ RefuseFrame(e)
             \/ HandshakeTimeout(e) \/ ErrorEvent(e)
    <2>1. /\ \E why : Fail(e, why)
          /\ UNCHANGED <<eof, gone, rxSeq>>
          /\ Arrives(e) \/ UNCHANGED rcvd
      BY <1>6, ReadArrives
         DEF RecvBad, RecvOversize, RefuseFrame, HandshakeTimeout, ErrorEvent, sessionVars
    <2> QED BY <1>1, <2>1, EndStepFails
  <1>7. CASE (\E b \in Body : Send(e, b)) \/ Rekey(e)
    <2>1. /\ UNCHANGED <<rcvd, rxSeq, eof, gone, closed>>
          /\ \E f, g : Write(e, f) \/ Write2(e, f, g)
      BY <1>7 DEF Send, Rekey, rekey
    <2> QED BY <1>1, <2>1, SockWrites, EndStepWrites
  <1>8. CASE Close(e) \/ Misbehave(e)
    <2>1. /\ UNCHANGED <<rcvd, rxSeq, eof, gone, closed>>
          /\ sock[e] = "destroyed" => sock'[e] = "destroyed"
      BY <1>1, <1>8 DEF Close, Misbehave, sessionVars, TypeOK, SockAfterWrite
    <2> QED BY <1>1, <2>1, EndStepWrites
  <1>9. CASE SocketError(e)
    <2>1. /\ sock'[e] = "destroyed" /\ closed'[e]
          /\ UNCHANGED <<rcvd, rxSeq, eof, gone>>
      BY <1>1, <1>9 DEF SocketError, sessionVars, TypeOK
    <2> QED BY <2>1 DEF EndStep
  <1>10. CASE PeerEnd(e)
    <2>1. /\ sock[e] # "destroyed" /\ UNCHANGED <<rcvd, rxSeq, gone, closed>>
          /\ eof' = [eof EXCEPT ![e] = TRUE]
          /\ \/ sock[p] = "ended" /\ rcvd[e] = Len(stream[p])
             \/ sock[p] = "destroyed"
      BY <1>10 DEF PeerEnd, sessionVars
    <2> QED BY <1>1, <2>1 DEF EndStep, TypeOK
  <1>11. CASE SocketClose(e)
    <2>1. /\ IF sock[e] = "destroyed" THEN closed[e] ELSE eof[e]
          /\ closed' = [closed EXCEPT ![e] = TRUE]
          /\ UNCHANGED <<rcvd, rxSeq, sock, eof>>
      BY <1>11 DEF SocketClose, sessionVars
    <2> QED BY <1>1, <2>1 DEF EndStep, TypeOK
  <1> QED
    BY <1>2, <1>3, <1>4, <1>5, <1>6, <1>7, <1>8, <1>9, <1>10, <1>11
       DEF Acts, Receive, UserCall, SocketEvent

LEMMA EndInvStep ==
  ASSUME EInv, IInv', NEW e \in End, StepOK(e), EndStep(e)
  PROVE  EInv'
  <1> DEFINE p == Peer(e)
  <1>1. /\ p \in End /\ Peer(p) = e /\ p # e /\ TypeOK /\ TypeOK' /\ Idle(p)
        /\ \A x \in End : x = e \/ x = p
    BY PeerType DEF EInv, IInv, StepOK, End
  <1>2. /\ stream'[p] = stream[p] /\ sock'[p] = sock[p]
        /\ rcvd'[p] = rcvd[p] /\ rxSeq'[p] = rxSeq[p] /\ gone'[p] = gone[p]
        /\ eof'[p] = eof[p]
    BY <1>1 DEF Idle, EndStep
  <1>3. /\ rcvd[e] \in Nat /\ rcvd[p] \in Nat /\ rcvd[e] <= Len(stream[p])
        /\ rcvd[p] <= Len(stream[e]) /\ Len(stream[e]) \in Nat /\ Len(stream[p]) \in Nat
        /\ rxSeq[e] \in Nat /\ rxSeq[p] \in Nat
    BY <1>1, LenTypes
  <1>4. ASSUME e \notin Misbehaving PROVE EndInv(p)'
    <2>0. EndInv(p) /\ SenderStep(e)
      BY <1>1, <1>4 DEF EInv, StepOK, SentOK
    <2>1. sock[p] # "destroyed" =>
            \A i \in 1..rcvd[p] : stream'[e][i].t = "DATA" => stream'[e][i].seq <= rxSeq[p]
      BY <1>1, <1>3, <2>0 DEF EndInv, SenderStep
    <2>2. eof[p] => sock'[e] # "open" /\ stream'[e] = stream[e]
      BY <1>1, <2>0 DEF EndInv, SenderStep
    <2>3. eof[p] /\ sock'[e] = "ended" => rcvd[p] = Len(stream'[e])
      <3>1. sock[e] \in SockState
        BY <1>1 DEF TypeOK
      <3> QED BY <1>1, <2>0, <2>2, <3>1 DEF EndInv, EndStep, SockState
    <2> QED BY <1>1, <1>2, <2>0, <2>1, <2>2, <2>3 DEF EndInv
  <1>5. ASSUME p \notin Misbehaving PROVE EndInv(e)'
    <2>0. EndInv(e) /\ RecvInv(e) /\ RecvInv(e)'
      BY <1>1, <1>5 DEF EInv, IInv
    <2>1. ASSUME sock'[e] # "destroyed", NEW i \in 1..rcvd'[e], stream[p][i].t = "DATA"
          PROVE  stream[p][i].seq <= rxSeq'[e]
      <3>1. CASE ~closed'[e]
        BY <1>2, <2>0, <2>1, <3>1 DEF RecvInv
      <3>2. CASE closed[e] /\ closed'[e]
        <4>1. ~Arrives(e)
          BY <1>1, <2>0, <3>2, ReaderOpen
        <4>2. rcvd'[e] = rcvd[e] /\ rxSeq'[e] = rxSeq[e]
          BY <4>1 DEF EndStep
        <4> QED BY <2>0, <2>1, <4>2 DEF EndInv, EndStep
      <3>3. CASE ~closed[e] /\ closed'[e]
        <4>1. /\ rxSeq'[e] = rxSeq[e]
              /\ \/ rcvd'[e] = rcvd[e]
                 \/ rcvd'[e] = rcvd[e] + 1 /\ stream[p][rcvd[e] + 1].t = "CLOSE"
          BY <1>5, <2>1, <3>3 DEF EndStep, NextFrame
        <4>2. i \in 1..rcvd[e]
          BY <1>3, <2>1, <4>1
        <4> QED BY <2>0, <3>3, <2>1, <4>1, <4>2 DEF RecvInv
      <3> QED BY <3>1, <3>2, <3>3 DEF EndStep
    <2>2. eof'[e] => sock[p] # "open"
      BY <2>0 DEF EndInv, EndStep
    <2>3. eof'[e] /\ sock[p] = "ended" => rcvd'[e] = Len(stream[p])
      <3>1. CASE eof[e]
        <4>1. ~Arrives(e)
          BY <3>1 DEF Arrives
        <4> QED BY <2>0, <3>1, <4>1 DEF EndInv, EndStep
      <3>2. CASE ~eof[e]
        BY <3>2 DEF EndStep
      <3> QED BY <3>1, <3>2
    <2>4. gone'[e] => eof'[e] \/ sock'[e] = "destroyed"
      BY <2>0 DEF EndInv, EndStep
    <2> QED BY <1>2, <2>1, <2>2, <2>3, <2>4 DEF EndInv
  <1> QED BY <1>1, <1>4, <1>5 DEF EInv

LEMMA EndInductive == Spec => []EInv
  <1>1. Init => EInv
    <2> SUFFICES ASSUME Init PROVE EInv
      OBVIOUS
    <2>1. \A e \in End : EndInv(e)
      BY DEF Init, EndInv
    <2> QED BY <2>1, InitIInv DEF EInv
  <1>2. ASSUME EInv, [Next]_vars PROVE EInv'
    <2>1. IInv'
      BY <1>2, NextIInv DEF EInv
    <2>2. CASE Next
      <3>1. PICK e \in End : Acts(e)
        BY <2>2, NextActs
      <3> QED BY <1>2, <2>1, <3>1, ActStepOK, ActEndStep, EndInvStep DEF EInv
    <2>3. CASE UNCHANGED vars
      BY <1>2, <2>1, <2>3 DEF vars, EInv, EndInv
    <2> QED BY <1>2, <2>2, <2>3
  <1> QED BY <1>1, <1>2, PTL DEF Spec

(* A session that ends with no socket destroyed has delivered every message *)
(* that a peer running this code wrote to it, those that crossed the other  *)
(* side's CLOSE included (secureConnection.js 127-134, 208-212).            *)
THEOREM CleanEndsLoseNothing == Spec => []CleanEndLosesNothing
  <1>1. ASSUME EInv PROVE CleanEndLosesNothing
    <2> SUFFICES ASSUME NEW e \in End, Peer(e) \notin Misbehaving, gone[e],
                        sock[e] = "ended", sock[Peer(e)] = "ended",
                        NEW i \in 1..Len(stream[Peer(e)]), stream[Peer(e)][i].t = "DATA"
                 PROVE  stream[Peer(e)][i].seq <= Len(delivered[e])
      BY DEF CleanEndLosesNothing
    <2>1. EndInv(e) /\ Len(delivered[e]) = rxSeq[e]
      BY <1>1 DEF EInv, IInv, RecvInv
    <2> QED BY <2>1 DEF EndInv
  <1> QED BY <1>1, EndInductive, PTL

-----------------------------------------------------------------------------
(* Rekeys *)

(* The frames of the rekey e has under way. *)
Pending(e) ==
    {<<"REKEY", i>> : i \in Unread(e, "REKEY")}
    \cup {<<"ACK", i>> : i \in Unread(Peer(e), "REKEY_ACK")}

Single(S) == \A x, y \in S : x = y

RekeyOK(e) == (Pending(e) # {} => rekeying[e]) /\ Single(Pending(e))

BothOpen == Misbehaving = {} /\ \A e \in End : ~closed[e]

LEMMA RekeyAlternative ==
  /\ OneRekeyAtATime <=> (BothOpen => \A e \in End : RekeyOK(e))
  /\ OneRekeyAtATime' <=> (BothOpen' => \A e \in End : RekeyOK(e)')
  <1>1. \A e \in End : {e, Peer(e)} = End
    BY DEF End, Peer
  <1>2. \A e \in End : {e, Peer(e)} \cap Misbehaving = {} <=> Misbehaving = {}
    BY <1>1, ConstantsAssumption
  <1>3. \A e \in End : (~closed[e] /\ ~closed[Peer(e)]) <=> (\A x \in End : ~closed[x])
    BY <1>1
  <1>4. \A e \in End : (~closed'[e] /\ ~closed'[Peer(e)]) <=> (\A x \in End : ~closed'[x])
    BY <1>1
  <1>5. OneRekeyAtATime <=> (BothOpen => \A e \in End : RekeyOK(e))
    BY <1>2, <1>3 DEF OneRekeyAtATime, BothOpen, RekeyOK, Pending, Single
  <1>6. OneRekeyAtATime' <=> (BothOpen' => \A e \in End : RekeyOK(e)')
    BY <1>2, <1>4 DEF OneRekeyAtATime, BothOpen, RekeyOK, Pending, Single
  <1> QED BY <1>5, <1>6

LEMMA UnreadSame ==
  ASSUME NEW d \in End, stream'[d] = stream[d], rcvd'[Peer(d)] = rcvd[Peer(d)]
  PROVE  \A t : Unread(d, t)' = Unread(d, t)
  BY DEF Unread

(* The peer q of d takes a frame. *)
LEMMA UnreadTake ==
  ASSUME TypeOK, NEW d \in End, NEW q \in End, q = Peer(d), d = Peer(q),
         stream'[d] = stream[d], Arrives(q), rcvd'[q] = rcvd[q] + 1
  PROVE  \A t : /\ Unread(d, t)' = Unread(d, t) \ {rcvd[q] + 1}
                /\ rcvd[q] + 1 \in Unread(d, t) <=> NextFrame(q).t = t
  <1>1. /\ rcvd[q] \in Nat /\ Len(stream[d]) \in Nat /\ rcvd[q] < Len(stream[d])
    BY LenTypes DEF Arrives
  <1>2. \A i : i \in (rcvd[q] + 1 + 1)..Len(stream[d])
                 <=> i \in (rcvd[q] + 1)..Len(stream[d]) /\ i # rcvd[q] + 1
    BY <1>1
  <1>3. rcvd[q] + 1 \in (rcvd[q] + 1)..Len(stream[d])
    BY <1>1
  <1> QED BY <1>2, <1>3 DEF Unread, NextFrame

(* d writes a frame. *)
LEMMA UnreadAppend ==
  ASSUME TypeOK, NEW d \in End, NEW f \in Frame, stream'[d] = Append(stream[d], f),
         rcvd'[Peer(d)] = rcvd[Peer(d)]
  PROVE  \A t : Unread(d, t)' = Unread(d, t)
                                \cup (IF f.t = t THEN {Len(stream[d]) + 1} ELSE {})
  <1> DEFINE q == Peer(d)
             n == Len(stream[d])
  <1>1. /\ stream[d] \in Seq(Frame) /\ n \in Nat /\ rcvd[q] \in Nat /\ rcvd[q] <= n
    <2>1. q \in End /\ Peer(q) = d
      BY PeerType
    <2>2. stream[d] \in Seq(Frame) /\ n \in Nat
      BY LenTypes
    <2>3. rcvd[q] \in Nat /\ rcvd[q] <= Len(stream[Peer(q)])
      BY <2>1, LenTypes
    <2> QED BY <2>1, <2>2, <2>3
  <1>2. /\ Len(stream'[d]) = n + 1 /\ stream'[d][n + 1] = f
        /\ \A i \in 1..n : stream'[d][i] = stream[d][i]
    BY <1>1, AppendFacts
  <1>3. \A i : i \in (rcvd[q] + 1)..(n + 1) <=> i \in (rcvd[q] + 1)..n \/ i = n + 1
    BY <1>1
  <1>4. \A i \in (rcvd[q] + 1)..n : i \in 1..n /\ i # n + 1
    BY <1>1
  <1>5. ASSUME NEW t PROVE Unread(d, t)' = {i \in (rcvd[q] + 1)..(n + 1) : stream'[d][i].t = t}
    BY <1>2 DEF Unread
  <1>6. ASSUME NEW t PROVE Unread(d, t) = {i \in (rcvd[q] + 1)..n : stream[d][i].t = t}
    BY DEF Unread
  <1> HIDE DEF n, q
  <1>7. ASSUME NEW t PROVE Unread(d, t)' = Unread(d, t) \cup (IF f.t = t THEN {n + 1} ELSE {})
    BY <1>2, <1>3, <1>4, <1>5, <1>6
  <1> QED BY <1>7 DEF n

(* What a step of e may do to the rekeys: nothing, start one of its own,    *)
(* answer one of the peer's, or take the answer to its own.                 *)
RekeyStep(e) ==
    LET p == Peer(e)
        Kept(d, t) == Unread(d, t)' = Unread(d, t)
        More(d, t) == \E x : Unread(d, t)' \subseteq Unread(d, t) \cup {x}
        Less(d, t, i) == i \in Unread(d, t) /\ Unread(d, t)' = Unread(d, t) \ {i}
    IN  /\ rekeying'[p] = rekeying[p]
        /\ \/ /\ rekeying'[e] = rekeying[e]
              /\ Kept(e, "REKEY") /\ Kept(e, "REKEY_ACK")
              /\ Kept(p, "REKEY") /\ Kept(p, "REKEY_ACK")
           \/ /\ ~rekeying[e] /\ rekeying'[e]
              /\ More(e, "REKEY") /\ Kept(e, "REKEY_ACK")
              /\ Kept(p, "REKEY") /\ Kept(p, "REKEY_ACK")
           \/ /\ rekeying'[e] = rekeying[e]
              /\ Kept(e, "REKEY") /\ More(e, "REKEY_ACK")
              /\ \E i : Less(p, "REKEY", i)
              /\ Kept(p, "REKEY_ACK")
           \/ /\ Kept(e, "REKEY") /\ Kept(e, "REKEY_ACK") /\ Kept(p, "REKEY")
              /\ \E i : Less(p, "REKEY_ACK", i)

LEMMA RekeyStepKeeps ==
  ASSUME NEW e \in End, RekeyOK(e), RekeyOK(Peer(e)), RekeyStep(e)
  PROVE  RekeyOK(e)' /\ RekeyOK(Peer(e))'
  <1> DEFINE p == Peer(e)
             eR == Unread(e, "REKEY")
             eA == Unread(e, "REKEY_ACK")
             pR == Unread(p, "REKEY")
             pA == Unread(p, "REKEY_ACK")
  <1>1. Peer(p) = e /\ p \in End
    BY PeerType
  <1>2. /\ Pending(e) = {<<"REKEY", i>> : i \in eR} \cup {<<"ACK", i>> : i \in pA}
        /\ Pending(p) = {<<"REKEY", i>> : i \in pR} \cup {<<"ACK", i>> : i \in eA}
        /\ Pending(e)' = {<<"REKEY", i>> : i \in eR'} \cup {<<"ACK", i>> : i \in pA'}
        /\ Pending(p)' = {<<"REKEY", i>> : i \in pR'} \cup {<<"ACK", i>> : i \in eA'}
    BY <1>1 DEF Pending
  <1>3. /\ rekeying'[p] = rekeying[p]
        /\ \/ rekeying'[e] = rekeying[e] /\ eR' = eR /\ eA' = eA /\ pR' = pR /\ pA' = pA
           \/ /\ ~rekeying[e] /\ rekeying'[e]
              /\ \E x : eR' \subseteq eR \cup {x}
              /\ eA' = eA /\ pR' = pR /\ pA' = pA
           \/ /\ rekeying'[e] = rekeying[e] /\ eR' = eR
              /\ \E x : eA' \subseteq eA \cup {x}
              /\ \E i \in pR : pR' = pR \ {i}
              /\ pA' = pA
           \/ /\ eR' = eR /\ eA' = eA /\ pR' = pR
              /\ \E i \in pA : pA' = pA \ {i}
    BY DEF RekeyStep
  <1>4. /\ Pending(e) # {} => rekeying[e]
        /\ Pending(p) # {} => rekeying[p]
        /\ Single(Pending(e)) /\ Single(Pending(p))
    BY DEF RekeyOK
  <1> HIDE DEF eR, eA, pR, pA, p
  <1>a. /\ \A j \in eR : <<"REKEY", j>> \in Pending(e)
        /\ \A j \in pA : <<"ACK", j>> \in Pending(e)
        /\ \A j \in pR : <<"REKEY", j>> \in Pending(p)
        /\ \A j \in eA : <<"ACK", j>> \in Pending(p)
    BY <1>2
  <1>5. CASE rekeying'[e] = rekeying[e] /\ eR' = eR /\ eA' = eA /\ pR' = pR /\ pA' = pA
    <2>1. Pending(e)' = Pending(e) /\ Pending(p)' = Pending(p)
      BY <1>2, <1>5
    <2> QED BY <1>3, <1>4, <1>5, <2>1 DEF RekeyOK, Single, p
  <1>6. CASE /\ ~rekeying[e] /\ rekeying'[e]
             /\ \E x : eR' \subseteq eR \cup {x}
             /\ eA' = eA /\ pR' = pR /\ pA' = pA
    <2>1. eR = {} /\ pA = {}
      <3>1. Pending(e) = {}
        BY <1>4, <1>6
      <3> QED BY <1>a, <3>1
    <2>2. PICK x : Pending(e)' \subseteq {<<"REKEY", x>>}
      BY <1>2, <1>6, <2>1
    <2>3. Pending(p)' = Pending(p)
      BY <1>2, <1>6
    <2>4. RekeyOK(e)'
      BY <1>6, <2>2 DEF RekeyOK, Single
    <2>5. RekeyOK(p)'
      BY <1>3, <1>4, <2>3 DEF RekeyOK, Single, p
    <2> QED BY <2>4, <2>5 DEF p
  <1>7. CASE /\ rekeying'[e] = rekeying[e] /\ eR' = eR
             /\ \E x : eA' \subseteq eA \cup {x}
             /\ \E i \in pR : pR' = pR \ {i}
             /\ pA' = pA
    <2>1. PICK i \in pR : pR' = pR \ {i}
      BY <1>7
    <2>2. pR \subseteq {i} /\ eA = {}
      <3>1. <<"REKEY", i>> \in Pending(p)
        BY <1>2, <2>1
      <3>2. \A y \in Pending(p) : y = <<"REKEY", i>>
        BY <1>4, <3>1 DEF Single
      <3>3. \A j \in pR : <<"REKEY", j>> = <<"REKEY", i>>
        BY <1>a, <3>2
      <3>4. \A j \in eA : <<"ACK", j>> = <<"REKEY", i>>
        BY <1>a, <3>2
      <3>5. \A j : <<"ACK", j>> # <<"REKEY", i>>
        OBVIOUS
      <3> QED BY <3>3, <3>4, <3>5
    <2>3. rekeying[p]
      BY <1>a, <1>4, <2>1
    <2>4. PICK x : Pending(p)' \subseteq {<<"ACK", x>>}
      BY <1>2, <1>7, <2>1, <2>2
    <2>5. Pending(e)' = Pending(e)
      BY <1>2, <1>7
    <2>6. RekeyOK(e)'
      BY <1>4, <1>7, <2>5 DEF RekeyOK, Single
    <2>7. RekeyOK(p)'
      BY <1>3, <2>3, <2>4 DEF RekeyOK, Single, p
    <2> QED BY <2>6, <2>7 DEF p
  <1>8. CASE eR' = eR /\ eA' = eA /\ pR' = pR /\ \E i \in pA : pA' = pA \ {i}
    <2>1. PICK i \in pA : pA' = pA \ {i}
      BY <1>8
    <2>2. pA \subseteq {i} /\ eR = {}
      <3>1. <<"ACK", i>> \in Pending(e)
        BY <1>2, <2>1
      <3>2. \A y \in Pending(e) : y = <<"ACK", i>>
        BY <1>4, <3>1 DEF Single
      <3>3. \A j \in pA : <<"ACK", j>> = <<"ACK", i>>
        BY <1>a, <3>2
      <3>4. \A j \in eR : <<"REKEY", j>> = <<"ACK", i>>
        BY <1>a, <3>2
      <3>5. \A j : <<"REKEY", j>> # <<"ACK", i>>
        OBVIOUS
      <3> QED BY <3>3, <3>4, <3>5
    <2>3. Pending(e)' = {} /\ Pending(p)' = Pending(p)
      BY <1>2, <1>8, <2>1, <2>2
    <2>4. RekeyOK(e)'
      BY <2>3 DEF RekeyOK, Single
    <2>5. RekeyOK(p)'
      BY <1>3, <1>4, <2>3 DEF RekeyOK, Single, p
    <2> QED BY <2>4, <2>5 DEF p
  <1> QED BY <1>3, <1>5, <1>6, <1>7, <1>8

LEMMA UnreadWrite ==
  ASSUME TypeOK, NEW e \in End, NEW f \in Frame, Puts(e, f),
         rcvd'[Peer(e)] = rcvd[Peer(e)]
  PROVE  \A t : /\ f.t # t => Unread(e, t)' = Unread(e, t)
                /\ \E x : Unread(e, t)' \subseteq Unread(e, t) \cup {x}
  <1>1. stream'[e] = Append(stream[e], f) \/ stream'[e] = stream[e]
    BY DEF TypeOK, Puts
  <1>2. CASE stream'[e] = Append(stream[e], f)
    <2>1. ASSUME NEW t
          PROVE  Unread(e, t)' = Unread(e, t)
                                 \cup (IF f.t = t THEN {Len(stream[e]) + 1} ELSE {})
      BY <1>2, UnreadAppend
    <2> QED BY <2>1
  <1>3. CASE stream'[e] = stream[e]
    <2>1. \A t : Unread(e, t)' = Unread(e, t)
      BY <1>3, UnreadSame
    <2> QED BY <2>1
  <1> QED BY <1>1, <1>2, <1>3

(* A message and the automatic rekey after it. *)
LEMMA UnreadWrite2 ==
  ASSUME TypeOK, NEW e \in End, NEW f \in Frame, NEW g \in Frame, Write2(e, f, g),
         f.t = "DATA", rcvd'[Peer(e)] = rcvd[Peer(e)]
  PROVE  \A t \in {"REKEY", "REKEY_ACK"} :
            /\ g.t # t => Unread(e, t)' = Unread(e, t)
            /\ \E x : Unread(e, t)' \subseteq Unread(e, t) \cup {x}
  <1> DEFINE q == Peer(e)
             n == Len(stream[e])
             s == Append(stream[e], f)
  <1>1. stream'[e] = Append(s, g) \/ stream'[e] = stream[e]
    BY DEF TypeOK, Write2
  <1>2. CASE stream'[e] = stream[e]
    <2>1. \A t : Unread(e, t)' = Unread(e, t)
      BY <1>2, UnreadSame
    <2> QED BY <2>1
  <1>3. CASE stream'[e] = Append(s, g)
    <2>1. stream[e] \in Seq(Frame) /\ n \in Nat /\ rcvd[q] \in Nat
      BY LenTypes, PeerType
    <2>2. /\ s \in Seq(Frame) /\ Len(s) = n + 1 /\ s[n + 1] = f
          /\ \A i \in 1..n : s[i] = stream[e][i]
      BY <2>1, AppendFacts
    <2> HIDE DEF s
    <2>3. /\ Len(stream'[e]) = n + 2 /\ stream'[e][n + 2] = g
          /\ \A i \in 1..n + 1 : stream'[e][i] = s[i]
      <3>1. /\ Len(Append(s, g)) = Len(s) + 1 /\ Append(s, g)[Len(s) + 1] = g
            /\ \A i \in 1..Len(s) : Append(s, g)[i] = s[i]
        BY <2>2, AppendFacts
      <3>2. Len(s) + 1 = n + 2
        BY <2>1, <2>2
      <3> QED BY <1>3, <2>2, <3>1, <3>2
    <2>4. /\ \A i \in 1..n : stream'[e][i] = stream[e][i]
          /\ stream'[e][n + 1].t = "DATA"
      BY <2>1, <2>2, <2>3
    <2>5. ASSUME NEW t \in {"REKEY", "REKEY_ACK"}, NEW i \in Unread(e, t)'
          PROVE  i \in Unread(e, t) \/ (i = n + 2 /\ g.t = t)
      <3>1. i \in (rcvd[q] + 1)..(n + 2) /\ stream'[e][i].t = t
        BY <2>3, <2>5 DEF Unread
      <3>2. i # n + 1
        BY <2>4, <2>5, <3>1
      <3>3. i \in (rcvd[q] + 1)..n \/ i = n + 2
        BY <2>1, <3>1, <3>2
      <3>4. CASE i \in (rcvd[q] + 1)..n
        <4>1. i \in 1..n
          BY <2>1, <3>4
        <4> QED BY <2>4, <3>1, <3>4, <4>1 DEF Unread
      <3> QED BY <2>3, <3>1, <3>3, <3>4
    <2>6. ASSUME NEW t \in {"REKEY", "REKEY_ACK"}, NEW i \in Unread(e, t)
          PROVE  i \in Unread(e, t)'
      <3>1. i \in (rcvd[q] + 1)..n /\ stream[e][i].t = t
        BY DEF Unread
      <3>2. i \in (rcvd[q] + 1)..(n + 2) /\ i \in 1..n
        BY <2>1, <3>1
      <3> QED BY <2>3, <2>4, <3>1, <3>2 DEF Unread
    <2>7. ASSUME NEW t \in {"REKEY", "REKEY_ACK"}
          PROVE  /\ g.t # t => Unread(e, t)' = Unread(e, t)
                 /\ Unread(e, t)' \subseteq Unread(e, t) \cup {n + 2}
      <3>1. g.t # t => Unread(e, t)' = Unread(e, t)
        BY <2>5, <2>6
      <3>2. Unread(e, t)' \subseteq Unread(e, t) \cup {n + 2}
        BY <2>5
      <3> QED BY <3>1, <3>2
    <2> QED BY <2>7
  <1> QED BY <1>1, <1>2, <1>3

(* What an endpoint seals: a control frame, or a data frame. *)
LEMMA ControlFacts ==
  ASSUME TypeOK, NEW e \in End
  PROVE  /\ \A t \in CtrlType : /\ Control(txKey[e], t) \in Frame
                                 /\ Control(txKey[e], t).t = t
         /\ \A b \in Body : /\ seal(txKey[e], "DATA", txSeq[e] + 1, b) \in Frame
                             /\ seal(txKey[e], "DATA", txSeq[e] + 1, b).t = "DATA"
  <1>1. txKey[e] \in Key /\ txSeq[e] + 1 \in Nat
    BY LenTypes
  <1>2. /\ \A t \in CtrlType : Control(txKey[e], t) \in Frame
        /\ \A b \in Body : seal(txKey[e], "DATA", txSeq[e] + 1, b) \in Frame
    BY <1>1, FrameTypes
  <1>3. /\ \A t : Control(txKey[e], t).t = t
        /\ \A b : seal(txKey[e], "DATA", txSeq[e] + 1, b).t = "DATA"
    BY DEF Control, seal
  <1> QED BY <1>2, <1>3

(* Every step of an endpoint that stays up is one of the four. *)
LEMMA ActRekeyStep ==
  ASSUME IInv, NEW e \in End, Acts(e), Idle(Peer(e)), Misbehaving = {}, ~closed'[e]
  PROVE  RekeyStep(e)
  <1> DEFINE p == Peer(e)
  <1>1. TypeOK /\ p \in End /\ p # e /\ Peer(p) = e
    BY PeerType DEF IInv
  <1>2. /\ rcvd'[p] = rcvd[p] /\ stream'[p] = stream[p]
    BY DEF Idle
  <1>3. CASE \/ RecvBad(e) \/ RecvOversize(e) \/ RefuseFrame(e) \/ HandshakeTimeout(e)
             \/ ErrorEvent(e) \/ RecvClose(e) \/ SocketError(e) \/ SocketClose(e)
    <2>1. closed'[e]
      BY <1>1, <1>3 DEF RecvBad, RecvOversize, RefuseFrame, HandshakeTimeout,
           ErrorEvent, RecvClose, SocketError, SocketClose, Fail, TypeOK
    <2> QED BY <2>1
  <1>4. CASE Misbehave(e)
    BY <1>4 DEF Misbehave
  <1>5. ASSUME UNCHANGED rcvd PROVE \A t : Unread(p, t)' = Unread(p, t)
    BY <1>1, <1>2, <1>5, UnreadSame
  <1>6. ASSUME CanRead(e), Take(e)
        PROVE  \A t : /\ Unread(p, t)' = Unread(p, t) \ {rcvd[e] + 1}
                      /\ rcvd[e] + 1 \in Unread(p, t) <=> NextFrame(e).t = t
    <2>1. rcvd'[e] = rcvd[e] + 1 /\ Arrives(e)
      BY <1>1, <1>6, HonestReader, ReadArrives
    <2> QED BY <1>1, <1>2, <2>1, UnreadTake
  <1>7. CASE RecvMsg1(e) \/ RecvMsg2(e)
    <2>1. /\ CanRead(e) /\ Take(e) /\ NextFrame(e).t \in HsType /\ UNCHANGED rekeying
          /\ Puts(e, Signed("MSG2", Transcript2)) \/ Puts(e, Signed("MSG3", Transcript3))
      BY <1>7 DEF RecvMsg1, RecvMsg2, Accepts, HsType, Write
    <2>2. /\ Unread(p, "REKEY")' = Unread(p, "REKEY")
          /\ Unread(p, "REKEY_ACK")' = Unread(p, "REKEY_ACK")
      BY <1>6, <2>1 DEF HsType
    <2>3. /\ Unread(e, "REKEY")' = Unread(e, "REKEY")
          /\ Unread(e, "REKEY_ACK")' = Unread(e, "REKEY_ACK")
      <3>1. ASSUME NEW f \in Frame, f.t \in {"MSG2", "MSG3"}, Puts(e, f)
            PROVE  /\ Unread(e, "REKEY")' = Unread(e, "REKEY")
                   /\ Unread(e, "REKEY_ACK")' = Unread(e, "REKEY_ACK")
        BY <1>1, <1>2, <3>1, UnreadWrite
      <3>2. /\ Signed("MSG2", Transcript2) \in Frame /\ Signed("MSG3", Transcript3) \in Frame
            /\ Signed("MSG2", Transcript2).t = "MSG2" /\ Signed("MSG3", Transcript3).t = "MSG3"
        BY FrameTypes DEF Signed
      <3> QED BY <2>1, <3>1, <3>2
    <2> QED BY <2>1, <2>2, <2>3 DEF RekeyStep
  <1>8. CASE RecvMsg3(e) \/ RecvData(e)
    <2>1. /\ CanRead(e) /\ Take(e) /\ NextFrame(e).t \in {"MSG3", "DATA"}
          /\ UNCHANGED <<rekeying, stream>>
      BY <1>8 DEF RecvMsg3, RecvData, Opens, Accepts
    <2>2. /\ Unread(p, "REKEY")' = Unread(p, "REKEY")
          /\ Unread(p, "REKEY_ACK")' = Unread(p, "REKEY_ACK")
      BY <1>6, <2>1
    <2>3. \A t : Unread(e, t)' = Unread(e, t)
      BY <1>2, <2>1, UnreadSame
    <2> QED BY <2>1, <2>2, <2>3 DEF RekeyStep
  <1>9. CASE RecvRekeyAck(e)
    <2>1. /\ CanRead(e) /\ Take(e) /\ NextFrame(e).t = "REKEY_ACK" /\ UNCHANGED stream
          /\ rekeying' = [rekeying EXCEPT ![e] = FALSE]
      BY <1>9 DEF RecvRekeyAck, Opens
    <2>2. rekeying'[p] = rekeying[p]
      BY <1>1, <2>1 DEF TypeOK
    <2>3. /\ Unread(p, "REKEY")' = Unread(p, "REKEY")
          /\ Unread(p, "REKEY_ACK")' = Unread(p, "REKEY_ACK") \ {rcvd[e] + 1}
          /\ rcvd[e] + 1 \in Unread(p, "REKEY_ACK")
      BY <1>6, <2>1
    <2>4. \A t : Unread(e, t)' = Unread(e, t)
      BY <1>2, <2>1, UnreadSame
    <2> QED BY <2>2, <2>3, <2>4 DEF RekeyStep
  <1>10. CASE RecvRekey(e)
    <2> DEFINE f == Control(txKey[e], "REKEY_ACK")
    <2>1. /\ CanRead(e) /\ Take(e) /\ NextFrame(e).t = "REKEY" /\ UNCHANGED rekeying
          /\ Puts(e, f)
      BY <1>10 DEF RecvRekey, Opens, Write
    <2>2. /\ Unread(p, "REKEY_ACK")' = Unread(p, "REKEY_ACK")
          /\ Unread(p, "REKEY")' = Unread(p, "REKEY") \ {rcvd[e] + 1}
          /\ rcvd[e] + 1 \in Unread(p, "REKEY")
      BY <1>6, <2>1
    <2>3. f \in Frame /\ f.t = "REKEY_ACK"
      BY <1>1, ControlFacts DEF CtrlType
    <2> HIDE DEF f
    <2>4. /\ Unread(e, "REKEY")' = Unread(e, "REKEY")
          /\ \E x : Unread(e, "REKEY_ACK")' \subseteq Unread(e, "REKEY_ACK") \cup {x}
      BY <1>1, <1>2, <2>1, <2>3, UnreadWrite
    <2> QED BY <2>1, <2>2, <2>4 DEF RekeyStep
  <1>11. CASE Rekey(e)
    <2> DEFINE f == Control(txKey[e], "REKEY")
    <2>1. /\ ~rekeying[e] /\ rekeying' = [rekeying EXCEPT ![e] = TRUE]
          /\ UNCHANGED rcvd /\ Puts(e, f)
      BY <1>11 DEF Rekey, rekey, Write
    <2>2. rekeying'[p] = rekeying[p] /\ rekeying'[e]
      BY <1>1, <2>1 DEF TypeOK
    <2>3. f \in Frame /\ f.t = "REKEY"
      BY <1>1, ControlFacts DEF CtrlType
    <2> HIDE DEF f
    <2>4. /\ Unread(e, "REKEY_ACK")' = Unread(e, "REKEY_ACK")
          /\ \E x : Unread(e, "REKEY")' \subseteq Unread(e, "REKEY") \cup {x}
      BY <1>1, <1>2, <2>1, <2>3, UnreadWrite
    <2> QED BY <1>5, <2>1, <2>2, <2>4 DEF RekeyStep
  <1>12. CASE \E b \in Body : Send(e, b)
    <2>1. PICK b \in Body : Send(e, b)
      BY <1>12
    <2> DEFINE f == seal(txKey[e], "DATA", txSeq[e] + 1, b)
               g == Control(txKey[e], "REKEY")
    <2>2. /\ UNCHANGED rcvd
          /\ \/ Puts(e, f) /\ UNCHANGED rekeying
             \/ /\ ~rekeying[e] /\ Write2(e, f, g)
                /\ rekeying' = [rekeying EXCEPT ![e] = TRUE]
      BY <2>1 DEF Send, AutoRekeyDue, Write
    <2>3. f \in Frame /\ f.t = "DATA" /\ g \in Frame /\ g.t = "REKEY"
      BY <1>1, ControlFacts DEF CtrlType
    <2> HIDE DEF f, g
    <2>4. CASE Puts(e, f) /\ UNCHANGED rekeying
      <3>1. /\ Unread(e, "REKEY")' = Unread(e, "REKEY")
            /\ Unread(e, "REKEY_ACK")' = Unread(e, "REKEY_ACK")
        BY <1>1, <1>2, <2>3, <2>4, UnreadWrite
      <3> QED BY <1>5, <2>2, <2>4, <3>1 DEF RekeyStep
    <2>5. CASE /\ ~rekeying[e] /\ Write2(e, f, g)
               /\ rekeying' = [rekeying EXCEPT ![e] = TRUE]
      <3>1. rekeying'[p] = rekeying[p] /\ rekeying'[e]
        BY <1>1, <2>5 DEF TypeOK
      <3>2. /\ Unread(e, "REKEY_ACK")' = Unread(e, "REKEY_ACK")
            /\ \E x : Unread(e, "REKEY")' \subseteq Unread(e, "REKEY") \cup {x}
        BY <1>1, <1>2, <2>3, <2>5, UnreadWrite2
      <3> QED BY <1>5, <2>2, <2>5, <3>1, <3>2 DEF RekeyStep
    <2> QED BY <2>2, <2>4, <2>5
  <1>13. CASE Close(e)
    <2> DEFINE f == Control(txKey[e], "CLOSE")
    <2>1. /\ stream'[e] = Append(stream[e], f) \/ stream'[e] = stream[e]
          /\ UNCHANGED <<rcvd, rekeying>>
      BY <1>1, <1>13 DEF Close, sessionVars, TypeOK
    <2>2. f \in Frame /\ f.t = "CLOSE"
      BY <1>1, ControlFacts DEF CtrlType
    <2> HIDE DEF f
    <2>3. /\ Unread(e, "REKEY")' = Unread(e, "REKEY")
          /\ Unread(e, "REKEY_ACK")' = Unread(e, "REKEY_ACK")
      <3>1. CASE stream'[e] = stream[e]
        BY <1>2, <3>1, UnreadSame
      <3>2. CASE stream'[e] = Append(stream[e], f)
        <4>1. \A t : Unread(e, t)' = Unread(e, t)
                       \cup (IF f.t = t THEN {Len(stream[e]) + 1} ELSE {})
          BY <1>1, <1>2, <2>2, <3>2, UnreadAppend
        <4> QED BY <2>2, <4>1
      <3> QED BY <2>1, <3>1, <3>2
    <2> QED BY <1>5, <2>1, <2>3 DEF RekeyStep
  <1>14. CASE PeerEnd(e)
    <2>1. UNCHANGED <<rcvd, rekeying, stream>>
      BY <1>14 DEF PeerEnd, sessionVars
    <2>2. \A t : Unread(e, t)' = Unread(e, t)
      BY <1>2, <2>1, UnreadSame
    <2> QED BY <1>5, <2>1, <2>2 DEF RekeyStep
  <1> QED
    BY <1>3, <1>4, <1>7, <1>8, <1>9, <1>10, <1>11, <1>12, <1>13, <1>14
       DEF Acts, Receive, UserCall, SocketEvent

(* Between endpoints that run this code a REKEY_ACK always answers the one  *)
(* rekey its receiver has under way, however the rekeys of both sides cross *)
(* (secureConnection.js 110-115, 202-207).                                  *)
THEOREM OneRekeyAlways == Spec => []OneRekeyAtATime
  <1>1. Init => OneRekeyAtATime
    <2> SUFFICES ASSUME Init PROVE OneRekeyAtATime
      OBVIOUS
    <2>1. ASSUME NEW d \in End, NEW t \in {"REKEY", "REKEY_ACK"} PROVE Unread(d, t) = {}
      <3>1. \A i \in 1..Len(stream[d]) : stream[d][i].t # t
        BY <2>1 DEF Init, Signed
      <3>2. rcvd[Peer(d)] = 0
        BY PeerType DEF Init
      <3> QED BY <3>1, <3>2 DEF Unread
    <2>2. \A e \in End : Pending(e) = {}
      BY <2>1, PeerType DEF Pending
    <2> QED BY <2>2, RekeyAlternative DEF RekeyOK, Single
  <1>2. ASSUME IInv, OneRekeyAtATime, [Next]_vars PROVE OneRekeyAtATime'
    <2>1. CASE Next
      <3>1. PICK e \in End : Acts(e)
        BY <2>1, NextActs
      <3>2. Idle(Peer(e)) /\ EndStep(e)
        BY <1>2, <3>1, ActStepOK, ActEndStep DEF StepOK
      <3>3. \A x \in End : x = e \/ x = Peer(e)
        BY DEF End, Peer
      <3>4. ASSUME BothOpen' PROVE \A x \in End : RekeyOK(x)'
        <4>1. BothOpen /\ ~closed'[e]
          BY <3>2, <3>3, <3>4 DEF BothOpen, Idle, EndStep
        <4>2. RekeyStep(e)
          BY <1>2, <3>1, <3>2, <4>1, ActRekeyStep DEF BothOpen
        <4>3. RekeyOK(e) /\ RekeyOK(Peer(e))
          BY <1>2, <4>1, RekeyAlternative, PeerType
        <4> QED BY <3>3, <4>2, <4>3, RekeyStepKeeps
      <3>5. BothOpen' => \A x \in End : RekeyOK(x)'
        BY <3>4
      <3> QED BY <3>5, RekeyAlternative
    <2>2. CASE UNCHANGED vars
      BY <1>2, <2>2 DEF vars, OneRekeyAtATime, Unread
    <2> QED BY <1>2, <2>1, <2>2
  <1> QED BY <1>1, <1>2, Inductive, PTL DEF Spec

-----------------------------------------------------------------------------
(* Stale frames.  Of the peer nothing is assumed here. *)

OwnHs(q) == IF q = "I" THEN {"MSG1", "MSG3"} ELSE {"MSG2"}

(* What q writes it would not take itself: its messages of the handshake    *)
(* are not those it expects, and its frames are sealed for the other        *)
(* direction.                                                               *)
OwnFrame(q, f) ==
    \/ f.t \in OwnHs(q)
    \/ f.t \notin HsType /\ f.key.info = FirstKey(q).info

OwnInv(q) ==
    /\ phase[q] \in {"wait3", "secure"} => txKey[q].info = FirstKey(q).info
    /\ \A i \in 1..Len(stream[q]) : OwnFrame(q, stream[q][i])

(* A frame that an endpoint at sequence number seq and key generation gen   *)
(* does not take again: of the handshake, delivered, or sealed with a key   *)
(* that it has left behind.                                                 *)
Past(f, seq, gen) ==
    \/ f.t \in HsType
    \/ f.t = "DATA" /\ f.seq <= seq
    \/ f.t \in {"REKEY", "REKEY_ACK"} /\ f.key.gen < gen

TakenInv(q) ==
    LET p == Peer(q) IN
    ~closed[q] =>
      /\ phase[q] \in {"wait1", "wait2"} => rcvd[q] = 0
      /\ phase[q] = "wait3" => rcvd[q] = 1 /\ stream[p][1].t = "MSG1"
      /\ phase[q] \in {"wait3", "secure"} => rxKey[q].info = FirstKey(p).info
      /\ \A i \in 1..rcvd[q] : Past(stream[p][i], rxSeq[q], rxKey[q].gen)

StaleInv == IInv /\ \A q \in End \ Misbehaving : OwnInv(q) /\ TakenInv(q)

(* A direction only grows, and what q adds of its own accord is its own.    *)
Grows(e) ==
    /\ Len(stream[e]) <= Len(stream'[e])
    /\ \A i \in 1..Len(stream[e]) : stream'[e][i] = stream[e][i]

AddsOwn(e) ==
    \A i \in (Len(stream[e]) + 1)..Len(stream'[e]) : OwnFrame(e, stream'[e][i])

LEMMA GrowsSame ==
  ASSUME TypeOK, NEW e \in End, stream'[e] = stream[e]
  PROVE  Grows(e) /\ AddsOwn(e)
  BY LenTypes DEF Grows, AddsOwn

LEMMA GrowsAppend ==
  ASSUME TypeOK, NEW e \in End, NEW f \in Frame, stream'[e] = Append(stream[e], f)
  PROVE  Grows(e) /\ (OwnFrame(e, f) => AddsOwn(e))
  <1>1. /\ Len(stream'[e]) = Len(stream[e]) + 1 /\ Len(stream[e]) \in Nat
        /\ \A i \in 1..Len(stream[e]) : stream'[e][i] = stream[e][i]
        /\ stream'[e][Len(stream[e]) + 1] = f
    BY LenTypes, AppendFacts
  <1>2. \A i \in (Len(stream[e]) + 1)..Len(stream'[e]) : i = Len(stream[e]) + 1
    BY <1>1
  <1> QED BY <1>1, <1>2 DEF Grows, AddsOwn

LEMMA GrowsPuts ==
  ASSUME TypeOK, NEW e \in End, NEW f \in Frame, Puts(e, f)
  PROVE  Grows(e) /\ (OwnFrame(e, f) => AddsOwn(e))
  <1>1. stream'[e] = Append(stream[e], f) \/ stream'[e] = stream[e]
    BY DEF TypeOK, Puts
  <1> QED BY <1>1, GrowsSame, GrowsAppend

LEMMA GrowsWrite2 ==
  ASSUME TypeOK, NEW e \in End, NEW f \in Frame, NEW g \in Frame, Write2(e, f, g)
  PROVE  Grows(e) /\ (OwnFrame(e, f) /\ OwnFrame(e, g) => AddsOwn(e))
  <1> DEFINE s == Append(stream[e], f)
             n == Len(stream[e])
  <1>1. stream'[e] = Append(s, g) \/ stream'[e] = stream[e]
    BY DEF TypeOK, Write2
  <1>2. CASE stream'[e] = Append(s, g)
    <2>1. /\ s \in Seq(Frame) /\ Len(s) = n + 1 /\ n \in Nat /\ s[n + 1] = f
          /\ \A i \in 1..n : s[i] = stream[e][i]
      BY LenTypes, AppendFacts
    <2> HIDE DEF s
    <2>2. /\ Len(Append(s, g)) = Len(s) + 1
          /\ \A i \in 1..Len(s) : Append(s, g)[i] = s[i]
          /\ Append(s, g)[Len(s) + 1] = g
      BY <2>1, AppendFacts
    <2>3. /\ Len(stream'[e]) = n + 2
          /\ \A i \in 1..n : stream'[e][i] = stream[e][i]
          /\ stream'[e][n + 1] = f /\ stream'[e][n + 2] = g
      BY <1>2, <2>1, <2>2
    <2>4. \A i \in (n + 1)..Len(stream'[e]) : i = n + 1 \/ i = n + 2
      BY <2>1, <2>3
    <2> QED BY <2>1, <2>3, <2>4 DEF Grows, AddsOwn
  <1> QED BY <1>1, <1>2, GrowsSame

(* What an endpoint whose session is set seals is its own. *)
LEMMA SealsOwn ==
  ASSUME TypeOK, NEW e \in End
  PROVE  /\ \A t \in CtrlType :
              /\ Control(txKey[e], t) \in Frame
              /\ OwnInv(e) /\ phase[e] = "secure" => OwnFrame(e, Control(txKey[e], t))
         /\ \A b \in Body :
              /\ seal(txKey[e], "DATA", txSeq[e] + 1, b) \in Frame
              /\ OwnInv(e) /\ phase[e] = "secure" =>
                   OwnFrame(e, seal(txKey[e], "DATA", txSeq[e] + 1, b))
  <1>1. /\ \A t : Control(txKey[e], t).t = t /\ Control(txKey[e], t).key = txKey[e]
        /\ \A b : /\ seal(txKey[e], "DATA", txSeq[e] + 1, b).t = "DATA"
                  /\ seal(txKey[e], "DATA", txSeq[e] + 1, b).key = txKey[e]
    BY DEF Control, seal
  <1>2. \A t \in CtrlType \cup {"DATA"} : t \notin HsType
    BY DEF CtrlType, HsType
  <1> QED BY <1>1, <1>2, ControlFacts DEF OwnInv, OwnFrame

LEMMA ActGrows ==
  ASSUME IInv, NEW e \in End, Acts(e)
  PROVE  Grows(e) /\ (e \notin Misbehaving /\ OwnInv(e) => AddsOwn(e))
  <1>1. TypeOK /\ PhaseInv
    BY DEF IInv
  <1>2. CASE RecvMsg1(e)
    <2>1. e = "R"
      BY <1>1, <1>2, PhaseOf DEF RecvMsg1
    <2>2. Puts(e, Signed("MSG2", Transcript2))
      BY <1>2 DEF RecvMsg1, Write
    <2>3. OwnFrame(e, Signed("MSG2", Transcript2))
      BY <2>1 DEF OwnFrame, OwnHs, Signed
    <2> QED BY <1>1, <2>2, <2>3, FrameTypes, GrowsPuts
  <1>3. CASE RecvMsg2(e)
    <2>1. e = "I"
      BY <1>1, <1>3, PhaseOf DEF RecvMsg2
    <2>2. Puts(e, Signed("MSG3", Transcript3))
      BY <1>3 DEF RecvMsg2
    <2>3. OwnFrame(e, Signed("MSG3", Transcript3))
      BY <2>1 DEF OwnFrame, OwnHs, Signed
    <2> QED BY <1>1, <2>2, <2>3, FrameTypes, GrowsPuts
  <1>4. CASE RecvRekey(e) \/ Rekey(e)
    <2>1. PICK t \in {"REKEY", "REKEY_ACK"} : Puts(e, Control(txKey[e], t))
      BY <1>4 DEF RecvRekey, Rekey, rekey, Write
    <2>2. phase[e] = "secure" /\ t \in CtrlType
      BY <1>4 DEF RecvRekey, Rekey, rekey, Opens, CtrlType
    <2> QED BY <1>1, <2>1, <2>2, SealsOwn, GrowsPuts
  <1>5. CASE \E b \in Body : Send(e, b)
    <2>1. PICK b \in Body : Send(e, b)
      BY <1>5
    <2> DEFINE f == seal(txKey[e], "DATA", txSeq[e] + 1, b)
               g == Control(txKey[e], "REKEY")
    <2>2. phase[e] = "secure" /\ (Puts(e, f) \/ Write2(e, f, g))
      BY <2>1 DEF Send, Write
    <2>3. /\ f \in Frame /\ g \in Frame
          /\ OwnInv(e) => OwnFrame(e, f) /\ OwnFrame(e, g)
      BY <1>1, <2>2, SealsOwn DEF CtrlType
    <2> HIDE DEF f, g
    <2> QED BY <1>1, <2>2, <2>3, GrowsPuts, GrowsWrite2
  <1>6. CASE Close(e)
    <2>1. \/ stream'[e] = stream[e]
          \/ phase[e] = "secure" /\ stream'[e] = Append(stream[e], Control(txKey[e], "CLOSE"))
      BY <1>1, <1>6 DEF Close, TypeOK
    <2> QED BY <1>1, <2>1, SealsOwn, GrowsSame, GrowsAppend DEF CtrlType
  <1>7. CASE Misbehave(e)
    <2>1. PICK f \in Forged \cup UNION {Frames(x) : x \in End} :
            stream' = [stream EXCEPT ![e] = Append(@, f)]
      BY <1>7 DEF Misbehave
    <2>2. f \in Frame
      <3>1. \A x \in End : Frames(x) \subseteq Frame
        BY <1>1, LenTypes DEF Frames
      <3> QED BY <2>1, <3>1, ConstantsAssumption
    <2>3. stream'[e] = Append(stream[e], f)
      BY <1>1, <2>1 DEF TypeOK
    <2> QED BY <1>1, <1>7, <2>2, <2>3, GrowsAppend DEF Misbehave
  <1>8. CASE \/ RecvMsg3(e) \/ RecvData(e) \/ RecvRekeyAck(e) \/ RecvClose(e) \/ RecvBad(e)
             \/ RecvOversize(e) \/ RefuseFrame(e) \/ HandshakeTimeout(e)
             \/ SocketEvent(e) \/ SocketError(e)
    <2>1. stream' = stream
      BY <1>8 DEF RecvMsg3, RecvData, RecvRekeyAck, RecvClose, RecvBad, RecvOversize,
         RefuseFrame, HandshakeTimeout, SocketEvent, ErrorEvent, PeerEnd, SocketClose,
         SocketError
    <2> QED BY <1>1, <2>1, GrowsSame
  <1> QED
    BY <1>2, <1>3, <1>4, <1>5, <1>6, <1>7, <1>8 DEF Acts, Receive, UserCall

LEMMA FirstKeys ==
  /\ kI.info # kR.info /\ NoKey.info \notin {kI.info, kR.info}
  /\ \A k \in Key : /\ deriveRekey(k).info = k.info
                    /\ deriveRekey(k).gen = k.gen + 1 /\ k.gen \in Nat
  BY DEF kI, kR, NoKey, deriveRekey, Key

LEMMA OwnStep ==
  ASSUME IInv, NEW e \in End, Acts(e), e \notin Misbehaving, OwnInv(e)
  PROVE  OwnInv(e)'
  <1>1. TypeOK /\ PhaseInv /\ Grows(e) /\ AddsOwn(e)
    BY ActGrows DEF IInv
  <1>2. phase'[e] \in {"wait3", "secure"} => txKey'[e].info = FirstKey(e).info
    <2>1. CASE RecvMsg1(e)
      <3>1. e = "R" /\ txKey'[e] = kR
        BY <1>1, <2>1, PhaseOf DEF RecvMsg1, TypeOK
      <3> QED BY <3>1 DEF FirstKey
    <2>2. CASE RecvMsg2(e)
      <3>1. e = "I" /\ txKey'[e] = kI
        BY <1>1, <2>2, PhaseOf DEF RecvMsg2, TypeOK
      <3> QED BY <3>1 DEF FirstKey
    <2>3. CASE RecvMsg3(e)
      BY <2>3 DEF RecvMsg3, OwnInv
    <2>4. CASE RecvRekey(e) \/ Rekey(e) \/ \E b \in Body : Send(e, b)
      <3>1. /\ phase[e] = "secure"
            /\ txKey'[e] = txKey[e] \/ txKey'[e] = deriveRekey(txKey[e])
        BY <1>1, <2>4 DEF RecvRekey, Rekey, rekey, Send, Opens, TypeOK
      <3>2. txKey[e] \in Key
        BY <1>1, LenTypes
      <3> QED BY <3>1, <3>2, FirstKeys DEF OwnInv
    <2>5. CASE UNCHANGED <<phase, txKey>>
      BY <2>5 DEF OwnInv
    <2>6. \/ RecvMsg1(e) \/ RecvMsg2(e) \/ RecvMsg3(e)
          \/ RecvRekey(e) \/ Rekey(e) \/ (\E b \in Body : Send(e, b))
          \/ UNCHANGED <<phase, txKey>>
      BY DEF Acts, Receive, UserCall, RecvData, RecvRekeyAck, RecvClose, RecvBad,
         RecvOversize, RefuseFrame, Close, HandshakeTimeout, SocketEvent, ErrorEvent,
         PeerEnd, SocketClose, SocketError, Misbehave, sessionVars
    <2> QED BY <2>1, <2>2, <2>3, <2>4, <2>5, <2>6
  <1>3. ASSUME NEW i \in 1..Len(stream'[e]) PROVE OwnFrame(e, stream'[e][i])
    <2>1. Len(stream[e]) \in Nat
      BY <1>1, LenTypes
    <2>2. i \in 1..Len(stream[e]) \/ i \in (Len(stream[e]) + 1)..Len(stream'[e])
      BY <2>1
    <2> QED BY <1>1, <2>2 DEF OwnInv, Grows, AddsOwn
  <1> QED BY <1>2, <1>3 DEF OwnInv

(* The peer of q writes, or neither does. *)
LEMMA TakenIdle ==
  ASSUME TypeOK, NEW q \in End, Idle(q), Grows(Peer(q)), TakenInv(q)
  PROVE  TakenInv(q)'
  <1> DEFINE p == Peer(q)
  <1>1. rcvd[q] \in Nat /\ rcvd[q] <= Len(stream[p]) /\ Len(stream[p]) \in Nat
    BY LenTypes, PeerType
  <1>2. \A i \in 1..rcvd[q] : stream'[p][i] = stream[p][i]
    BY <1>1 DEF Grows
  <1> QED BY <1>2 DEF TakenInv, Idle

(* q takes a frame and does not go back. *)
LEMMA TakenMore ==
  ASSUME TypeOK, TypeOK', NEW q \in End, CanRead(q), Take(q), TakenInv(q), ~closed[q],
         stream'[Peer(q)] = stream[Peer(q)],
         Past(NextFrame(q), rxSeq'[q], rxKey'[q].gen),
         rxSeq[q] <= rxSeq'[q], rxKey[q].gen <= rxKey'[q].gen
  PROVE  /\ rcvd'[q] = rcvd[q] + 1
         /\ \A i \in 1..rcvd'[q] : Past(stream'[Peer(q)][i], rxSeq'[q], rxKey'[q].gen)
  <1> DEFINE p == Peer(q)
  <1>1. /\ rcvd'[q] = rcvd[q] + 1 /\ rcvd[q] \in Nat /\ rcvd[q] + 1 <= Len(stream[p])
        /\ Len(stream[p]) \in Nat /\ rxSeq[q] \in Nat /\ rxKey[q] \in Key
    BY TakeCount, ReadArrives, NextFrameType, LenTypes, PeerType
  <1>2. rxSeq'[q] \in Nat /\ rxKey'[q] \in Key
    BY DEF TypeOK
  <1>3. rxKey[q].gen \in Nat /\ rxKey'[q].gen \in Nat
    BY <1>1, <1>2, FirstKeys
  <1>4. ASSUME NEW i \in 1..rcvd[q]
        PROVE  Past(stream[p][i], rxSeq'[q], rxKey'[q].gen)
    <2> DEFINE f == stream[p][i]
    <2>1. f \in Frame
      BY <1>1, PeerType, LenTypes
    <2>2. f.seq \in Nat /\ f.key \in Key
      BY <2>1, FrameFields
    <2>3. f.key.gen \in Nat
      BY <2>2, FirstKeys
    <2>4. Past(f, rxSeq[q], rxKey[q].gen)
      BY DEF TakenInv
    <2> SUFFICES Past(f, rxSeq'[q], rxKey'[q].gen)
      OBVIOUS
    <2> HIDE DEF f
    <2>5. CASE f.t = "DATA" /\ f.seq <= rxSeq[q]
      <3>1. f.seq <= rxSeq'[q]
        BY <1>1, <1>2, <2>2, <2>5
      <3> QED BY <2>5, <3>1 DEF Past
    <2>6. CASE f.t \in {"REKEY", "REKEY_ACK"} /\ f.key.gen < rxKey[q].gen
      <3>1. f.key.gen < rxKey'[q].gen
        BY <1>3, <2>3, <2>6
      <3> QED BY <2>6, <3>1 DEF Past
    <2>7. CASE f.t \in HsType
      BY <2>7 DEF Past
    <2> QED BY <2>4, <2>5, <2>6, <2>7 DEF Past
  <1>5. ASSUME NEW i \in 1..rcvd'[q]
        PROVE  Past(stream'[p][i], rxSeq'[q], rxKey'[q].gen)
    <2>1. i \in 1..rcvd[q] \/ i = rcvd[q] + 1
      BY <1>1
    <2> QED BY <1>4, <2>1 DEF NextFrame
  <1> QED BY <1>1, <1>5

LEMMA TakenStep ==
  ASSUME IInv, TypeOK', NEW e \in End, Acts(e), TakenInv(e),
         stream'[Peer(e)] = stream[Peer(e)], EndStep(e)
  PROVE  TakenInv(e)'
  <1> SUFFICES ASSUME ~closed'[e] PROVE TakenInv(e)'
    BY DEF TakenInv
  <1> DEFINE p == Peer(e)
             f == NextFrame(e)
             Taken == /\ rcvd'[e] = rcvd[e] + 1
                      /\ \A i \in 1..rcvd'[e] :
                           Past(stream'[p][i], rxSeq'[e], rxKey'[e].gen)
  <1>1. /\ TypeOK /\ PhaseInv /\ p \in End /\ ~closed[e]
        /\ rxSeq[e] \in Nat /\ rxKey[e] \in Key /\ rxKey[e].gen \in Nat
    BY Unpack, LenTypes, FirstKeys DEF EndStep
  <1>2. ASSUME CanRead(e), Take(e), f.t \in HsType, rxSeq'[e] = rxSeq[e],
               rxKey[e].gen <= rxKey'[e].gen
        PROVE  Taken
    <2>1. Past(f, rxSeq'[e], rxKey'[e].gen)
      BY <1>2 DEF Past
    <2>2. rxSeq[e] <= rxSeq'[e]
      BY <1>1, <1>2
    <2> HIDE DEF f
    <2> QED BY <1>1, <1>2, <2>1, <2>2, TakenMore DEF f
  <1>3. CASE RecvMsg1(e)
    <2>1. /\ CanRead(e) /\ Take(e) /\ f.t = "MSG1" /\ phase[e] = "wait1" /\ rxSeq' = rxSeq
          /\ rxKey'[e] = kI /\ phase'[e] = "wait3"
      BY <1>1, <1>3 DEF RecvMsg1, Accepts, TypeOK
    <2>2. e = "R" /\ rcvd[e] = 0
      BY <1>1, <2>1, PhaseOf DEF TakenInv
    <2>3. rcvd'[e] = 1 /\ stream'[p][1].t = "MSG1"
      BY <1>1, <2>1, <2>2, TakeCount DEF NextFrame
    <2>4. rxKey'[e].info = FirstKey(p).info
      BY <2>1, <2>2 DEF FirstKey, Peer
    <2>5. \A i \in 1..rcvd'[e] : Past(stream'[p][i], rxSeq'[e], rxKey'[e].gen)
      BY <2>3 DEF Past, HsType
    <2> QED BY <2>1, <2>3, <2>4, <2>5 DEF TakenInv
  <1>4. CASE RecvMsg2(e)
    <2>1. /\ CanRead(e) /\ Take(e) /\ f.t = "MSG2" /\ phase[e] = "wait2" /\ rxSeq' = rxSeq
          /\ rxKey'[e] = kR /\ phase'[e] = "secure"
      BY <1>1, <1>4 DEF RecvMsg2, Accepts, TypeOK
    <2>2. e = "I" /\ rcvd[e] = 0
      BY <1>1, <2>1, PhaseOf DEF TakenInv
    <2>3. rcvd'[e] = 1 /\ stream'[p][1].t = "MSG2"
      BY <1>1, <2>1, <2>2, TakeCount DEF NextFrame
    <2>4. rxKey'[e].info = FirstKey(p).info
      BY <2>1, <2>2 DEF FirstKey, Peer
    <2>5. \A i \in 1..rcvd'[e] : Past(stream'[p][i], rxSeq'[e], rxKey'[e].gen)
      BY <2>3 DEF Past, HsType
    <2> QED BY <2>1, <2>4, <2>5 DEF TakenInv
  <1>5. CASE RecvMsg3(e)
    <2>1. /\ CanRead(e) /\ Take(e) /\ f.t = "MSG3" /\ phase[e] = "wait3"
          /\ rxSeq' = rxSeq /\ rxKey' = rxKey /\ phase'[e] = "secure"
      BY <1>1, <1>5 DEF RecvMsg3, Accepts, TypeOK
    <2>2. Taken
      BY <1>1, <1>2, <2>1 DEF HsType
    <2>3. rxKey'[e].info = FirstKey(p).info
      BY <1>1, <2>1 DEF TakenInv
    <2> QED BY <2>1, <2>2, <2>3 DEF TakenInv
  <1>6. CASE RecvData(e)
    <2>1. /\ CanRead(e) /\ Take(e) /\ f.t = "DATA" /\ phase[e] = "secure"
          /\ phase' = phase /\ rxKey' = rxKey
          /\ f.seq > rxSeq[e] /\ rxSeq' = [rxSeq EXCEPT ![e] = f.seq]
      <3>1. ASSUME NEW why, Fail(e, why) PROVE FALSE
        BY <1>1, <3>1 DEF Fail, TypeOK
      <3> QED BY <1>6, <3>1, RecvDataCases
    <2>2. rxSeq'[e] = f.seq /\ f.seq \in Nat
      <3>1. f \in Frame
        BY <1>1, <2>1, ReadArrives, NextFrameType
      <3> QED BY <1>1, <2>1, <3>1, FrameFields DEF TypeOK
    <2> HIDE DEF f
    <2>3. Past(f, rxSeq'[e], rxKey'[e].gen) /\ rxSeq[e] <= rxSeq'[e]
      BY <1>1, <2>1, <2>2 DEF Past
    <2>4. rxKey[e].gen <= rxKey'[e].gen
      BY <1>1, <2>1
    <2>5. Taken
      BY <1>1, <2>1, <2>3, <2>4, TakenMore DEF f
    <2> QED BY <1>1, <2>1, <2>5 DEF TakenInv
  <1>7. CASE RecvRekey(e) \/ RecvRekeyAck(e)
    <2>1. /\ CanRead(e) /\ Take(e) /\ f.t \in {"REKEY", "REKEY_ACK"} /\ phase[e] = "secure"
          /\ f.key = rxKey[e] /\ phase' = phase /\ rxSeq' = rxSeq
          /\ rxKey'[e] = deriveRekey(rxKey[e])
      BY <1>1, <1>7 DEF RecvRekey, RecvRekeyAck, Opens, TypeOK
    <2>2. /\ rxKey'[e].gen = rxKey[e].gen + 1 /\ rxKey'[e].info = rxKey[e].info
      BY <1>1, <2>1, FirstKeys
    <2> HIDE DEF f
    <2>3. Past(f, rxSeq'[e], rxKey'[e].gen) /\ rxSeq[e] <= rxSeq'[e]
      BY <1>1, <2>1, <2>2 DEF Past
    <2>4. rxKey[e].gen <= rxKey'[e].gen
      BY <1>1, <2>2
    <2>5. Taken
      BY <1>1, <2>1, <2>3, <2>4, TakenMore DEF f
    <2> QED BY <1>1, <2>1, <2>2, <2>5 DEF TakenInv
  <1>8. CASE \/ RecvBad(e) \/ RecvOversize(e) \/ RefuseFrame(e) \/ HandshakeTimeout(e)
             \/ ErrorEvent(e) \/ RecvClose(e) \/ SocketError(e) \/ SocketClose(e)
    <2>1. closed'[e]
      BY <1>1, <1>8 DEF RecvBad, RecvOversize, RefuseFrame, HandshakeTimeout,
           ErrorEvent, RecvClose, SocketError, SocketClose, Fail, TypeOK
    <2> QED BY <2>1
  <1>9. CASE UserCall(e) \/ PeerEnd(e) \/ Misbehave(e)
    <2>1. UNCHANGED <<rcvd, phase, rxKey, rxSeq>>
      BY <1>9 DEF UserCall, Send, Rekey, rekey, Close, PeerEnd, Misbehave, sessionVars
    <2> QED BY <1>1, <2>1 DEF TakenInv
  <1> QED
    BY <1>3, <1>4, <1>5, <1>6, <1>7, <1>8, <1>9 DEF Acts, Receive, SocketEvent

LEMMA StaleInductive == Spec => []StaleInv
  <1>1. Init => StaleInv
    <2> SUFFICES ASSUME Init PROVE StaleInv
      OBVIOUS
    <2>1. \A q \in End : OwnInv(q)
      BY DEF Init, OwnInv, OwnFrame, OwnHs, Signed
    <2>2. \A q \in End : TakenInv(q)
      BY DEF Init, TakenInv
    <2> QED BY <2>1, <2>2, InitIInv DEF StaleInv
  <1>2. ASSUME StaleInv, [Next]_vars PROVE StaleInv'
    <2>1. IInv' /\ IInv
      BY <1>2, NextIInv DEF StaleInv
    <2>2. CASE Next
      <3>1. PICK e \in End : Acts(e)
        BY <2>2, NextActs
      <3>2. /\ TypeOK /\ TypeOK' /\ Idle(Peer(e)) /\ EndStep(e) /\ Grows(e)
        BY <2>1, <3>1, ActStepOK, ActEndStep, ActGrows DEF StepOK, IInv
      <3>3. \A x \in End : x = e \/ (x = Peer(e) /\ Peer(x) = e)
        BY DEF End, Peer
      <3>4. e \notin Misbehaving => OwnInv(e)' /\ TakenInv(e)'
        BY <1>2, <2>1, <3>1, <3>2, OwnStep, TakenStep DEF StaleInv, Idle
      <3>5. Peer(e) \notin Misbehaving => OwnInv(Peer(e))' /\ TakenInv(Peer(e))'
        <4>1. OwnInv(Peer(e)) => OwnInv(Peer(e))'
          BY <3>2 DEF Idle, OwnInv
        <4>2. TakenInv(Peer(e)) => TakenInv(Peer(e))'
          BY <3>2, PeerType, TakenIdle
        <4> QED BY <1>2, <4>1, <4>2, PeerType DEF StaleInv
      <3> QED BY <2>1, <3>3, <3>4, <3>5 DEF StaleInv
    <2>3. CASE UNCHANGED vars
      <3>1. \A q \in End : (OwnInv(q) => OwnInv(q)') /\ (TakenInv(q) => TakenInv(q)')
        BY <2>3 DEF vars, OwnInv, TakenInv
      <3> QED BY <1>2, <2>1, <3>1 DEF StaleInv
    <2> QED BY <1>2, <2>2, <2>3
  <1> QED BY <1>1, <1>2, PTL DEF Spec

(* The frame e would take next is none of its own, and if it came before it *)
(* is past.                                                                 *)
LEMMA StaleFrames ==
  ASSUME StaleInv, NEW e \in End, e \notin Misbehaving, CanRead(e), Stale(e), ~closed[e],
         \/ phase[e] = "wait1" /\ NextFrame(e).t = "MSG1"
         \/ phase[e] = "wait2" /\ NextFrame(e).t = "MSG2"
         \/ phase[e] = "wait3" /\ NextFrame(e).t = "MSG3"
         \/ /\ phase[e] = "secure" /\ NextFrame(e).key = rxKey[e]
            /\ NextFrame(e).t \in {"DATA", "REKEY", "REKEY_ACK"}
  PROVE  phase[e] = "secure" /\ NextFrame(e).t = "DATA" /\ NextFrame(e).seq <= rxSeq[e]
  <1> DEFINE p == Peer(e)
             f == NextFrame(e)
  <1>1. /\ TypeOK /\ PhaseInv /\ OwnInv(e) /\ TakenInv(e) /\ p \in End
        /\ rxKey[e].gen \in Nat /\ rcvd[e] \in Nat
    BY PeerType, LenTypes, FirstKeys DEF StaleInv, IInv
  <1>2. ~OwnFrame(e, f)
    <2>1. CASE phase[e] # "secure"
      <3>1. f.t \in HsType /\ f.t \notin OwnHs(e)
        BY <1>1, <2>1, PhaseOf DEF OwnHs, HsType
      <3> QED BY <3>1 DEF OwnFrame
    <2>2. CASE phase[e] = "secure"
      <3>1. f.t \notin HsType /\ f.t \notin OwnHs(e)
        BY <2>2 DEF OwnHs, HsType
      <3>2. f.key.info = FirstKey(p).info
        BY <1>1, <2>2 DEF TakenInv
      <3>3. FirstKey(p).info # FirstKey(e).info
        BY FirstKeys DEF FirstKey, Peer, End
      <3> QED BY <3>1, <3>2, <3>3 DEF OwnFrame
    <2> QED BY <2>1, <2>2
  <1>3. f \notin Frames(e)
    BY <1>1, <1>2 DEF OwnInv, Frames
  <1>4. PICK i \in 1..rcvd[e] : f = stream[p][i]
    BY <1>3 DEF Stale
  <1>5. Past(f, rxSeq[e], rxKey[e].gen)
    BY <1>1, <1>4 DEF TakenInv
  <1>6. phase[e] = "secure"
    <2>1. phase[e] \notin {"wait1", "wait2"}
      BY <1>1, <1>4 DEF TakenInv
    <2>2. phase[e] = "wait3" => f.t = "MSG1"
      BY <1>1, <1>4 DEF TakenInv
    <2> QED BY <2>1, <2>2
  <1>7. ~(f.key.gen < rxKey[e].gen)
    BY <1>1, <1>6
  <1> QED BY <1>5, <1>6, <1>7 DEF Past, HsType

(* A frame that an endpoint running this code takes a second time, or that  *)
(* it wrote itself, ends its session, whatever its peer writes, between     *)
(* whatever rekeys: DATA by its number (secureConnection.js 188-193), REKEY *)
(* and REKEY_ACK by the key chain alone (handshake.js 85-96).               *)
THEOREM StaleFramesRefused == Spec => StaleFramesEndSession
  <1> DEFINE Ended(e) ==
               /\ closed'[e]
               /\ UNCHANGED <<delivered[e], stream[e], txKey[e], rxKey[e], rekeying[e]>>
             Refused ==
               \A e \in End \ Misbehaving :
                   ~closed[e] /\ rcvd'[e] # rcvd[e] /\ Stale(e) => Ended(e)
  <1>1. ASSUME StaleInv, [Next]_vars PROVE [Refused]_vars
    <2> SUFFICES ASSUME Next, NEW e \in End \ Misbehaving,
                        ~closed[e], rcvd'[e] # rcvd[e], Stale(e)
                 PROVE  Ended(e)
      BY <1>1
    <2>1. TypeOK /\ IInv
      BY <1>1 DEF StaleInv, IInv
    <2>2. Acts(e)
      <3>1. PICK x \in End : Acts(x)
        BY NextActs
      <3>2. x = e \/ Peer(x) = e
        BY DEF End, Peer
      <3>3. Idle(Peer(x))
        BY <2>1, <3>1, ActStepOK DEF StepOK
      <3> QED BY <3>1, <3>2, <3>3 DEF Idle
    <2>3. ASSUME NEW why, Fail(e, why), UNCHANGED <<stream, txKey, rxKey, rekeying, delivered>>
          PROVE  Ended(e)
      BY <2>1, <2>3 DEF Fail, TypeOK
    <2>4. CASE RecvMsg1(e) \/ RecvMsg2(e) \/ RecvMsg3(e) \/ RecvRekey(e) \/ RecvRekeyAck(e)
      <3>1. /\ CanRead(e)
            /\ \/ phase[e] = "wait1" /\ NextFrame(e).t = "MSG1"
               \/ phase[e] = "wait2" /\ NextFrame(e).t = "MSG2"
               \/ phase[e] = "wait3" /\ NextFrame(e).t = "MSG3"
               \/ /\ phase[e] = "secure" /\ NextFrame(e).key = rxKey[e]
                  /\ NextFrame(e).t \in {"REKEY", "REKEY_ACK"}
        BY <2>4 DEF RecvMsg1, RecvMsg2, RecvMsg3, RecvRekey, RecvRekeyAck, Accepts, Opens
      <3>2. phase[e] = "secure" /\ NextFrame(e).t = "DATA"
        BY <1>1, <3>1, StaleFrames
      <3> QED BY <3>1, <3>2
    <2>5. CASE RecvData(e)
      <3>1. NextFrame(e).seq <= rxSeq[e]
        BY <1>1, <2>5, RecvDataCases, StaleFrames
      <3>2. NextFrame(e).seq \in Nat /\ rxSeq[e] \in Nat
        <4>1. NextFrame(e) \in Frame
          BY <2>1, <2>5, RecvDataCases, ReadArrives, NextFrameType
        <4> QED BY <2>1, <4>1, FrameFields, LenTypes
      <3>3. ~(NextFrame(e).seq > rxSeq[e])
        BY <3>1, <3>2
      <3>4. UNCHANGED rekeying
        BY <2>5 DEF RecvData
      <3> QED BY <2>3, <2>5, <3>3, <3>4, RecvDataCases
    <2>6. CASE RecvClose(e)
      BY <2>1, <2>6 DEF RecvClose, sessionVars, TypeOK
    <2>7. CASE \/ RecvBad(e) \/ RecvOversize(e) \/ RefuseFrame(e)
      BY <2>3, <2>7 DEF RecvBad, RecvOversize, RefuseFrame, sessionVars
    <2>8. CASE UserCall(e) \/ HandshakeTimeout(e) \/ SocketEvent(e) \/ SocketError(e) \/ Misbehave(e)
      <3>1. UNCHANGED rcvd
        BY <2>8 DEF UserCall, Send, Rekey, rekey, Close, HandshakeTimeout, SocketEvent,
             ErrorEvent, PeerEnd, SocketClose, SocketError, Misbehave
      <3> QED BY <3>1
    <2> QED BY <2>2, <2>4, <2>5, <2>6, <2>7, <2>8 DEF Acts, Receive
  <1> QED BY <1>1, StaleInductive, PTL DEF Spec, StaleFramesEndSession
=============================================================================
