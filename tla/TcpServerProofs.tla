-------------------------- MODULE TcpServerProofs --------------------------
(***************************************************************************)
(* What the replay cache, the rate limiter and the blacklist guarantee to  *)
(* the packet server, for any number of connections, addresses and         *)
(* packets, any clock skew within the packets and any limits.              *)
(***************************************************************************)
EXTENDS TcpServer, AddressProofs, SequenceTheorems

(* An accepted packet is remembered until it cannot be accepted again.       *)
Remembered(p) ==
    \/ p \in evicted
    \/ Expired(p)
    \/ \E i \in 1..Len(seen) : seen[i] = p

ReplayInv ==
    /\ ReplayTypeOK
    /\ NoReplayAccepted
    /\ CacheSound
    /\ \A p \in Packet : accepted[p] > 0 => Remembered(p)

LEMMA InitReplay == Init => ReplayInv
  <1> SUFFICES ASSUME Init PROVE ReplayInv
    OBVIOUS
  <1> USE ReplayAssumption
  <1>1. ReplayTypeOK
    BY DEF Init, ReplayInit, ReplayTypeOK, Age
  <1>2. NoReplayAccepted
    BY DEF Init, ReplayInit, NoReplayAccepted
  <1>3. CacheSound
    BY DEF Init, ReplayInit, CacheSound
  <1>4. \A p \in Packet : accepted[p] > 0 => Remembered(p)
    BY DEF Init, ReplayInit
  <1> QED
    BY <1>1, <1>2, <1>3, <1>4 DEF ReplayInv

(* What is left after _purge is a suffix of the cache; what is missing has   *)
(* expired.                                                                  *)
LEMMA PurgedFacts ==
    ASSUME ReplayInv, NEW k \in 0..Len(seen), Purges(k)
    PROVE  /\ purged(k) \in Seq(Packet)
           /\ Len(purged(k)) = Len(seen) - k
           /\ \A i \in 1..Len(purged(k)) : purged(k)[i] = seen[k + i]
           /\ \A p \in Packet :
                (\E i \in 1..Len(seen) : seen[i] = p) =>
                    \/ Expired(p)
                    \/ \E i \in 1..Len(purged(k)) : purged(k)[i] = p
           /\ Len(purged(k)) <= MaxEntries
           /\ \A i, j \in 1..Len(purged(k)) :
                KeyOf[purged(k)[i]] = KeyOf[purged(k)[j]] => i = j
  <1>1. seen \in Seq(Packet) /\ Len(seen) \in Nat
    BY DEF ReplayInv, ReplayTypeOK
  <1>2. purged(k) \in Seq(Packet) /\ Len(purged(k)) = Len(seen) - k
    BY <1>1, SubSeqProperties DEF purged
  <1>3. \A i \in 1..Len(purged(k)) : purged(k)[i] = seen[k + i]
    BY <1>1, <1>2, SubSeqProperties DEF purged
  <1>4. ASSUME NEW p \in Packet, NEW i \in 1..Len(seen), seen[i] = p, ~Expired(p)
        PROVE  \E j \in 1..Len(purged(k)) : purged(k)[j] = p
    <2>1. i > k
      BY <1>4 DEF Purges
    <2>2. i - k \in 1..Len(purged(k))
      BY <1>1, <1>2, <2>1
    <2>3. purged(k)[i - k] = seen[k + (i - k)]
      BY <1>3, <2>2
    <2>4. k + (i - k) = i
      BY <1>1
    <2> QED
      BY <1>4, <2>2, <2>3, <2>4
  <1>5. Len(purged(k)) <= MaxEntries
    BY <1>1, <1>2, ReplayAssumption DEF ReplayInv, CacheSound
  <1>6. ASSUME NEW i \in 1..Len(purged(k)), NEW j \in 1..Len(purged(k)),
               KeyOf[purged(k)[i]] = KeyOf[purged(k)[j]]
        PROVE  i = j
    <2>1. KeyOf[seen[k + i]] = KeyOf[seen[k + j]]
      BY <1>3, <1>6
    <2>2. k + i \in 1..Len(seen) /\ k + j \in 1..Len(seen)
      BY <1>1, <1>2
    <2>3. k + i = k + j
      BY <2>1, <2>2 DEF ReplayInv, CacheSound
    <2> QED
      BY <2>3, <1>1, <1>2
  <1> QED
    BY <1>2, <1>3, <1>4, <1>5, <1>6

(* A packet that is turned away only purges. *)
LEMMA RejectStep ==
    ASSUME ReplayInv, NEW p \in Packet, check(p, FALSE)
    PROVE  ReplayInv'
  <1>0. age' = age
    BY DEF check
  <1>1. CASE UNCHANGED <<seen, accepted, evicted>>
    BY <1>0, <1>1 DEF ReplayInv, ReplayTypeOK, NoReplayAccepted, CacheSound,
                      Remembered, Expired
  <1>2. ASSUME NEW k \in 0..Len(seen), Purges(k), seen' = purged(k),
               UNCHANGED <<accepted, evicted>>
        PROVE  ReplayInv'
    <2>1. ReplayTypeOK'
      BY <1>0, <1>2, PurgedFacts DEF ReplayInv, ReplayTypeOK
    <2>2. NoReplayAccepted'
      BY <1>2 DEF ReplayInv, NoReplayAccepted
    <2>3. CacheSound'
      BY <1>2, PurgedFacts DEF CacheSound
    <2>4. ASSUME NEW q \in Packet, accepted'[q] > 0
          PROVE  Remembered(q)'
      <3>1. Remembered(q)
        BY <1>2, <2>4 DEF ReplayInv
      <3> QED
        BY <1>0, <1>2, <3>1, PurgedFacts DEF Remembered, Expired
    <2> QED
      BY <2>1, <2>2, <2>3, <2>4 DEF ReplayInv
  <1> QED
    BY <1>1, <1>2 DEF check

(* A packet that is accepted was not remembered, and now is. *)
LEMMA AcceptStep ==
    ASSUME ReplayInv, NEW p \in Packet, check(p, TRUE)
    PROVE  ReplayInv'
  <1>1. PICK k \in 0..Len(seen) :
          /\ Purges(k)
          /\ ~Has(purged(k), p)
          /\ seen' = Append(IF Full(purged(k)) THEN Tail(purged(k)) ELSE purged(k), p)
          /\ evicted' = IF Full(purged(k)) THEN evicted \cup {purged(k)[1]} ELSE evicted
          /\ accepted' = [accepted EXCEPT ![p] = IF @ < 2 THEN @ + 1 ELSE @]
    BY DEF check
  <1>2. InWindow(p) /\ age' = age
    BY DEF check
  <1> DEFINE s == purged(k)
             t == IF Full(s) THEN Tail(s) ELSE s
  <1>3. /\ s \in Seq(Packet) /\ Len(s) \in Nat /\ Len(s) <= MaxEntries
        /\ \A i, j \in 1..Len(s) : KeyOf[s[i]] = KeyOf[s[j]] => i = j
        /\ \A q \in Packet :
             (\E i \in 1..Len(seen) : seen[i] = q) =>
                 Expired(q) \/ \E i \in 1..Len(s) : s[i] = q
    <2>1. Purges(k)
      BY <1>1
    <2>2. s \in Seq(Packet) /\ Len(s) <= MaxEntries
      BY <2>1, PurgedFacts
    <2>3. \A i, j \in 1..Len(s) : KeyOf[s[i]] = KeyOf[s[j]] => i = j
      BY <2>1, PurgedFacts
    <2>4. \A q \in Packet :
            (\E i \in 1..Len(seen) : seen[i] = q) =>
                Expired(q) \/ \E i \in 1..Len(s) : s[i] = q
      BY <2>1, PurgedFacts
    <2> HIDE DEF s
    <2> QED
      BY <2>2, <2>3, <2>4
  <1>4. seen' = Append(t, p)
    BY <1>1
  <1>5. /\ ~Has(s, p)
        /\ evicted' = IF Full(s) THEN evicted \cup {s[1]} ELSE evicted
    BY <1>1
  <1> HIDE DEF s
  (* The suffix that is kept. *)
  <1>6. /\ t \in Seq(Packet) /\ Len(t) \in Nat /\ Len(t) < MaxEntries
        /\ \A i \in 1..Len(t) : \E j \in 1..Len(s) :
             t[i] = s[j] /\ j = IF Full(s) THEN i + 1 ELSE i
        /\ \A j \in 1..Len(s) :
             \/ Full(s) /\ s[j] = s[1]
             \/ \E i \in 1..Len(t) : t[i] = s[j]
    <2>1. CASE Full(s)
      <3>1. s # <<>>
        BY <1>3, <2>1, ReplayAssumption DEF Full
      <3>2. Tail(s) \in Seq(Packet) /\ Len(Tail(s)) = Len(s) - 1
        BY <1>3, <3>1, HeadTailProperties
      <3>3. \A i \in 1..Len(Tail(s)) : Tail(s)[i] = s[i + 1]
        BY <1>3, <3>1, HeadTailProperties
      <3>4. ASSUME NEW j \in 1..Len(s), s[j] # s[1]
            PROVE  \E i \in 1..Len(Tail(s)) : Tail(s)[i] = s[j]
        <4>1. j - 1 \in 1..Len(Tail(s))
          BY <1>3, <3>2, <3>4
        <4>2. Tail(s)[j - 1] = s[(j - 1) + 1] /\ (j - 1) + 1 = j
          BY <1>3, <3>3, <4>1
        <4> QED
          BY <4>1, <4>2
      <3>5. \A i \in 1..Len(Tail(s)) : i + 1 \in 1..Len(s)
        BY <1>3, <3>2
      <3>6. t = Tail(s)
        BY <2>1
      <3> HIDE DEF t
      <3>7. t \in Seq(Packet) /\ Len(t) \in Nat /\ Len(t) < MaxEntries
        BY <1>3, <3>2, <3>6, ReplayAssumption
      <3>8. \A i \in 1..Len(t) : i + 1 \in 1..Len(s) /\ t[i] = s[i + 1]
        BY <3>3, <3>5, <3>6
      <3>9. \A j \in 1..Len(s) :
              \/ Full(s) /\ s[j] = s[1]
              \/ \E i \in 1..Len(t) : t[i] = s[j]
        BY <2>1, <3>4, <3>6
      <3> QED
        BY <2>1, <3>7, <3>8, <3>9
    <2>2. CASE ~Full(s)
      BY <1>3, <2>2, ReplayAssumption DEF Full
    <2> QED
      BY <2>1, <2>2
  <1> HIDE DEF t
  <1>7. /\ Append(t, p) \in Seq(Packet)
        /\ Len(Append(t, p)) = Len(t) + 1
        /\ \A i \in 1..Len(t) : Append(t, p)[i] = t[i]
        /\ Append(t, p)[Len(t) + 1] = p
    BY <1>6, AppendProperties
  <1>8. \A i \in 1..Len(t) : KeyOf[t[i]] # KeyOf[p]
    <2> SUFFICES ASSUME NEW i \in 1..Len(t) PROVE KeyOf[t[i]] # KeyOf[p]
      OBVIOUS
    <2>1. PICK j \in 1..Len(s) : t[i] = s[j]
      BY <1>6
    <2>2. KeyOf[s[j]] # KeyOf[p]
      BY <1>5 DEF Has
    <2> QED
      BY <2>1, <2>2
  <1>9. \A q \in Packet : q # p => accepted'[q] = accepted[q]
    BY <1>1 DEF ReplayInv, ReplayTypeOK
  <1>10. accepted[p] > 0 => p \in evicted
    <2> SUFFICES ASSUME accepted[p] > 0, p \notin evicted PROVE FALSE
      OBVIOUS
    <2>1. \E i \in 1..Len(seen) : seen[i] = p
      BY <1>2 DEF ReplayInv, Remembered, InWindow
    <2>2. \E i \in 1..Len(s) : s[i] = p
      BY <1>2, <1>3, <2>1 DEF InWindow
    <2> QED
      BY <1>5, <2>2 DEF Has
  <1>11. ReplayTypeOK'
    <2>1. seen' \in Seq(Packet)
      BY <1>4, <1>7
    <2>2. evicted' \in SUBSET Packet
      <3>1. Full(s) => s[1] \in Packet
        BY <1>3, ReplayAssumption DEF Full
      <3> QED
        BY <1>5, <3>1 DEF ReplayInv, ReplayTypeOK
    <2>3. accepted' \in [Packet -> 0..2]
      BY <1>1 DEF ReplayInv, ReplayTypeOK
    <2> QED
      BY <1>2, <2>1, <2>2, <2>3 DEF ReplayInv, ReplayTypeOK
  <1>12. NoReplayAccepted'
    <2>1. ASSUME NEW q \in Packet, accepted'[q] > 1
          PROVE  q \in evicted
      <3>1. CASE q = p
        <4>1. accepted[p] > 0
          BY <1>1, <2>1, <3>1 DEF ReplayInv, ReplayTypeOK
        <4> QED
          BY <1>10, <3>1, <4>1
      <3>2. CASE q # p
        BY <1>9, <2>1, <3>2 DEF ReplayInv, NoReplayAccepted
      <3> QED
        BY <3>1, <3>2
    <2>2. evicted \subseteq evicted'
      BY <1>5
    <2> QED
      BY <2>1, <2>2 DEF NoReplayAccepted
  <1>13. CacheSound'
    <2>1. Len(seen') <= MaxEntries
      BY <1>4, <1>6, <1>7, ReplayAssumption
    <2>2. ASSUME NEW i \in 1..Len(t), NEW j \in 1..Len(t), KeyOf[t[i]] = KeyOf[t[j]]
          PROVE  i = j
      <3>1. PICK a \in 1..Len(s) : t[i] = s[a] /\ a = IF Full(s) THEN i + 1 ELSE i
        BY <1>6
      <3>2. PICK b \in 1..Len(s) : t[j] = s[b] /\ b = IF Full(s) THEN j + 1 ELSE j
        BY <1>6
      <3>3. a = b
        BY <1>3, <2>2, <3>1, <3>2
      <3> QED
        BY <1>6, <3>1, <3>2, <3>3
    <2>3. ASSUME NEW i \in 1..Len(seen'), NEW j \in 1..Len(seen'),
                 KeyOf[seen'[i]] = KeyOf[seen'[j]]
          PROVE  i = j
      <3>1. /\ i \in 1..Len(t) \/ i = Len(t) + 1
            /\ j \in 1..Len(t) \/ j = Len(t) + 1
        BY <1>4, <1>6, <1>7
      <3>2. CASE i \in 1..Len(t) /\ j \in 1..Len(t)
        BY <1>4, <1>7, <2>2, <2>3, <3>2
      <3>3. CASE i \in 1..Len(t) /\ j = Len(t) + 1
        BY <1>4, <1>7, <1>8, <2>3, <3>3
      <3>4. CASE i = Len(t) + 1 /\ j \in 1..Len(t)
        BY <1>4, <1>7, <1>8, <2>3, <3>4
      <3> QED
        BY <3>1, <3>2, <3>3, <3>4
    <2> QED
      BY <2>1, <2>3 DEF CacheSound
  <1>14. ASSUME NEW q \in Packet, accepted'[q] > 0
         PROVE  Remembered(q)'
    <2>1. CASE q = p
      <3>1. Len(t) + 1 \in 1..Len(seen') /\ seen'[Len(t) + 1] = p
        BY <1>4, <1>6, <1>7
      <3> QED
        BY <2>1, <3>1 DEF Remembered
    <2>2. CASE q # p
      <3>1. Remembered(q)
        BY <1>9, <1>14, <2>2 DEF ReplayInv
      <3>2. CASE q \in evicted \/ Expired(q)
        BY <1>2, <1>5, <3>2 DEF Remembered, Expired
      <3>3. CASE \E i \in 1..Len(s) : s[i] = q
        <4>1. PICK j \in 1..Len(s) : s[j] = q
          BY <3>3
        <4>2. CASE Full(s) /\ s[j] = s[1]
          BY <1>5, <4>1, <4>2 DEF Remembered
        <4>3. CASE \E i \in 1..Len(t) : t[i] = s[j]
          <5>1. PICK i \in 1..Len(t) : t[i] = q
            BY <4>1, <4>3
          <5>2. i \in 1..Len(seen') /\ seen'[i] = q
            BY <1>4, <1>6, <1>7, <5>1
          <5> QED
            BY <5>2 DEF Remembered
        <4> QED
          BY <1>6, <4>2, <4>3
      <3> QED
        BY <1>3, <3>1, <3>2, <3>3 DEF Remembered
    <2> QED
      BY <2>1, <2>2
  <1> QED
    BY <1>11, <1>12, <1>13, <1>14 DEF ReplayInv

(* Time only makes packets expire, and an expired packet stays so. *)
LEMMA TickStep == ReplayInv /\ replayTick => ReplayInv'
  <1> SUFFICES ASSUME ReplayInv, replayTick PROVE ReplayInv'
    OBVIOUS
  <1> USE ReplayAssumption
  <1>1. UNCHANGED <<seen, accepted, evicted>>
    BY DEF replayTick
  <1>2. ASSUME NEW p \in Packet
        PROVE  age'[p] \in Age /\ (Expired(p) => Expired(p)')
    <2>1. age[p] \in Age
      BY DEF ReplayInv, ReplayTypeOK
    <2>2. age'[p] = IF Expired(p) THEN age[p] ELSE age[p] + 1
      BY DEF replayTick
    <2> QED
      BY <2>1, <2>2 DEF Age, Expired
  <1>3. ReplayTypeOK'
    <2>1. age' \in [Packet -> Age]
      BY <1>2 DEF replayTick
    <2> QED
      BY <1>1, <2>1 DEF ReplayInv, ReplayTypeOK
  <1>4. NoReplayAccepted' /\ CacheSound'
    BY <1>1 DEF ReplayInv, NoReplayAccepted, CacheSound
  <1>5. \A p \in Packet : accepted'[p] > 0 => Remembered(p)'
    BY <1>1, <1>2 DEF ReplayInv, Remembered
  <1> QED
    BY <1>3, <1>4, <1>5 DEF ReplayInv

LEMMA NextReplay == ReplayInv /\ [Next]_vars => ReplayInv'
  <1> SUFFICES ASSUME ReplayInv, [Next]_vars PROVE ReplayInv'
    OBVIOUS
  <1>1. CASE UNCHANGED replayVars
    BY <1>1 DEF replayVars, ReplayInv, ReplayTypeOK, NoReplayAccepted, CacheSound,
                Remembered, Expired
  <1>2. ASSUME NEW c \in Conn, NEW p \in Packet, NEW form \in Form,
               RecvPacket(c, p, form)
        PROVE  ReplayInv'
    BY <1>1, <1>2, AcceptStep, RejectStep DEF RecvPacket
  <1>3. ASSUME NEW c \in Conn,
               Accept(c) \/ RecvPartial(c) \/ RecvMalformed(c) \/ PartialCheck(c)
                 \/ SocketEnds(c)
        PROVE  ReplayInv'
    BY <1>1, <1>3 DEF Accept, RecvPartial, RecvMalformed, PartialCheck, SocketEnds
  <1>4. CASE Cleanup
    BY <1>1, <1>4 DEF Cleanup
  <1>5. CASE Tick
    BY <1>5, TickStep DEF Tick
  <1>6. CASE UNCHANGED vars
    BY <1>1, <1>6 DEF vars
  <1> QED
    BY <1>2, <1>3, <1>4, <1>5, <1>6 DEF Next

LEMMA InductiveReplay == Spec => []ReplayInv
  BY InitReplay, NextReplay, PTL DEF Spec

(* A signed packet is accepted at most once by tcpServer.js, on whichever    *)
(* connections its copies arrive, unless the cache had to make room for      *)
(* others while it was valid (replay.js 33-53).                              *)
THEOREM ReplaysNeverAccepted == Spec => []NoReplayAccepted
  <1>1. ReplayInv => NoReplayAccepted
    BY DEF ReplayInv
  <1> QED
    BY <1>1, InductiveReplay, PTL

(* The cache never outgrows maxEntries and holds each key once (45-49).      *)
THEOREM CacheAlwaysSound == Spec => []CacheSound
  <1>1. ReplayInv => CacheSound
    BY DEF ReplayInv
  <1> QED
    BY <1>1, InductiveReplay, PTL

-----------------------------------------------------------------------------
(* The server *)

ServerTypeOK ==
    /\ conn \in [Conn -> {"closed", "empty", "partial"}]
    /\ packetCount \in [Conn -> 0..MaxPacketsPerSecond]

ServerInv == RateInv /\ StrikeInv /\ ServerTypeOK

LEMMA InitServer == Init => ServerInv
  <1> SUFFICES ASSUME Init PROVE ServerInv
    OBVIOUS
  <1>1. RateInv /\ StrikeInv
    BY InitRate, InitStrike DEF Init
  <1>2. ServerTypeOK
    BY TcpServerAssumption DEF Init, ServerTypeOK
  <1> QED BY <1>1, <1>2 DEF ServerInv

LEMMA FlagStep ==
  ASSUME ServerInv, NEW c \in Conn, flagAttack(c)
  PROVE  StrikeInv' /\ Justified /\ ServerTypeOK'
  <1>1. strike(IpOf[c]) /\ IpOf[c] \in Ip
    BY TcpServerAssumption DEF flagAttack
  <1>2. StrikeInv' /\ Justified
    BY <1>1, StrikeStep DEF ServerInv, Justified, isBanned
  <1>3. ServerTypeOK'
    BY TcpServerAssumption DEF ServerInv, ServerTypeOK, flagAttack, Closes
  <1> QED BY <1>2, <1>3

LEMMA PacketStep ==
  ASSUME ServerInv, NEW c \in Conn, NEW p \in Packet, NEW form \in Form,
         RecvPacket(c, p, form)
  PROVE  ServerInv' /\ Justified
  <1>1. RateInv'
    <2>1. IpOf[c] \in Ip
      BY TcpServerAssumption
    <2>2. allow(IpOf[c]) \/ UNCHANGED rateVars
      BY DEF RecvPacket
    <2> QED BY <2>1, <2>2, AllowStep, RateUnchanged DEF ServerInv
  <1>2. CASE flagAttack(c)
    BY <1>1, <1>2, FlagStep DEF ServerInv
  <1>3. CASE ~flagAttack(c)
    <2>1. PICK windowOver \in BOOLEAN, n \in {1, packetCount[c] + 1} :
            /\ n <= MaxPacketsPerSecond
            /\ \E rest \in {"empty", "partial"} : conn' = [conn EXCEPT ![c] = rest]
            /\ packetCount' = [packetCount EXCEPT ![c] = n]
            /\ UNCHANGED blacklistVars
      BY <1>3 DEF RecvPacket
    <2>2. ServerTypeOK'
      <3>1. conn' \in [Conn -> {"closed", "empty", "partial"}]
        BY <2>1 DEF ServerInv, ServerTypeOK
      <3>2. n \in 0..MaxPacketsPerSecond
        BY <2>1, TcpServerAssumption DEF ServerInv, ServerTypeOK
      <3> QED BY <2>1, <3>1, <3>2 DEF ServerInv, ServerTypeOK
    <2> QED BY <1>1, <2>1, <2>2, StrikeUnchanged DEF ServerInv
  <1> QED BY <1>2, <1>3

LEMMA NextServer == ServerInv /\ [Next]_vars => ServerInv' /\ Justified
  <1> SUFFICES ASSUME ServerInv, [Next]_vars PROVE ServerInv' /\ Justified
    OBVIOUS
  <1>0. RateInv /\ StrikeInv /\ ServerTypeOK
    BY DEF ServerInv
  <1>1. ASSUME NEW c \in Conn, NEW p \in Packet, NEW form \in Form, RecvPacket(c, p, form)
        PROVE  ServerInv' /\ Justified
    BY <1>1, PacketStep
  <1>2. ASSUME NEW c \in Conn, RecvMalformed(c) \/ PartialCheck(c)
        PROVE  ServerInv' /\ Justified
    <2>1. flagAttack(c) /\ UNCHANGED rateVars
      BY <1>2 DEF RecvMalformed, PartialCheck
    <2> QED BY <1>0, <2>1, FlagStep, RateUnchanged DEF ServerInv
  <1>3. ASSUME NEW c \in Conn, Accept(c) \/ RecvPartial(c) \/ SocketEnds(c)
        PROVE  ServerInv' /\ Justified
    <2>1. UNCHANGED <<rateVars, blacklistVars>>
      BY <1>3 DEF Accept, RecvPartial, SocketEnds
    <2>2. ServerTypeOK'
      BY <1>0, <1>3, TcpServerAssumption
         DEF Accept, RecvPartial, SocketEnds, Closes, ServerTypeOK
    <2> QED BY <1>0, <2>1, <2>2, RateUnchanged, StrikeUnchanged DEF ServerInv
  <1>4. CASE Cleanup
    <2>1. RateInv'
      BY <1>0, <1>4, RateCleanupStep DEF Cleanup
    <2>2. StrikeInv' /\ UNCHANGED banLeft
      BY <1>0, <1>4, StrikeCleanupStep DEF Cleanup
    <2>3. ServerTypeOK'
      BY <1>0, <1>4 DEF Cleanup, serverVars, ServerTypeOK
    <2> QED BY <2>1, <2>2, <2>3 DEF ServerInv, Justified, isBanned
  <1>5. CASE Tick
    <2>1. RateInv'
      BY <1>0, <1>5, RateTickStep DEF Tick
    <2>2. StrikeInv' /\ \A ip \in Ip : isBanned(ip)' => isBanned(ip)
      BY <1>0, <1>5, StrikeTickStep DEF Tick
    <2>3. ServerTypeOK'
      BY <1>0, <1>5 DEF Tick, serverVars, ServerTypeOK
    <2> QED BY <2>1, <2>2, <2>3 DEF ServerInv, Justified
  <1>6. CASE UNCHANGED vars
    <2>1. UNCHANGED <<rateVars, blacklistVars>> /\ ServerTypeOK'
      BY <1>0, <1>6 DEF vars, serverVars, ServerTypeOK
    <2> QED BY <1>0, <2>1, RateUnchanged, StrikeUnchanged DEF ServerInv
  <1> QED BY <1>1, <1>2, <1>3, <1>4, <1>5, <1>6 DEF Next

LEMMA InductiveServer == Spec => []ServerInv
  <1>1. ServerInv /\ [Next]_vars => ServerInv'
    BY NextServer
  <1> QED BY <1>1, InitServer, PTL DEF Spec

(* The state of tcpServer.js and of the defences it shares keeps its types:  *)
(* no counter of replay.js, ipRateLimiter.js or ipBlacklist.js outgrows its  *)
(* limit, for any number of connections and addresses.                       *)
THEOREM ServerTypes == Spec => []TypeOK
  <1>1. ReplayInv /\ ServerInv => TypeOK
    BY DEF ReplayInv, ServerInv, RateInv, StrikeInv, ServerTypeOK, TypeOK
  <1> QED BY <1>1, InductiveReplay, InductiveServer, PTL

(* Over any interval of RateWindowMs an address gets at most twice the limit *)
(* of ipRateLimiter.js through (16-24), for every limit, window and number   *)
(* of connections, whenever cleanup runs.                                    *)
THEOREM RateAlwaysBounded == Spec => []RateBound
  <1>1. ServerInv => RateBound
    BY RateImpliesBound DEF ServerInv
  <1> QED BY <1>1, InductiveServer, PTL

(* An address is banned only for StrikeThreshold strikes within one          *)
(* StrikeWindowMs (ipBlacklist.js 39-54), whatever connections they came     *)
(* from and whenever cleanup runs.                                           *)
THEOREM BansJustified == Spec => BanJustified
  <1>1. ServerInv /\ [Next]_vars => [Justified]_blacklistVars
    BY NextServer
  <1>2. [Justified]_blacklistVars =>
          [\A ip \in Ip : ~isBanned(ip) /\ isBanned(ip)' =>
             struck[ip][StrikeWindowMs] + 1 >= StrikeThreshold]_blacklistVars
    BY DEF Justified
  <1> QED BY <1>1, <1>2, InductiveServer, PTL DEF Spec, BanJustified
=============================================================================
