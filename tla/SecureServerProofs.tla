------------------------- MODULE SecureServerProofs -------------------------
(***************************************************************************)
(* What the server of encrypted sessions makes of the blacklist and the    *)
(* rate limiter that its connections share, for any number of connections  *)
(* and addresses and any limits.                                           *)
(***************************************************************************)
EXTENDS SecureServer, AddressProofs

(* Every strike that counts answers an infraction or an exception. *)
ServerInv == RateInv /\ StrikeInv /\ earned = struck

LEMMA InitServer == Init => ServerInv
  <1> SUFFICES ASSUME Init PROVE ServerInv
    OBVIOUS
  <1>1. RateInv /\ StrikeInv
    BY InitRate, InitStrike DEF Init
  <1> QED BY <1>1 DEF Init, BlacklistInit, ServerInv

LEMMA ReportStep ==
  ASSUME ServerInv, NEW ip \in Ip, report(ip)
  PROVE  StrikeInv' /\ Justified /\ earned' = struck'
  <1>1. strike(ip)
    BY DEF report
  <1>2. StrikeInv' /\ Justified
    BY <1>1, StrikeStep DEF ServerInv, Justified, isBanned
  <1>3. earned' = struck'
    BY <1>1 DEF report, strike, ServerInv, blacklistVars
  <1> QED BY <1>2, <1>3

LEMMA NextServer == ServerInv /\ [Next]_vars => ServerInv' /\ Justified
  <1> SUFFICES ASSUME ServerInv, [Next]_vars PROVE ServerInv' /\ Justified
    OBVIOUS
  <1>0. RateInv /\ StrikeInv /\ earned = struck
    BY DEF ServerInv
  <1>1. ASSUME NEW ip \in Ip, UNCHANGED rateVars \/ allow(ip),
               report(ip) \/ UNCHANGED <<blacklistVars, earned>>
        PROVE  ServerInv' /\ Justified
    <2>1. RateInv'
      BY <1>0, <1>1, AllowStep, RateUnchanged
    <2>2. CASE report(ip)
      BY <2>1, <2>2, ReportStep DEF ServerInv
    <2>3. CASE UNCHANGED <<blacklistVars, earned>>
      <3>1. StrikeInv' /\ Justified
        BY <1>0, <2>3, StrikeUnchanged
      <3> QED BY <1>0, <2>1, <2>3, <3>1 DEF ServerInv, blacklistVars
    <2> QED BY <1>1, <2>2, <2>3
  <1>2. ASSUME NEW c \in Conn,
               \/ Accept(c) \/ RecvOversize(c) \/ RecvBanned(c) \/ RecvOverRate(c)
               \/ SocketEnds(c) \/ \E verdict \in Verdict : RecvFrame(c, verdict)
        PROVE  ServerInv' /\ Justified
    <2>1. IpOf[c] \in Ip
      BY SecureServerAssumption
    <2>2. /\ UNCHANGED rateVars \/ allow(IpOf[c])
          /\ report(IpOf[c]) \/ UNCHANGED <<blacklistVars, earned>>
      BY <1>2 DEF Accept, RecvOversize, RecvBanned, RecvOverRate, SocketEnds, RecvFrame,
                  Handled
    <2> QED BY <1>1, <2>1, <2>2
  <1>3. CASE Cleanup
    <2>1. RateInv'
      BY <1>0, <1>3, RateCleanupStep DEF Cleanup
    <2>2. StrikeInv' /\ UNCHANGED banLeft
      BY <1>0, <1>3, StrikeCleanupStep DEF Cleanup
    <2>3. earned' = struck'
      BY <1>0, <1>3 DEF Cleanup, blacklistCleanup
    <2> QED BY <2>1, <2>2, <2>3 DEF ServerInv, Justified, isBanned
  <1>4. CASE Tick
    <2>1. RateInv'
      BY <1>0, <1>4, RateTickStep DEF Tick
    <2>2. StrikeInv' /\ \A ip \in Ip : isBanned(ip)' => isBanned(ip)
      BY <1>0, <1>4, StrikeTickStep DEF Tick
    <2>3. earned' = struck'
      BY <1>0, <1>4 DEF Tick, blacklistTick
    <2> QED BY <2>1, <2>2, <2>3 DEF ServerInv, Justified
  <1>5. CASE UNCHANGED vars
    <2>1. UNCHANGED rateVars /\ UNCHANGED blacklistVars /\ earned' = earned
      BY <1>5 DEF vars
    <2>2. RateInv' /\ StrikeInv' /\ Justified
      BY <1>0, <2>1, RateUnchanged, StrikeUnchanged
    <2> QED BY <1>0, <2>1, <2>2 DEF ServerInv, blacklistVars
  <1> QED BY <1>2, <1>3, <1>4, <1>5 DEF Next

LEMMA InductiveServer == Spec => []ServerInv
  <1>1. ServerInv /\ [Next]_vars => ServerInv'
    BY NextServer
  <1> QED BY <1>1, InitServer, PTL DEF Spec

(* A ban of secureServer.js is earned: within one StrikeWindowMs before it,  *)
(* StrikeThreshold infractions or exceptions of this node's own listeners    *)
(* (secureConnection.js 160-165), whatever frames other connections of the   *)
(* address send into earlier bans and whenever cleanup runs.                 *)
THEOREM BansAlwaysEarned == Spec => BansEarned
  <1>1. ServerInv /\ [Next]_vars =>
          [\A ip \in Ip : ~isBanned(ip) /\ isBanned(ip)' =>
             earned[ip][StrikeWindowMs] + 1 >= StrikeThreshold]_vars
    BY NextServer DEF ServerInv, Justified
  <1> QED BY <1>1, InductiveServer, PTL DEF Spec, BansEarned

(* Over any interval of RateWindowMs the connections of an address get at    *)
(* most twice the limit of frames through allowFrame (ipRateLimiter.js       *)
(* 16-24, secureServer.js).                                                  *)
THEOREM FramesBounded == Spec => []RateBound
  <1>1. ServerInv => RateBound
    BY RateImpliesBound DEF ServerInv
  <1> QED BY <1>1, InductiveServer, PTL
=============================================================================
