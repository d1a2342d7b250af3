---------------------------- MODULE AddressProofs ----------------------------
(***************************************************************************)
(* What the per-address defences keep true, whichever server calls them:   *)
(* IpRateLimiter lets at most so many packets through, and IpBlacklist     *)
(* bans for strikes within one window.  For any number of addresses and    *)
(* any limits.                                                             *)
(***************************************************************************)
EXTENDS IpRateLimiter, IpBlacklist, TLAPS

-----------------------------------------------------------------------------
(* The rate of an address *)

(* What ipRateLimiter.js keeps, against the packets that really went through: *)
(* those of the current window are the last rateAge ticks', as many as were   *)
(* counted; what is older is of one window before, which ended RateWindowMs   *)
(* after it began.                                                            *)
RateOK(ip) ==
    /\ \A x, y \in 0..RateWindowMs : x <= y => allowed[ip][x] <= allowed[ip][y]
    /\ rateCount[ip] = 0 => \A x \in 0..RateWindowMs : allowed[ip][x] = 0
    /\ \A x \in 0..RateWindowMs : x + RateWindowMs < rateAge[ip] => allowed[ip][x] = 0
    /\ rateAge[ip] <= RateWindowMs =>
          /\ allowed[ip][rateAge[ip]] <= rateCount[ip]
          /\ allowed[ip][rateAge[ip]] <= RateLimit
          /\ allowed[ip][RateWindowMs] <= allowed[ip][rateAge[ip]] + RateLimit
    /\ rateAge[ip] > RateWindowMs => allowed[ip][RateWindowMs] <= RateLimit

RateInv == RateTypeOK /\ \A ip \in Ip : RateOK(ip)

LEMMA InitRate == RateInit => RateInv
  <1> SUFFICES ASSUME RateInit PROVE RateInv
    OBVIOUS
  <1> USE RateLimiterAssumption
  <1>1. RateTypeOK
    BY DEF RateInit, RateTypeOK
  <1>2. ASSUME NEW ip \in Ip PROVE RateOK(ip)
    <2>1. /\ rateCount[ip] = 0 /\ rateAge[ip] = 0
          /\ \A x \in 0..RateWindowMs : allowed[ip][x] = 0
          /\ 0 \in 0..RateWindowMs /\ RateWindowMs \in 0..RateWindowMs
      BY DEF RateInit
    <2> QED BY <2>1 DEF RateOK
  <1> QED BY <1>1, <1>2 DEF RateInv

(* An address that a step leaves alone. *)
LEMMA RateSame ==
  ASSUME NEW ip \in Ip, RateOK(ip), rateCount'[ip] = rateCount[ip],
         rateAge'[ip] = rateAge[ip], allowed'[ip] = allowed[ip]
  PROVE  RateOK(ip)'
  BY DEF RateOK

LEMMA RateFields ==
  ASSUME RateTypeOK, NEW ip \in Ip
  PROVE  /\ rateCount[ip] \in Nat /\ rateCount[ip] <= RateLimit + 1
         /\ rateAge[ip] \in Nat /\ rateAge[ip] <= 2 * RateWindowMs + 1
         /\ \A x \in 0..RateWindowMs : allowed[ip][x] \in Nat
         /\ RateLimit \in Nat /\ RateLimit > 0 /\ RateWindowMs \in Nat
  BY RateLimiterAssumption DEF RateTypeOK

(* A packet is counted, and let through or not. *)
LEMMA AllowStep ==
  ASSUME RateInv, NEW ip \in Ip, allow(ip)
  PROVE  RateInv'
  <1> DEFINE W == RateWindowMs
             F == allowed[ip]
             G == allowed'[ip]
  <1>0. RateTypeOK /\ RateOK(ip)
    BY DEF RateInv
  <1>1. /\ rateCount[ip] \in Nat /\ rateCount[ip] <= RateLimit + 1
        /\ rateAge[ip] \in Nat /\ rateAge[ip] <= 2 * W + 1
        /\ \A x \in 0..W : F[x] \in Nat
        /\ RateLimit \in Nat /\ RateLimit > 0 /\ W \in Nat
    BY <1>0, RateFields
  <1>2. /\ rateCount'[ip] = IF allows(ip) THEN CountWith(ip) ELSE RateLimit + 1
        /\ rateAge'[ip] = IF NewWindow(ip) THEN 0 ELSE rateAge[ip]
    BY <1>0 DEF allow, RateTypeOK
  <1>3. G = IF allows(ip) THEN [x \in 0..W |-> F[x] + 1] ELSE F
    BY <1>0 DEF allow, RateTypeOK
  <1>4. ASSUME NEW q \in Ip, q # ip
        PROVE  rateCount'[q] = rateCount[q] /\ rateAge'[q] = rateAge[q]
               /\ allowed'[q] = allowed[q]
    BY <1>0, <1>4 DEF allow, RateTypeOK
  <1>5. RateTypeOK'
    <2>1. rateCount' \in [Ip -> 0..(RateLimit + 1)]
      BY <1>0, <1>1 DEF allow, RateTypeOK, allows, CountWith
    <2>2. rateAge' \in [Ip -> 0..(2 * RateWindowMs + 1)]
      BY <1>0, <1>1 DEF allow, RateTypeOK
    <2>3. allowed' \in [Ip -> [0..RateWindowMs -> Nat]]
      <3>1. G \in [0..W -> Nat]
        <4>1. F \in [0..W -> Nat]
          BY <1>0 DEF RateTypeOK
        <4>2. [x \in 0..W |-> F[x] + 1] \in [0..W -> Nat]
          BY <1>1
        <4> QED BY <1>3, <4>1, <4>2
      <3>2. \A q \in Ip : allowed'[q] \in [0..W -> Nat]
        BY <1>0, <1>4, <3>1 DEF RateTypeOK
      <3>3. allowed' = [q \in Ip |-> allowed'[q]]
        BY <1>0 DEF allow, RateTypeOK
      <3> QED BY <3>2, <3>3
    <2> QED BY <2>1, <2>2, <2>3 DEF RateTypeOK
  <1>6. ASSUME NewWindow(ip) PROVE RateOK(ip)'
    <2>1. F[0] = 0 /\ F[W] <= RateLimit /\ 0 \in 0..W /\ W \in 0..W
      BY <1>0, <1>1, <1>6 DEF NewWindow, RateOK
    <2>2. allows(ip) /\ CountWith(ip) = 1
      BY <1>1, <1>6 DEF allows, CountWith
    <2>3. \A x \in 0..W : G[x] = F[x] + 1
      BY <1>3, <2>2
    <2>4. rateCount'[ip] = 1 /\ rateAge'[ip] = 0
      BY <1>2, <1>6, <2>2
    <2>5. /\ \A x, y \in 0..W : x <= y => F[x] <= F[y]
      BY <1>0 DEF RateOK
    <2> HIDE DEF F, G
    <2>6. /\ \A x, y \in 0..W : x <= y => G[x] <= G[y]
          /\ G[0] = 1 /\ G[W] <= G[0] + RateLimit
      BY <1>1, <2>1, <2>3, <2>5
    <2> QED BY <1>1, <2>4, <2>6 DEF RateOK, G
  <1>7. ASSUME ~NewWindow(ip) PROVE RateOK(ip)'
    <2>1. rateCount[ip] > 0 /\ rateAge[ip] <= W
      BY <1>1, <1>7 DEF NewWindow
    <2>2. rateAge'[ip] = rateAge[ip] /\ CountWith(ip) = rateCount[ip] + 1
      BY <1>2, <1>7 DEF CountWith
    <2>3. CASE allows(ip)
      <3>1. /\ \A x \in 0..W : G[x] = F[x] + 1
            /\ rateCount'[ip] = rateCount[ip] + 1 /\ rateCount[ip] + 1 <= RateLimit
        BY <1>2, <1>3, <2>2, <2>3 DEF allows
      <3>2. /\ \A x, y \in 0..W : x <= y => F[x] <= F[y]
            /\ F[rateAge[ip]] <= rateCount[ip] /\ F[W] <= F[rateAge[ip]] + RateLimit
        BY <1>0, <2>1 DEF RateOK
      <3>3. rateAge[ip] \in 0..W /\ W \in 0..W
        BY <1>1, <2>1
      <3> HIDE DEF F, G
      <3>4. /\ \A x, y \in 0..W : x <= y => G[x] <= G[y]
            /\ G[rateAge[ip]] <= rateCount'[ip] /\ G[rateAge[ip]] <= RateLimit
            /\ G[W] <= G[rateAge[ip]] + RateLimit
        BY <1>1, <3>1, <3>2, <3>3
      <3> QED BY <1>1, <2>1, <2>2, <3>1, <3>4 DEF RateOK, G
    <2>4. CASE ~allows(ip)
      <3>1. G = F /\ rateCount'[ip] = RateLimit + 1
        BY <1>2, <1>3, <2>4
      <3> QED BY <1>0, <1>1, <2>1, <2>2, <3>1 DEF RateOK
    <2> QED BY <2>3, <2>4
  <1>8. RateOK(ip)'
    BY <1>6, <1>7
  <1>9. ASSUME NEW q \in Ip PROVE RateOK(q)'
    BY <1>4, <1>8, RateSame DEF RateInv
  <1> QED BY <1>5, <1>9 DEF RateInv

(* cleanup only drops windows none of whose packets counts any more. *)
LEMMA RateCleanupStep ==
  ASSUME RateInv, rateCleanup
  PROVE  RateInv'
  <1>1. RateTypeOK'
    BY RateLimiterAssumption DEF RateInv, RateTypeOK, rateCleanup
  <1>2. ASSUME NEW ip \in Ip PROVE RateOK(ip)'
    <2>0. RateOK(ip) /\ RateTypeOK
      BY DEF RateInv
    <2>1. allowed'[ip] = allowed[ip]
      BY DEF rateCleanup
    <2>2. CASE ~Stale(ip)
      BY <2>0, <2>1, <2>2, RateSame DEF rateCleanup
    <2>3. CASE Stale(ip)
      <3>1. rateCount'[ip] = 0 /\ rateAge'[ip] = 0
        BY <2>3 DEF rateCleanup
      <3>2. \A x \in 0..RateWindowMs : allowed[ip][x] = 0
        <4>1. \A x \in 0..RateWindowMs : x + RateWindowMs < rateAge[ip]
          BY <2>0, <2>3, RateFields DEF Stale
        <4> QED BY <2>0, <4>1 DEF RateOK
      <3>3. RateWindowMs \in 0..RateWindowMs /\ 0 \in 0..RateWindowMs
        BY <2>0, RateFields
      <3> QED BY <2>0, <2>1, <3>1, <3>2, <3>3, RateFields DEF RateOK
    <2> QED BY <2>2, <2>3
  <1> QED BY <1>1, <1>2 DEF RateInv

(* Time moves the packets and their window alike. *)
LEMMA RateTickStep ==
  ASSUME RateInv, rateTick
  PROVE  RateInv'
  <1> DEFINE W == RateWindowMs
  <1>1. RateTypeOK'
    <2>1. rateCount' \in [Ip -> 0..(RateLimit + 1)]
      BY DEF RateInv, RateTypeOK, rateTick
    <2>2. rateAge' \in [Ip -> 0..(2 * RateWindowMs + 1)]
      <3>1. ASSUME NEW ip \in Ip, ~Stale(ip) PROVE rateAge[ip] + 1 \in 0..(2 * RateWindowMs + 1)
        BY <3>1, RateFields DEF RateInv, Stale
      <3> QED BY <3>1 DEF RateInv, RateTypeOK, rateTick
    <2>3. allowed' \in [Ip -> [0..RateWindowMs -> Nat]]
      <3>1. ASSUME NEW ip \in Ip, NEW a \in 0..RateWindowMs, a # 0
            PROVE  allowed[ip][a - 1] \in Nat
        <4>1. a - 1 \in 0..RateWindowMs
          BY <3>1, RateLimiterAssumption
        <4> QED BY <4>1, RateFields DEF RateInv
      <3> QED BY <3>1 DEF rateTick
    <2> QED BY <2>1, <2>2, <2>3 DEF RateTypeOK
  <1>2. ASSUME NEW ip \in Ip PROVE RateOK(ip)'
    <2> DEFINE F == allowed[ip]
               G == allowed'[ip]
               a == rateAge[ip]
               b == rateAge'[ip]
               k == rateCount[ip]
    <2>1. /\ k \in Nat /\ k <= RateLimit + 1 /\ a \in Nat /\ a <= 2 * W + 1
          /\ \A x \in 0..W : F[x] \in Nat
          /\ RateLimit \in Nat /\ RateLimit > 0 /\ W \in Nat
      BY RateFields DEF RateInv
    <2>2. /\ \A x, y \in 0..W : x <= y => F[x] <= F[y]
          /\ k = 0 => \A x \in 0..W : F[x] = 0
          /\ \A x \in 0..W : x + W < a => F[x] = 0
          /\ a <= W => F[a] <= k /\ F[a] <= RateLimit /\ F[W] <= F[a] + RateLimit
          /\ a > W => F[W] <= RateLimit
      BY DEF RateInv, RateOK
    <2>3. /\ \A x \in 0..W : G[x] = IF x = 0 THEN 0 ELSE F[x - 1]
          /\ rateCount'[ip] = k
      BY DEF rateTick
    <2>4. b = IF k > 0 /\ a <= W * 2 THEN a + 1 ELSE a
      BY <2>1 DEF rateTick, Stale
    <2> HIDE DEF F, G, a, b, k
    <2>5. \A x \in 0..W : x # 0 => x - 1 \in 0..W /\ G[x] = F[x - 1] /\ G[x] \in Nat
      BY <2>1, <2>3
    <2>6. 0 \in 0..W /\ W \in 0..W /\ G[0] = 0
      BY <2>1, <2>3
    <2>7. \A x, y \in 0..W : x <= y => G[x] <= G[y]
      <3> SUFFICES ASSUME NEW x \in 0..W, NEW y \in 0..W, x <= y PROVE G[x] <= G[y]
        OBVIOUS
      <3>1. CASE x = 0
        BY <2>5, <2>6, <3>1
      <3>2. CASE x # 0
        <4>1. y # 0 /\ x - 1 <= y - 1
          BY <2>1, <3>2
        <4> QED BY <2>2, <2>5, <3>2, <4>1
      <3> QED BY <3>1, <3>2
    <2>8. k = 0 => \A x \in 0..W : G[x] = 0
      BY <2>2, <2>5, <2>6
    <2>9. \A x \in 0..W : G[x] <= F[x]
      <3> SUFFICES ASSUME NEW x \in 0..W PROVE G[x] <= F[x]
        OBVIOUS
      <3>1. CASE x = 0
        BY <2>1, <2>6, <3>1
      <3>2. CASE x # 0
        <4>1. x - 1 <= x
          BY <2>1
        <4> QED BY <2>2, <2>5, <3>2, <4>1
      <3> QED BY <3>1, <3>2
    <2>10. ASSUME NEW x \in 0..W, x + W < b PROVE G[x] = 0
      <3>1. CASE x = 0
        BY <2>6, <3>1
      <3>2. CASE x # 0
        <4>1. (x - 1) + W < a
          BY <2>1, <2>4, <2>10
        <4> QED BY <2>2, <2>5, <3>2, <4>1
      <3> QED BY <3>1, <3>2
    <2>11. ASSUME b <= W
           PROVE  G[b] <= k /\ G[b] <= RateLimit /\ G[W] <= G[b] + RateLimit
      <3>1. CASE k = 0
        <4>1. b \in 0..W
          BY <2>1, <2>4, <2>11
        <4> QED BY <2>1, <2>6, <2>8, <3>1, <4>1
      <3>2. CASE k # 0
        <4>1. b = a + 1 /\ a <= W /\ a + 1 \in 0..W /\ a \in 0..W
          BY <2>1, <2>4, <2>11, <3>2
        <4>2. G[b] = F[a]
          BY <2>1, <2>5, <4>1
        <4>3. G[W] <= F[W] /\ G[W] \in Nat /\ F[W] \in Nat /\ F[a] \in Nat
          BY <2>1, <2>5, <2>6, <2>9, <4>1
        <4> QED BY <2>1, <2>2, <4>1, <4>2, <4>3
      <3> QED BY <3>1, <3>2
    <2>12. ASSUME b > W PROVE G[W] <= RateLimit
      <3>1. F[W] <= RateLimit
        BY <2>1, <2>2, <2>4, <2>12
      <3>2. G[W] <= F[W] /\ G[W] \in Nat /\ F[W] \in Nat
        BY <2>1, <2>5, <2>6, <2>9
      <3> QED BY <2>1, <3>1, <3>2
    <2> QED BY <2>3, <2>7, <2>8, <2>10, <2>11, <2>12 DEF RateOK, G, b
  <1> QED BY <1>1, <1>2 DEF RateInv

LEMMA RateUnchanged == RateInv /\ UNCHANGED rateVars => RateInv'
  BY DEF RateInv, RateTypeOK, RateOK, rateVars

(* The quotas of two windows are all that can be in one interval. *)
LEMMA RateImpliesBound == RateInv => RateBound
  <1>1. ASSUME RateInv, NEW ip \in Ip PROVE allowed[ip][RateWindowMs] <= 2 * RateLimit
    <2>1. RateTypeOK /\ RateOK(ip)
      BY <1>1 DEF RateInv
    <2>2. /\ rateAge[ip] \in Nat /\ RateLimit \in Nat /\ RateWindowMs \in Nat
          /\ \A x \in 0..RateWindowMs : allowed[ip][x] \in Nat
      BY <2>1, RateFields
    <2>3. RateWindowMs \in 0..RateWindowMs
      BY <2>2
    <2>4. CASE rateAge[ip] > RateWindowMs
      BY <2>1, <2>2, <2>3, <2>4 DEF RateOK
    <2>5. CASE rateAge[ip] <= RateWindowMs
      <3>1. rateAge[ip] \in 0..RateWindowMs
        BY <2>2, <2>5
      <3>2. /\ allowed[ip][rateAge[ip]] <= RateLimit
            /\ allowed[ip][RateWindowMs] <= allowed[ip][rateAge[ip]] + RateLimit
        BY <2>1, <2>5 DEF RateOK
      <3> QED BY <2>2, <2>3, <3>1, <3>2
    <2> QED BY <2>2, <2>4, <2>5
  <1> QED BY <1>1 DEF RateBound

-----------------------------------------------------------------------------
(* The strikes of an address *)

(* The strikes that ipBlacklist.js counts were all given since the start of *)
(* their window.                                                            *)
StrikeOK(ip) ==
    /\ \A x, y \in 0..StrikeWindowMs : x <= y => struck[ip][x] <= struck[ip][y]
    /\ strikeAge[ip] <= StrikeWindowMs => strikeCount[ip] <= struck[ip][strikeAge[ip]]

StrikeInv == BlacklistTypeOK /\ \A ip \in Ip : StrikeOK(ip)

LEMMA StrikeFields ==
  ASSUME BlacklistTypeOK, NEW ip \in Ip
  PROVE  /\ strikeCount[ip] \in Nat /\ strikeCount[ip] < StrikeThreshold
         /\ strikeAge[ip] \in Nat /\ strikeAge[ip] <= StrikeWindowMs + 1
         /\ banLeft[ip] \in Nat /\ banLeft[ip] <= BanMs
         /\ \A x \in 0..StrikeWindowMs : struck[ip][x] \in Nat
         /\ StrikeThreshold \in Nat /\ StrikeThreshold > 0
         /\ StrikeWindowMs \in Nat /\ BanMs \in Nat
  BY BlacklistAssumption DEF BlacklistTypeOK

LEMMA StrikeSame ==
  ASSUME NEW ip \in Ip, StrikeOK(ip), strikeCount'[ip] = strikeCount[ip],
         strikeAge'[ip] = strikeAge[ip], struck'[ip] = struck[ip]
  PROVE  StrikeOK(ip)'
  BY DEF StrikeOK

(* The history of an address that has no strike, or one more. *)
LEMMA HistoryTypes ==
  /\ NoStrikes \in [0..StrikeWindowMs -> Nat]
  /\ \A h \in [0..StrikeWindowMs -> Nat] : /\ OneMore(h) \in [0..StrikeWindowMs -> Nat]
                                           /\ OneOlder(h) \in [0..StrikeWindowMs -> Nat]
  <1>1. NoStrikes \in [0..StrikeWindowMs -> Nat]
    BY DEF NoStrikes
  <1>2. \A h \in [0..StrikeWindowMs -> Nat] : OneMore(h) \in [0..StrikeWindowMs -> Nat]
    BY DEF OneMore
  <1>3. ASSUME NEW h \in [0..StrikeWindowMs -> Nat]
        PROVE  OneOlder(h) \in [0..StrikeWindowMs -> Nat]
    <2>1. \A a \in 0..StrikeWindowMs : a # 0 => a - 1 \in 0..StrikeWindowMs
      BY BlacklistAssumption
    <2> QED BY <2>1 DEF OneOlder
  <1> QED BY <1>1, <1>2, <1>3

LEMMA StrikeStep ==
  ASSUME StrikeInv, NEW ip \in Ip, strike(ip)
  PROVE  /\ StrikeInv'
         /\ ~isBanned(ip) /\ isBanned(ip)' =>
               struck[ip][StrikeWindowMs] + 1 >= StrikeThreshold
         /\ \A q \in Ip : q # ip => banLeft'[q] = banLeft[q]
  <1> DEFINE W == StrikeWindowMs
             F == struck[ip]
  <1>0. BlacklistTypeOK /\ StrikeOK(ip)
    BY DEF StrikeInv
  <1>1. /\ strikeCount[ip] \in Nat /\ strikeCount[ip] < StrikeThreshold
        /\ strikeAge[ip] \in Nat /\ strikeAge[ip] <= W + 1
        /\ \A x \in 0..W : F[x] \in Nat
        /\ StrikeThreshold \in Nat /\ StrikeThreshold > 0 /\ W \in Nat
    BY <1>0, StrikeFields
  <1>2. 0 \in 0..W /\ W \in 0..W
    BY <1>1
  <1>3. CASE isBanned(ip) /\ UNCHANGED blacklistVars
    BY <1>3 DEF StrikeInv, BlacklistTypeOK, StrikeOK, blacklistVars
  <1>4. CASE /\ ~isBanned(ip) /\ ~Bans(ip)
             /\ strikeCount' = [strikeCount EXCEPT ![ip] = Strikes(ip)]
             /\ strikeAge' = [strikeAge EXCEPT ![ip] = IF WindowOver(ip) THEN 0 ELSE @]
             /\ struck' = [struck EXCEPT ![ip] = OneMore(@)]
             /\ UNCHANGED banLeft
    <2>1. Strikes(ip) \in 0..(StrikeThreshold - 1)
      BY <1>1, <1>4 DEF Bans, Strikes
    <2>2. BlacklistTypeOK'
      <3>1. strikeCount' \in [Ip -> 0..(StrikeThreshold - 1)]
        BY <1>0, <1>4, <2>1 DEF BlacklistTypeOK
      <3>2. strikeAge' \in [Ip -> 0..(StrikeWindowMs + 1)]
        BY <1>0, <1>1, <1>4 DEF BlacklistTypeOK
      <3>3. struck' \in [Ip -> [0..StrikeWindowMs -> Nat]]
        BY <1>0, <1>4, HistoryTypes DEF BlacklistTypeOK
      <3> QED BY <1>0, <1>4, <3>1, <3>2, <3>3 DEF BlacklistTypeOK
    <2>3. /\ strikeCount'[ip] = Strikes(ip)
          /\ strikeAge'[ip] = IF WindowOver(ip) THEN 0 ELSE strikeAge[ip]
          /\ \A x \in 0..W : struck'[ip][x] = F[x] + 1
      BY <1>0, <1>4 DEF BlacklistTypeOK, OneMore
    <2>4. /\ \A x, y \in 0..W : x <= y => F[x] <= F[y]
          /\ strikeAge[ip] <= W => strikeCount[ip] <= F[strikeAge[ip]]
      BY <1>0 DEF StrikeOK
    <2>5. \A x, y \in 0..W : x <= y => struck'[ip][x] <= struck'[ip][y]
      <3> HIDE DEF F
      <3> QED BY <1>1, <2>3, <2>4
    <2>6. ASSUME strikeAge'[ip] <= W PROVE strikeCount'[ip] <= struck'[ip][strikeAge'[ip]]
      <3>1. CASE WindowOver(ip)
        <4>1. strikeCount'[ip] = 1 /\ strikeAge'[ip] = 0
          BY <2>3, <3>1 DEF Strikes
        <4>2. struck'[ip][0] = F[0] + 1 /\ F[0] \in Nat
          BY <1>1, <1>2, <2>3
        <4> QED BY <4>1, <4>2
      <3>2. CASE ~WindowOver(ip)
        <4>1. strikeCount'[ip] = strikeCount[ip] + 1 /\ strikeAge'[ip] = strikeAge[ip]
          BY <2>3, <3>2 DEF Strikes
        <4>2. strikeAge[ip] \in 0..W
          BY <1>1, <2>6, <4>1
        <4>3. struck'[ip][strikeAge[ip]] = F[strikeAge[ip]] + 1 /\ F[strikeAge[ip]] \in Nat
          BY <1>1, <2>3, <4>2
        <4> QED BY <1>1, <2>4, <4>1, <4>2, <4>3
      <3> QED BY <3>1, <3>2
    <2>7. StrikeOK(ip)'
      BY <2>5, <2>6 DEF StrikeOK
    <2>8. ASSUME NEW q \in Ip, q # ip PROVE StrikeOK(q)'
      <3>1. /\ strikeCount'[q] = strikeCount[q] /\ strikeAge'[q] = strikeAge[q]
            /\ struck'[q] = struck[q]
        BY <1>0, <1>4, <2>8 DEF BlacklistTypeOK
      <3> QED BY <3>1, StrikeSame DEF StrikeInv
    <2>9. StrikeInv'
      BY <2>2, <2>7, <2>8 DEF StrikeInv
    <2> QED BY <1>4, <2>9 DEF isBanned
  <1>5. CASE /\ ~isBanned(ip) /\ Bans(ip)
             /\ banLeft' = [banLeft EXCEPT ![ip] = BanMs]
             /\ strikeCount' = [strikeCount EXCEPT ![ip] = 0]
             /\ strikeAge' = [strikeAge EXCEPT ![ip] = 0]
             /\ struck' = [struck EXCEPT ![ip] = NoStrikes]
    <2>1. BlacklistTypeOK'
      <3>1. strikeCount' \in [Ip -> 0..(StrikeThreshold - 1)]
        BY <1>0, <1>1, <1>5 DEF BlacklistTypeOK
      <3>2. strikeAge' \in [Ip -> 0..(StrikeWindowMs + 1)]
        BY <1>0, <1>1, <1>5 DEF BlacklistTypeOK
      <3>3. struck' \in [Ip -> [0..StrikeWindowMs -> Nat]]
        BY <1>0, <1>5, HistoryTypes DEF BlacklistTypeOK
      <3>4. banLeft' \in [Ip -> 0..BanMs]
        BY <1>0, <1>5, BlacklistAssumption DEF BlacklistTypeOK
      <3> QED BY <3>1, <3>2, <3>3, <3>4 DEF BlacklistTypeOK
    <2>2. StrikeOK(ip)'
      <3>1. /\ strikeCount'[ip] = 0 /\ strikeAge'[ip] = 0
            /\ \A x \in 0..W : struck'[ip][x] = 0
        BY <1>0, <1>5 DEF BlacklistTypeOK, NoStrikes
      <3> QED BY <1>2, <3>1 DEF StrikeOK
    <2>3. ASSUME NEW q \in Ip, q # ip PROVE StrikeOK(q)' /\ banLeft'[q] = banLeft[q]
      <3>1. /\ strikeCount'[q] = strikeCount[q] /\ strikeAge'[q] = strikeAge[q]
            /\ struck'[q] = struck[q] /\ banLeft'[q] = banLeft[q]
        BY <1>0, <1>5, <2>3 DEF BlacklistTypeOK
      <3> QED BY <3>1, StrikeSame DEF StrikeInv
    <2>4. F[W] + 1 >= StrikeThreshold
      <3>1. CASE WindowOver(ip)
        BY <1>1, <1>2, <1>5, <3>1 DEF Bans, Strikes
      <3>2. CASE ~WindowOver(ip)
        <4>1. strikeAge[ip] \in 0..W /\ strikeAge[ip] <= W
          BY <1>1, <3>2 DEF WindowOver
        <4>2. strikeCount[ip] <= F[strikeAge[ip]] /\ F[strikeAge[ip]] <= F[W]
          BY <1>0, <1>2, <4>1 DEF StrikeOK
        <4>3. strikeCount[ip] + 1 >= StrikeThreshold
          BY <1>5, <3>2 DEF Bans, Strikes
        <4> HIDE DEF F
        <4> QED BY <1>1, <1>2, <4>1, <4>2, <4>3
      <3> QED BY <3>1, <3>2
    <2>5. StrikeInv'
      BY <2>1, <2>2, <2>3 DEF StrikeInv
    <2> QED BY <2>3, <2>4, <2>5
  <1> QED BY <1>3, <1>4, <1>5 DEF strike

LEMMA StrikeCleanupStep ==
  ASSUME StrikeInv, blacklistCleanup
  PROVE  StrikeInv' /\ UNCHANGED banLeft
  <1>1. BlacklistTypeOK'
    BY BlacklistAssumption DEF StrikeInv, BlacklistTypeOK, blacklistCleanup
  <1>2. ASSUME NEW ip \in Ip PROVE StrikeOK(ip)'
    <2>1. BlacklistTypeOK /\ StrikeOK(ip) /\ struck'[ip] = struck[ip]
      BY DEF StrikeInv, blacklistCleanup
    <2>2. CASE WindowOver(ip)
      <3>1. strikeCount'[ip] = 0 /\ strikeAge'[ip] = 0
        BY <2>2 DEF blacklistCleanup
      <3>2. 0 \in 0..StrikeWindowMs /\ struck[ip][0] \in Nat
        BY <2>1, StrikeFields
      <3> QED BY <2>1, <3>1, <3>2 DEF StrikeOK
    <2>3. CASE ~WindowOver(ip)
      BY <2>1, <2>3, StrikeSame DEF blacklistCleanup
    <2> QED BY <2>2, <2>3
  <1> QED BY <1>1, <1>2 DEF StrikeInv, blacklistCleanup

LEMMA StrikeTickStep ==
  ASSUME StrikeInv, blacklistTick
  PROVE  StrikeInv' /\ \A ip \in Ip : isBanned(ip)' => isBanned(ip)
  <1> DEFINE W == StrikeWindowMs
  <1>0. BlacklistTypeOK
    BY DEF StrikeInv
  <1>1. BlacklistTypeOK'
    <2>1. strikeCount' \in [Ip -> 0..(StrikeThreshold - 1)]
      BY <1>0 DEF BlacklistTypeOK, blacklistTick
    <2>2. strikeAge' \in [Ip -> 0..(StrikeWindowMs + 1)]
      <3>1. \A ip \in Ip : strikeAge[ip] <= StrikeWindowMs =>
              strikeAge[ip] + 1 \in 0..(StrikeWindowMs + 1)
        BY <1>0, StrikeFields
      <3> QED BY <1>0, <3>1 DEF BlacklistTypeOK, blacklistTick
    <2>3. banLeft' \in [Ip -> 0..BanMs]
      <3>1. ASSUME NEW ip \in Ip
            PROVE  (IF isBanned(ip) THEN banLeft[ip] - 1 ELSE 0) \in 0..BanMs
        <4>1. banLeft[ip] \in Nat /\ banLeft[ip] <= BanMs /\ BanMs \in Nat
          BY <1>0, StrikeFields
        <4>2. CASE isBanned(ip)
          <5>1. banLeft[ip] > 0
            BY <4>2 DEF isBanned
          <5> QED BY <4>1, <4>2, <5>1
        <4>3. CASE ~isBanned(ip)
          BY <4>1, <4>3
        <4> QED BY <4>2, <4>3
      <3> QED BY <3>1 DEF blacklistTick
    <2>4. struck' \in [Ip -> [0..StrikeWindowMs -> Nat]]
      BY <1>0, HistoryTypes DEF BlacklistTypeOK, blacklistTick
    <2> QED BY <2>1, <2>2, <2>3, <2>4 DEF BlacklistTypeOK
  <1>2. ASSUME NEW ip \in Ip PROVE StrikeOK(ip)'
    <2> DEFINE F == struck[ip]
               G == struck'[ip]
               a == strikeAge[ip]
               b == strikeAge'[ip]
               k == strikeCount[ip]
    <2>1. /\ k \in Nat /\ a \in Nat /\ a <= W + 1 /\ W \in Nat
          /\ \A x \in 0..W : F[x] \in Nat
      BY <1>0, StrikeFields
    <2>2. /\ \A x, y \in 0..W : x <= y => F[x] <= F[y]
          /\ a <= W => k <= F[a]
      BY DEF StrikeInv, StrikeOK
    <2>3. /\ \A x \in 0..W : G[x] = IF x = 0 THEN 0 ELSE F[x - 1]
          /\ strikeCount'[ip] = k
          /\ b = IF k > 0 /\ a <= W THEN a + 1 ELSE a
      BY DEF blacklistTick, OneOlder
    <2> HIDE DEF F, G, a, b, k
    <2>4. /\ \A x \in 0..W : x # 0 => x - 1 \in 0..W /\ G[x] = F[x - 1] /\ G[x] \in Nat
          /\ G[0] = 0
      BY <2>1, <2>3
    <2>5. ASSUME NEW x \in 0..W, NEW y \in 0..W, x <= y PROVE G[x] <= G[y]
      <3>1. CASE x = 0
        BY <2>4, <3>1
      <3>2. CASE x # 0
        <4>1. y # 0 /\ x - 1 <= y - 1
          BY <2>1, <2>5, <3>2
        <4> QED BY <2>2, <2>4, <3>2, <4>1
      <3> QED BY <3>1, <3>2
    <2>6. ASSUME b <= W PROVE k <= G[b]
      <3>1. b \in 0..W
        BY <2>1, <2>3, <2>6
      <3>2. CASE k = 0
        BY <2>4, <3>1, <3>2
      <3>3. CASE k # 0
        <4>1. b = a + 1 /\ a <= W /\ a \in 0..W
          BY <2>1, <2>3, <2>6, <3>3
        <4>2. b # 0 /\ b - 1 = a
          BY <2>1, <4>1
        <4> QED BY <2>2, <2>4, <3>1, <4>1, <4>2
      <3> QED BY <3>2, <3>3
    <2> QED BY <2>3, <2>5, <2>6 DEF StrikeOK, G, b
  <1>3. ASSUME NEW ip \in Ip, isBanned(ip)' PROVE isBanned(ip)
    <2>1. banLeft'[ip] = IF isBanned(ip) THEN banLeft[ip] - 1 ELSE 0
      BY DEF blacklistTick
    <2> QED BY <1>3, <2>1 DEF isBanned
  <1> QED BY <1>1, <1>2, <1>3 DEF StrikeInv

LEMMA InitStrike == BlacklistInit => StrikeInv
  <1> SUFFICES ASSUME BlacklistInit PROVE StrikeInv
    OBVIOUS
  <1> USE BlacklistAssumption
  <1>1. BlacklistTypeOK
    BY HistoryTypes DEF BlacklistInit, BlacklistTypeOK
  <1>2. ASSUME NEW ip \in Ip PROVE StrikeOK(ip)
    <2>1. /\ strikeCount[ip] = 0 /\ strikeAge[ip] = 0
          /\ \A x \in 0..StrikeWindowMs : struck[ip][x] = 0
          /\ 0 \in 0..StrikeWindowMs
      BY DEF BlacklistInit, NoStrikes
    <2> QED BY <2>1 DEF StrikeOK
  <1> QED BY <1>1, <1>2 DEF StrikeInv

(* A step bans an address for its strikes only. *)
Justified ==
    \A ip \in Ip : ~isBanned(ip) /\ isBanned(ip)' =>
        struck[ip][StrikeWindowMs] + 1 >= StrikeThreshold

LEMMA StrikeUnchanged == StrikeInv /\ UNCHANGED blacklistVars => StrikeInv' /\ Justified
  BY DEF StrikeInv, BlacklistTypeOK, StrikeOK, blacklistVars, Justified, isBanned
=============================================================================
