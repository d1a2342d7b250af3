--------------------------- MODULE IpRateLimiter ---------------------------
(***************************************************************************)
(* The per-address packet quota of src/src/network/ipRateLimiter.js.       *)
(* "now - windowStart" is kept as an age that stops counting once cleanup  *)
(* would drop the entry; a count over the limit stops at one over it.      *)
(***************************************************************************)
EXTENDS Naturals, Addresses

CONSTANTS
    RateLimit,      \* limit
    RateWindowMs    \* windowMs, in ticks

ASSUME RateLimiterAssumption ==
    /\ RateLimit \in Nat \ {0}
    /\ RateWindowMs \in Nat

VARIABLES
    rateCount,   \* rateCount[ip] : counters.get(ip).count, 0 for no entry
    rateAge,     \* rateAge[ip]   : time since its windowStart
    allowed      \* history: allowed[ip][a] is the number of packets of age a
                 \* or less that allow() let through

rateVars == <<rateCount, rateAge, allowed>>

RateInit ==
    /\ rateCount = [ip \in Ip |-> 0]
    /\ rateAge = [ip \in Ip |-> 0]
    /\ allowed = [ip \in Ip |-> [a \in 0..RateWindowMs |-> 0]]

NewWindow(ip) == rateCount[ip] = 0 \/ rateAge[ip] > RateWindowMs

CountWith(ip) == IF NewWindow(ip) THEN 1 ELSE rateCount[ip] + 1

allows(ip) == CountWith(ip) <= RateLimit

(* allow(): counts the packet whatever the verdict. *)
allow(ip) ==
    /\ rateCount' = [rateCount EXCEPT
                       ![ip] = IF allows(ip) THEN CountWith(ip) ELSE RateLimit + 1]
    /\ rateAge' = [rateAge EXCEPT ![ip] = IF NewWindow(ip) THEN 0 ELSE @]
    /\ allowed' = IF allows(ip)
                  THEN [allowed EXCEPT ![ip] = [a \in 0..RateWindowMs |-> @[a] + 1]]
                  ELSE allowed

(* Mutant: cleanup drops windows that still count. *)
Stale_TooEarly(ip) == rateCount[ip] > 0

Stale(ip) == rateAge[ip] > RateWindowMs * 2

rateCleanup ==
    /\ rateCount' = [ip \in Ip |-> IF Stale(ip) THEN 0 ELSE rateCount[ip]]
    /\ rateAge' = [ip \in Ip |-> IF Stale(ip) THEN 0 ELSE rateAge[ip]]
    /\ UNCHANGED allowed

rateTick ==
    /\ rateAge' = [ip \in Ip |-> IF rateCount[ip] > 0 /\ ~Stale(ip)
                                 THEN rateAge[ip] + 1 ELSE rateAge[ip]]
    /\ allowed' = [ip \in Ip |-> [a \in 0..RateWindowMs |->
                                    IF a = 0 THEN 0 ELSE allowed[ip][a - 1]]]
    /\ UNCHANGED rateCount

-----------------------------------------------------------------------------

RateTypeOK ==
    /\ rateCount \in [Ip -> 0..(RateLimit + 1)]
    /\ rateAge \in [Ip -> 0..(2 * RateWindowMs + 1)]
    /\ allowed \in [Ip -> [0..RateWindowMs -> Nat]]

(* The window is fixed, not sliding (ipRateLimiter.js 16-24): over any       *)
(* interval of RateWindowMs an address, whatever its number of connections,  *)
(* gets at most twice the limit through, and cleanup never resets a window   *)
(* that still counts.                                                        *)
RateBound ==
    \A ip \in Ip : allowed[ip][RateWindowMs] <= 2 * RateLimit
=============================================================================
