---------------------------- MODULE IpBlacklist ----------------------------
(***************************************************************************)
(* The temporary blacklist of src/src/network/ipBlacklist.js.  Instants    *)
(* are kept as ages: "now - windowStart" is strikeAge, which stops counting *)
(* once the window is over, and "until - now" is banLeft.                  *)
(***************************************************************************)
EXTENDS Naturals, Addresses

CONSTANTS
    BanMs,              \* banMs, in ticks
    StrikeThreshold,    \* strikeThreshold
    StrikeWindowMs      \* strikeWindowMs, in ticks

ASSUME BlacklistAssumption ==
    /\ BanMs \in Nat \ {0}
    /\ StrikeThreshold \in Nat \ {0}
    /\ StrikeWindowMs \in Nat

VARIABLES
    strikeCount,   \* strikeCount[ip] : strikes.get(ip).count, 0 for no entry
    strikeAge,     \* strikeAge[ip]   : time since its windowStart
    banLeft,       \* banLeft[ip]     : time left in bans.get(ip), 0 for no ban
    struck         \* history: struck[ip][a] is the number of strikes of age a
                   \* or less counted since the last ban

blacklistVars == <<strikeCount, strikeAge, banLeft, struck>>

NoStrikes == [a \in 0..StrikeWindowMs |-> 0]

OneMore(h) == [a \in 0..StrikeWindowMs |-> h[a] + 1]

OneOlder(h) == [a \in 0..StrikeWindowMs |-> IF a = 0 THEN 0 ELSE h[a - 1]]

BlacklistInit ==
    /\ strikeCount = [ip \in Ip |-> 0]
    /\ strikeAge = [ip \in Ip |-> 0]
    /\ banLeft = [ip \in Ip |-> 0]
    /\ struck = [ip \in Ip |-> NoStrikes]

isBanned(ip) == banLeft[ip] > 0

WindowOver(ip) == strikeCount[ip] = 0 \/ strikeAge[ip] > StrikeWindowMs

(* Mutant: the window of old strikes is never restarted. *)
Strikes_NoWindow(ip) == strikeCount[ip] + 1

(* s.count after the strike. *)
Strikes(ip) == IF WindowOver(ip) THEN 1 ELSE strikeCount[ip] + 1

(* Mutant: the ban comes one strike late. *)
Bans_Late(ip) == Strikes(ip) > StrikeThreshold

Bans(ip) == Strikes(ip) >= StrikeThreshold

(* Mutant: a strike while banned starts the ban again. *)
strike_Extends(ip) ==
    \/ /\ ~isBanned(ip)
       /\ ~Bans(ip)
       /\ strikeCount' = [strikeCount EXCEPT ![ip] = Strikes(ip)]
       /\ strikeAge' = [strikeAge EXCEPT ![ip] = IF WindowOver(ip) THEN 0 ELSE @]
       /\ struck' = [struck EXCEPT ![ip] = OneMore(@)]
       /\ UNCHANGED banLeft
    \/ /\ isBanned(ip) \/ Bans(ip)
       /\ banLeft' = [banLeft EXCEPT ![ip] = BanMs]
       /\ strikeCount' = [strikeCount EXCEPT ![ip] = 0]
       /\ strikeAge' = [strikeAge EXCEPT ![ip] = 0]
       /\ struck' = [struck EXCEPT ![ip] = NoStrikes]

(* strike(): ignored while banned; the threshold bans and forgets the count. *)
strike(ip) ==
    \/ /\ isBanned(ip)
       /\ UNCHANGED blacklistVars
    \/ /\ ~isBanned(ip)
       /\ ~Bans(ip)
       /\ strikeCount' = [strikeCount EXCEPT ![ip] = Strikes(ip)]
       /\ strikeAge' = [strikeAge EXCEPT ![ip] = IF WindowOver(ip) THEN 0 ELSE @]
       /\ struck' = [struck EXCEPT ![ip] = OneMore(@)]
       /\ UNCHANGED banLeft
    \/ /\ ~isBanned(ip)
       /\ Bans(ip)
       /\ banLeft' = [banLeft EXCEPT ![ip] = BanMs]
       /\ strikeCount' = [strikeCount EXCEPT ![ip] = 0]
       /\ strikeAge' = [strikeAge EXCEPT ![ip] = 0]
       /\ struck' = [struck EXCEPT ![ip] = NoStrikes]

(* cleanup(): forgets the windows that are over. *)
blacklistCleanup ==
    /\ strikeCount' = [ip \in Ip |-> IF WindowOver(ip) THEN 0 ELSE strikeCount[ip]]
    /\ strikeAge' = [ip \in Ip |-> IF WindowOver(ip) THEN 0 ELSE strikeAge[ip]]
    /\ UNCHANGED <<banLeft, struck>>

blacklistTick ==
    /\ strikeAge' = [ip \in Ip |->
                       IF strikeCount[ip] > 0 /\ strikeAge[ip] <= StrikeWindowMs
                       THEN strikeAge[ip] + 1 ELSE strikeAge[ip]]
    /\ banLeft' = [ip \in Ip |-> IF isBanned(ip) THEN banLeft[ip] - 1 ELSE 0]
    /\ struck' = [ip \in Ip |-> OneOlder(struck[ip])]
    /\ UNCHANGED strikeCount

-----------------------------------------------------------------------------

BlacklistTypeOK ==
    /\ strikeCount \in [Ip -> 0..(StrikeThreshold - 1)]
    /\ strikeAge \in [Ip -> 0..(StrikeWindowMs + 1)]
    /\ banLeft \in [Ip -> 0..BanMs]
    /\ struck \in [Ip -> [0..StrikeWindowMs -> Nat]]

(* An address is banned only for StrikeThreshold strikes within one          *)
(* StrikeWindowMs (ipBlacklist.js 39-54): strikes that are far apart never   *)
(* add up, whenever the cleanup timer runs.                                  *)
BanJustified ==
    [][\A ip \in Ip : ~isBanned(ip) /\ isBanned(ip)' =>
         struck[ip][StrikeWindowMs] + 1 >= StrikeThreshold]_blacklistVars
=============================================================================
