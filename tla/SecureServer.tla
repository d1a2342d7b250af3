---------------------------- MODULE SecureServer ----------------------------
(***************************************************************************)
(* The server of encrypted sessions, src/src/network/secureServer.js: the  *)
(* connections it accepts over the IpBlacklist and the IpRateLimiter they  *)
(* share.  A connection is the responder of SecureConnection, reduced to   *)
(* what the server's security context sees of it (secureConnection.js      *)
(* 146-168): the verdict on each frame and the end of the connection.      *)
(* Peers behind one address may run this code or not.                      *)
(***************************************************************************)
EXTENDS IpRateLimiter, IpBlacklist

CONSTANTS
    Conn,    \* connections; one may be used again once closed
    IpOf     \* IpOf[c]: socket.remoteAddress

ASSUME SecureServerAssumption == IpOf \in [Conn -> Ip]

VARIABLES
    conn,    \* conn[c]    : "closed", "handshake", "secure", or "ended" when a
             \* CLOSE was received and the socket still delivers
    earned   \* history: the strikes of struck that answer an infraction or an
             \* exception of a listener

vars == <<rateVars, blacklistVars, conn, earned>>

(* What _handleFrame makes of a frame: it is handled; it is a CLOSE; it does *)
(* not decrypt, verify or respect the session's sequence and rate; a         *)
(* listener throws.                                                          *)
Verdict == {"handled", "close", "invalid", "throws"}

Init ==
    /\ RateInit /\ BlacklistInit
    /\ conn = [c \in Conn |-> "closed"]
    /\ earned = [ip \in Ip |-> NoStrikes]

(* A banned address is refused at once, which is logged and not struck. *)
Accept(c) ==
    /\ conn[c] = "closed"
    /\ ~isBanned(IpOf[c])
    /\ conn' = [conn EXCEPT ![c] = "handshake"]
    /\ UNCHANGED <<rateVars, blacklistVars, earned>>

(* report, and the history of what it answers. *)
report(ip) ==
    /\ strike(ip)
    /\ earned' = IF isBanned(ip) THEN earned
                 ELSE IF Bans(ip) THEN [earned EXCEPT ![ip] = NoStrikes]
                 ELSE [earned EXCEPT ![ip] = OneMore(@)]

(* _fail, which does nothing on a connection that had its CLOSE: its socket  *)
(* is ended, not destroyed, and goes on delivering.                          *)
Fails(c) == conn' = [conn EXCEPT ![c] = IF @ = "ended" THEN "ended" ELSE "closed"]

(* A frame that is handled: the first ones are the handshake's. *)
Handled(c) ==
    /\ \E next \in IF conn[c] = "handshake" THEN {"handshake", "secure"} ELSE {conn[c]} :
         conn' = [conn EXCEPT ![c] = next]
    /\ UNCHANGED <<blacklistVars, earned>>

(* A frame whose length is refused never reaches allowFrame. *)
RecvOversize(c) ==
    /\ conn[c] # "closed"
    /\ report(IpOf[c])
    /\ Fails(c)
    /\ UNCHANGED rateVars

(* allowFrame: a banned address, whichever connection earned the ban.  What  *)
(* report makes of it is strike()'s business.                                *)
RecvBanned(c) ==
    /\ conn[c] # "closed"
    /\ isBanned(IpOf[c])
    /\ report(IpOf[c])
    /\ Fails(c)
    /\ UNCHANGED rateVars

(* allowFrame: the address is over its rate. *)
RecvOverRate(c) ==
    /\ conn[c] # "closed"
    /\ ~isBanned(IpOf[c])
    /\ allow(IpOf[c])
    /\ ~allows(IpOf[c])
    /\ report(IpOf[c])
    /\ Fails(c)

(* A frame that passes allowFrame. *)
RecvFrame(c, verdict) ==
    /\ conn[c] # "closed"
    /\ ~isBanned(IpOf[c])
    /\ allow(IpOf[c])
    /\ allows(IpOf[c])
    /\ \/ verdict = "handled" /\ Handled(c)
       \/ /\ verdict = "close" /\ conn[c] # "handshake"
          /\ conn' = [conn EXCEPT ![c] = "ended"]
          /\ UNCHANGED <<blacklistVars, earned>>
       \/ /\ \/ verdict = "invalid"
             \/ verdict = "throws" /\ conn[c] # "handshake"
          /\ report(IpOf[c])
          /\ Fails(c)

(* Mutant: a handshake that times out is reported as an attack. *)
SocketEnds_Reports(c) ==
    /\ conn[c] # "closed"
    /\ conn' = [conn EXCEPT ![c] = "closed"]
    /\ IF conn[c] = "handshake" THEN strike(IpOf[c]) ELSE UNCHANGED blacklistVars
    /\ UNCHANGED <<rateVars, earned>>

(* The handshake times out, the peer or the user closes, TCP breaks: none of *)
(* it is reported.                                                           *)
SocketEnds(c) ==
    /\ conn[c] # "closed"
    /\ conn' = [conn EXCEPT ![c] = "closed"]
    /\ UNCHANGED <<rateVars, blacklistVars, earned>>

(* The five-second timer of the server. *)
Cleanup ==
    /\ rateCleanup
    /\ blacklistCleanup
    /\ UNCHANGED <<conn, earned>>

Tick ==
    /\ rateTick /\ blacklistTick
    /\ earned' = [ip \in Ip |-> OneOlder(earned[ip])]
    /\ UNCHANGED conn

Next ==
    \/ \E c \in Conn :
         \/ Accept(c)
         \/ RecvOversize(c) \/ RecvBanned(c) \/ RecvOverRate(c)
         \/ \E verdict \in Verdict : RecvFrame(c, verdict)
         \/ SocketEnds(c)
    \/ Cleanup
    \/ Tick

Spec == Init /\ [][Next]_vars

(* Time passes; no peer has to do anything. *)
FairSpec == Spec /\ WF_vars(Tick)

-----------------------------------------------------------------------------
(* Properties *)

(* A ban is earned: within one StrikeWindowMs before it, StrikeThreshold     *)
(* infractions, or exceptions of this node's own listeners, which _onData    *)
(* reports as crypto_error (secureConnection.js 160-165).  Handshakes that   *)
(* time out, lost connections and the frames that other peers of the address *)
(* send into a ban, each of which is reported as rate_limit, never add up.   *)
BansEarned ==
    [][\A ip \in Ip : ~isBanned(ip) /\ isBanned(ip)' =>
         earned[ip][StrikeWindowMs] + 1 >= StrikeThreshold]_vars

(* "Bannie pour une duree bornee puis automatiquement rehabilitee a          *)
(* l'expiration" (ipBlacklist.js 2-3): whatever the connections of a banned  *)
(* address send and however often it dials, every ban ends.                  *)
BanEnds == \A ip \in Ip : isBanned(ip) ~> ~isBanned(ip)
=============================================================================
