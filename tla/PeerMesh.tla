------------------------------ MODULE PeerMesh ------------------------------
(***************************************************************************)
(* How nodes find each other and keep sessions: the peer table of          *)
(* network/udpDiscovery.js, the dials of session/peerManager.js and the    *)
(* session table of node/attestp2pNode.js.                                 *)
(*                                                                         *)
(* Announcements are neither reliable nor authenticated: any may be lost,  *)
(* and an identifier may be announced at an address where another answers  *)
(* (a node that changed its key).  The handshake tells each side who the   *)
(* other really is.  A connection has two ends, that of the dialler "D"    *)
(* and that of the listener "L", which are established and closed apart.   *)
(***************************************************************************)
EXTENDS Naturals, FiniteSets, Functions

CONSTANTS
    Node,          \* nodes; a node is its identity key and its address
    Id,            \* identifiers announced
    Announced,     \* Announced[n]: what n may hear, pairs of an identifier and
                   \* the node at its address
    Conn,          \* bound: connections at a time
    Bootstrap,     \* pairs of nodes of which the first connects to the second on its own
    Stoppable,     \* nodes whose user may call stop()
    MaxTimeouts,   \* bound: handshakes that time out
    MaxBreaks,     \* bound: connections lost on their own
    None           \* no address, no session, no identifier

Role == {"D", "L"}

(* An end of a connection: the SecureConnection object of one of its nodes.  *)
End == Conn \X Role

ASSUME PeerMeshAssumption ==
    /\ Node \subseteq Id
    /\ None \notin Id \cup End
    /\ Announced \in [Node -> SUBSET (Id \X Node)]
    /\ Bootstrap \subseteq Node \X Node
    /\ Stoppable \subseteq Node
    /\ {MaxTimeouts, MaxBreaks} \subseteq Nat

VARIABLES
    running,      \* running[n]      : stop() was not called
    known,        \* known[n][id]    : discovery's peers, the address of each
    dialing,      \* dialing[n]      : PeerManager.dialing
    sessions,     \* sessions[n][id] : PeerManager.sessions
    byPeer,       \* byPeer[n][id]   : AttestP2PNode.sessionsByPeer
    call,         \* call[c]         : who opened connection c, to whom, and the
                  \*                   identifier PeerManager dialled, if it did
    end,          \* end[c][r]       : see EndState
    bootstrap,    \* the pairs of Bootstrap that are not connected yet
    hs,           \* hs[c]           : handshake messages written so far
    timeouts, breaks   \* what the bounds count

tables == <<known, dialing, sessions, byPeer>>
connVars == <<call, end, hs>>
vars == <<running, known, dialing, sessions, byPeer, call, end, hs,
          bootstrap, timeouts, breaks>>
bounded == <<bootstrap, timeouts, breaks>>

(* "hello": handshake; "secure"; "closing": close() was called; "failing":   *)
(* "error" was emitted and "close" not yet; "gone": "close" was emitted.     *)
EndState == {"hello", "secure", "closing", "failing", "gone"}

NoCall == [from |-> None, to |-> None, id |-> None]

Owner(c, r) == IF r = "D" THEN call[c].from ELSE call[c].to
Remote(c, r) == IF r = "D" THEN call[c].to ELSE call[c].from

Free == {c \in Conn : \A r \in Role : end[c][r] = "gone"}

ManagerInit ==
    /\ dialing = [n \in Node |-> {}]
    /\ sessions = [n \in Node |-> [id \in Id |-> None]]

(* The nodes have started. *)
Init ==
    /\ running = [n \in Node |-> TRUE]
    /\ known = [n \in Node |-> [id \in Id |-> None]]
    /\ ManagerInit
    /\ byPeer = [n \in Node |-> [id \in Id |-> None]]
    /\ call = [c \in Conn |-> NoCall]
    /\ end = [c \in Conn |-> [r \in Role |-> "gone"]]
    /\ hs = [c \in Conn |-> 0]
    /\ bootstrap = Bootstrap
    /\ timeouts = 0
    /\ breaks = 0

-----------------------------------------------------------------------------
(* Discovery *)

(* Mutant: a node enters itself. *)
recvAnnounce_OwnToo(n, id, at) ==
    /\ running[n] /\ running[at]
    /\ <<id, at>> \in Announced[n]
    /\ known' = [known EXCEPT ![n][id] = at]
    /\ UNCHANGED <<running, dialing, sessions, byPeer, connVars, bounded>>

(* One of the announcements that at sends every interval arrives at n. *)
recvAnnounce(n, id, at) ==
    /\ running[n] /\ running[at]
    /\ <<id, at>> \in Announced[n]
    /\ id # n
    /\ known' = [known EXCEPT ![n][id] = at]
    /\ UNCHANGED <<running, dialing, sessions, byPeer, connVars, bounded>>

(* The entry was not renewed for PEER_TTL_MS. *)
prune(n, id) ==
    /\ running[n]
    /\ known[n][id] # None
    /\ known' = [known EXCEPT ![n][id] = None]
    /\ UNCHANGED <<running, dialing, sessions, byPeer, connVars, bounded>>

-----------------------------------------------------------------------------
(* Dials *)

ToDial(n) ==
    {id \in Id \ {n} : /\ known[n][id] # None
                       /\ sessions[n][id] = None
                       /\ id \notin dialing[n]}

(* The calls are made, each on a free connection (which one does not         *)
(* matter); a node that was stopped refuses.                                 *)
Opens(calls) ==
    LET placed == {g \in [calls -> Free] : IsInjective(g)}
        f == CHOOSE g \in placed : TRUE
        At(c) == CHOOSE k \in calls : f[k] = c
    IN  /\ placed # {}
        /\ call' = [c \in Conn |-> IF c \in Range(f) THEN At(c) ELSE call[c]]
        /\ end' = [c \in Conn |->
                      IF c \in Range(f)
                      THEN [D |-> "hello", L |-> IF running[At(c).to] THEN "hello" ELSE "gone"]
                      ELSE end[c]]
        /\ hs' = [c \in Conn |-> IF c \in Range(f) THEN 1 ELSE hs[c]]

(* tick() dials every peer it may. *)
tick(n) ==
    /\ running[n]
    /\ ToDial(n) # {}
    /\ Opens({[from |-> n, to |-> known[n][id], id |-> id] : id \in ToDial(n)})
    /\ dialing' = [dialing EXCEPT ![n] = @ \cup ToDial(n)]
    /\ UNCHANGED <<running, known, sessions, byPeer, bounded>>

(* AttestP2PNode.connect(), which PeerManager does not hear of. *)
connect(n, m) ==
    /\ running[n]
    /\ <<n, m>> \in bootstrap
    /\ bootstrap' = bootstrap \ {<<n, m>>}
    /\ Opens({[from |-> n, to |-> m, id |-> None]})
    /\ UNCHANGED <<running, tables, timeouts, breaks>>

(* Mutant: the session is entered under the announced identifier. *)
attach_Announced(c, r) ==
    LET id == IF r = "D" /\ call[c].id # None THEN call[c].id ELSE Remote(c, r)
    IN  byPeer' = [byPeer EXCEPT ![Owner(c, r)][id] = <<c, r>>]

(* _attach: a session replaces an earlier one of the same peer. *)
attach(c, r) == byPeer' = [byPeer EXCEPT ![Owner(c, r)][Remote(c, r)] = <<c, r>>]

(* The listener answers the first message. *)
Answer(c) ==
    /\ hs[c] = 1
    /\ end[c]["L"] = "hello"
    /\ hs' = [hs EXCEPT ![c] = 2]
    /\ UNCHANGED <<running, tables, call, end, bounded>>

(* The dialler's handshake ends; _dial's callback runs before _attach. *)
SecureD(c) ==
    LET n == call[c].from
        id == call[c].id
    IN  /\ end[c]["D"] = "hello"
        /\ hs[c] = 2
        /\ end' = [end EXCEPT ![c]["D"] = "secure"]
        /\ hs' = [hs EXCEPT ![c] = 3]
        /\ dialing' = [dialing EXCEPT ![n] = @ \ {id}]
        /\ sessions' = IF id = None THEN sessions ELSE [sessions EXCEPT ![n][id] = <<c, "D">>]
        /\ attach(c, "D")
        /\ UNCHANGED <<running, known, call, bounded>>

SecureL(c) ==
    /\ hs[c] = 3
    /\ end[c]["L"] = "hello"
    /\ end' = [end EXCEPT ![c]["L"] = "secure"]
    /\ attach(c, "L")
    /\ UNCHANGED <<running, known, dialing, sessions, call, hs, bounded>>

(* Mutant: a dial that fails keeps its mark. *)
unmark_Never(c, r) == dialing' = dialing

(* The handlers of _dial for "error" and "close" drop the mark of the dial.  *)
unmark(c, r) ==
    dialing' = IF r = "D" THEN [dialing EXCEPT ![call[c].from] = @ \ {call[c].id}]
               ELSE dialing

(* PeerManager deletes whatever connection is under the identifier. *)
forget(c, r) ==
    sessions' = IF r = "D" /\ call[c].id # None
                THEN [sessions EXCEPT ![call[c].from][call[c].id] = None] ELSE sessions

(* Mutants: the node deletes whatever is under the peer; or nothing. *)
detach_Any(c, r) == byPeer' = [byPeer EXCEPT ![Owner(c, r)][Remote(c, r)] = None]

detach_Never(c, r) == byPeer' = byPeer

(* The node deletes the connection that is closed, if it is the one entered. *)
detach(c, r) ==
    byPeer' = IF byPeer[Owner(c, r)][Remote(c, r)] = <<c, r>>
              THEN [byPeer EXCEPT ![Owner(c, r)][Remote(c, r)] = None] ELSE byPeer

(* The handshake timer of an end fires.  It is the one failure after which   *)
(* a tick may run before the "close" event: both are timers.                 *)
HandshakeTimeout(c, r) ==
    /\ end[c][r] = "hello"
    /\ timeouts < MaxTimeouts
    /\ timeouts' = timeouts + 1
    /\ end' = [end EXCEPT ![c][r] = "failing"]
    /\ unmark(c, r)
    /\ UNCHANGED <<running, known, sessions, byPeer, call, hs, bootstrap, breaks>>

(* The "close" event of an end; a connection is free when both have it. *)
Closed(c, r) ==
    /\ end' = [end EXCEPT ![c][r] = "gone"]
    /\ unmark(c, r)
    /\ forget(c, r)
    /\ detach(c, r)
    /\ IF \A q \in Role \ {r} : end[c][q] = "gone"
       THEN /\ call' = [call EXCEPT ![c] = NoCall]
            /\ hs' = [hs EXCEPT ![c] = 0]
       ELSE UNCHANGED <<call, hs>>

(* The "close" event of an end that failed or was closed, or whose other end *)
(* did; an error of the handshake comes with it.                             *)
CloseEvent(c, r) ==
    /\ end[c][r] # "gone"
    /\ {end[c][q] : q \in Role} \cap {"failing", "closing", "gone"} # {}
    /\ Closed(c, r)
    /\ UNCHANGED <<running, known, bounded>>

(* The connection is lost: one end notices first. *)
Break(c, r) ==
    /\ end[c][r] # "gone"
    /\ breaks < MaxBreaks
    /\ breaks' = breaks + 1
    /\ Closed(c, r)
    /\ UNCHANGED <<running, known, bootstrap, timeouts>>

(* PeerManager.stop(): the sessions it opened are closed; dials under way go *)
(* on.                                                                       *)
managerStop(n) ==
    /\ end' = [c \in Conn |-> [r \in Role |->
                 IF end[c][r] = "secure" /\ <<c, r>> \in Range(sessions[n])
                 THEN "closing" ELSE end[c][r]]]
    /\ sessions' = [sessions EXCEPT ![n] = [id \in Id |-> None]]
    /\ UNCHANGED dialing

(* AttestP2PNode.stop(): the server, discovery and PeerManager end.  The     *)
(* sessions that others opened, and those of connect(), go on.               *)
stop(n) ==
    /\ n \in Stoppable
    /\ running[n]
    /\ running' = [running EXCEPT ![n] = FALSE]
    /\ managerStop(n)
    /\ UNCHANGED <<known, byPeer, call, hs, bounded>>

-----------------------------------------------------------------------------

Next ==
    \/ \E n \in Node :
         \/ tick(n)
         \/ stop(n)
         \/ \E m \in Node : connect(n, m)
         \/ \E id \in Id : prune(n, id)
         \/ \E a \in Announced[n] : recvAnnounce(n, a[1], a[2])
    \/ \E c \in Conn :
         \/ Answer(c) \/ SecureD(c) \/ SecureL(c)
         \/ \E r \in Role : HandshakeTimeout(c, r) \/ CloseEvent(c, r) \/ Break(c, r)

Spec == Init /\ [][Next]_vars

(* The interval of PeerManager fires, the network carries handshakes unless  *)
(* they time out, sockets emit their "close" event, and a silent peer is     *)
(* pruned.                                                                   *)
Progress(c) ==
    Answer(c) \/ SecureD(c) \/ SecureL(c) \/ \E r \in Role : CloseEvent(c, r)

Silent(n, id) == known[n][id] \in {m \in Node : ~running[m]}

Fairness ==
    /\ \A n \in Node : /\ WF_vars(tick(n))
                        /\ WF_vars(\E id \in Id : Silent(n, id) /\ prune(n, id))
    /\ \A c \in Conn : WF_vars(Progress(c))

FairSpec == Spec /\ Fairness

-----------------------------------------------------------------------------
(* Properties *)

(* Types; no table ever holds the node itself as a peer to dial              *)
(* (udpDiscovery.js 47, peerManager.js 34).                                  *)
TypeOK ==
    /\ running \in [Node -> BOOLEAN]
    /\ known \in [Node -> [Id -> Node \cup {None}]]
    /\ dialing \in [Node -> SUBSET Id]
    /\ sessions \in [Node -> [Id -> End \cup {None}]]
    /\ byPeer \in [Node -> [Id -> End \cup {None}]]
    /\ call \in [Conn -> [from : Node, to : Node, id : Id \cup {None}] \cup {NoCall}]
    /\ end \in [Conn -> [Role -> EndState]]
    /\ hs \in [Conn -> 0..3]
    /\ bootstrap \in SUBSET Bootstrap
    /\ timeouts \in 0..MaxTimeouts /\ breaks \in 0..MaxBreaks
    /\ \A n \in Node : known[n][n] = None /\ n \notin dialing[n]

OpenAt(n) ==
    {e \in End : Owner(e[1], e[2]) = n /\ end[e[1]][e[2]] \in {"secure", "closing"}}

(* Both tables hold connections whose "close" event the node has not seen,   *)
(* whatever replaced sessions, mutual dials, late closes and stop() do to    *)
(* them: nothing is sent to a dead session for ever, and no peer is held for *)
(* connected that is not (peerManager.js 43-52, attestp2pNode.js 92-98).     *)
EntriesOpen ==
    \A n \in Node, id \in Id :
        {sessions[n][id], byPeer[n][id]} \subseteq OpenAt(n) \cup {None}

(* What sendMessage sends to a peer goes to the node with that key, also     *)
(* when another answered at the address announced for it (92-98, 123-127).   *)
AuthenticatedRoute ==
    \A n \in Node, id \in Id :
        LET e == byPeer[n][id]
        IN  e # None => Owner(e[1], e[2]) = n /\ Remote(e[1], e[2]) = id

(* What peerManager.js 2 says, "Déduplique par nodeId (une session par       *)
(* pair)": a manager has no two connections it dialled for one identifier.   *)
OneDialPerPeer ==
    \A n \in Node, id \in Id :
        Cardinality({c \in Conn : /\ call[c].from = n /\ call[c].id = id
                                  /\ end[c]["D"] \in {"hello", "secure"}}) <= 1

(* The close of a connection that was replaced does not take the entry of    *)
(* the one that replaced it (attestp2pNode.js 97).                           *)
EntryKept ==
    [][\A n \in Node, id \in Id :
         byPeer[n][id] # None /\ byPeer'[n][id] = None =>
             byPeer[n][id] \notin OpenAt(n)']_vars

Heard(n) == {h[1] : h \in Announced[n]} \ {n}

(* Every dial ends: the mark in dialing, which keeps the peer from being     *)
(* dialled again, does not stay (peerManager.js 42-52).                      *)
DialEnds ==
    \A n \in Node : \A id \in Heard(n) : id \in dialing[n] ~> id \notin dialing[n]

(* A running peer that stays in the table gets a session, after lost         *)
(* connections, failed dials and races between them too (31-39).             *)
PeersReached ==
    \A n \in Node : \A id \in Heard(n) :
        known[n][id] # None ~>
            \/ sessions[n][id] # None
            \/ known[n][id] = None
            \/ ~running[n]
=============================================================================
