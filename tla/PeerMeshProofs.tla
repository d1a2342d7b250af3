--------------------------- MODULE PeerMeshProofs ---------------------------
(***************************************************************************)
(* The session tables of nodes that dial each other, for any number of     *)
(* nodes, identifiers and connections, whatever is announced.              *)
(***************************************************************************)
EXTENDS PeerMesh, TLAPS

Call == [from : Node, to : Node, id : Id \cup {None}]

(* A connection that is not over at both ends was opened by a node.          *)
Dialled == \A c \in Conn : c \notin Free => call[c] \in Call

(* An entry of sessionsByPeer is an open end of a connection to that peer.   *)
Routed ==
    \A n \in Node, id \in Id, c \in Conn, r \in Role :
        byPeer[n][id] = <<c, r>> =>
            /\ Owner(c, r) = n /\ Remote(c, r) = id
            /\ end[c][r] \in {"secure", "closing"}

(* An entry of PeerManager.sessions is the dialling end of a connection that *)
(* the manager opened for that identifier.                                   *)
Managed ==
    \A n \in Node, id \in Id, c \in Conn, r \in Role :
        sessions[n][id] = <<c, r>> =>
            /\ r = "D" /\ call[c].from = n /\ call[c].id = id
            /\ end[c]["D"] \in {"secure", "closing"}

MeshInv == TypeOK /\ Dialled /\ Routed /\ Managed

LEMMA InitMesh == Init => MeshInv
  <1> SUFFICES ASSUME Init PROVE MeshInv
    OBVIOUS
  <1> USE PeerMeshAssumption DEF Init, ManagerInit
  <1>1. TypeOK
    BY DEF TypeOK, EndState
  <1>2. Dialled
    BY DEF Dialled, Free
  <1>3. Routed /\ Managed
    BY DEF Routed, Managed, End
  <1> QED
    BY <1>1, <1>2, <1>3 DEF MeshInv

-----------------------------------------------------------------------------
(* Calls are placed on free connections, each of them becomes the call of    *)
(* one of these, and the other connections are left alone.                   *)
LEMMA OpensFacts ==
    ASSUME MeshInv, NEW calls \in SUBSET Call, Opens(calls)
    PROVE  /\ call' \in [Conn -> Call \cup {NoCall}]
           /\ end' \in [Conn -> [Role -> EndState]]
           /\ hs' \in [Conn -> 0..3]
           /\ \A c \in Conn :
                \/ c \in Free /\ call'[c] \in Call
                \/ call'[c] = call[c] /\ end'[c] = end[c]
  <1> DEFINE placed == {g \in [calls -> Free] : IsInjective(g)}
             f == CHOOSE g \in placed : TRUE
             At(c) == CHOOSE k \in calls : f[k] = c
             L(c) == IF running[At(c).to] THEN "hello" ELSE "gone"
  <1>1. /\ placed # {}
        /\ call' = [c \in Conn |-> IF c \in Range(f) THEN At(c) ELSE call[c]]
        /\ end' = [c \in Conn |-> IF c \in Range(f)
                                  THEN [D |-> "hello", L |-> L(c)] ELSE end[c]]
        /\ hs' = [c \in Conn |-> IF c \in Range(f) THEN 1 ELSE hs[c]]
    BY DEF Opens
  <1>2. f \in [calls -> Free]
    BY <1>1
  <1>3. \A c \in Range(f) : c \in Free /\ At(c) \in Call
    <2> SUFFICES ASSUME NEW c \in Range(f) PROVE c \in Free /\ At(c) \in Call
      OBVIOUS
    <2>1. PICK k \in calls : f[k] = c
      BY <1>2 DEF Range
    <2>2. At(c) \in calls
      BY <2>1
    <2> QED
      BY <1>2, <2>1, <2>2
  <1>4. \A c : [D |-> "hello", L |-> L(c)] \in [Role -> EndState]
    <2> TAKE c
    <2>1. L(c) \in EndState
      BY DEF EndState
    <2> HIDE DEF L
    <2> QED
      BY <2>1 DEF Role, EndState
  <1> HIDE DEF f, At, L
  <1>5. /\ call \in [Conn -> Call \cup {NoCall}]
        /\ end \in [Conn -> [Role -> EndState]]
        /\ hs \in [Conn -> 0..3]
    BY DEF MeshInv, TypeOK, Call
  <1>6. call' \in [Conn -> Call \cup {NoCall}]
    BY <1>1, <1>3, <1>5
  <1>7. end' \in [Conn -> [Role -> EndState]]
    BY <1>1, <1>4, <1>5
  <1>8. hs' \in [Conn -> 0..3]
    BY <1>1, <1>5
  <1>9. ASSUME NEW c \in Conn
        PROVE  \/ c \in Free /\ call'[c] \in Call
               \/ call'[c] = call[c] /\ end'[c] = end[c]
    BY <1>1, <1>3
  <1> QED
    BY <1>6, <1>7, <1>8, <1>9

(* No entry of either table is disturbed when calls are made. *)
LEMMA OpensMesh ==
    ASSUME MeshInv, NEW calls \in SUBSET Call, Opens(calls),
           UNCHANGED <<sessions, byPeer>>
    PROVE  Dialled' /\ Routed' /\ Managed'
  <1>1. Dialled'
    <2> SUFFICES ASSUME NEW c \in Conn, ~(c \in Free)' PROVE call'[c] \in Call
      BY DEF Dialled, Call
    <2> QED
      BY OpensFacts DEF MeshInv, Dialled, Free
  <1>2. Routed'
    BY OpensFacts DEF MeshInv, Routed, Free, Owner, Remote
  <1>3. Managed'
    BY OpensFacts DEF MeshInv, Managed, Free, Role
  <1> QED
    BY <1>1, <1>2, <1>3

-----------------------------------------------------------------------------
(* The entries and the calls depend on these variables only. *)
LEMMA FrameMesh ==
    ASSUME MeshInv, UNCHANGED <<sessions, byPeer, call, end>>
    PROVE  Dialled' /\ Routed' /\ Managed'
  BY DEF MeshInv, Dialled, Routed, Managed, Free, Owner, Remote, Call

Table == [Node -> [Id -> End \cup {None}]]

(* One entry of a table changes. *)
LEMMA EntryFacts ==
    ASSUME NEW t \in Table, NEW n \in Node, NEW id \in Id, NEW e \in End \cup {None}
    PROVE  /\ [t EXCEPT ![n][id] = e] \in Table
           /\ \A m \in Node, j \in Id :
                [t EXCEPT ![n][id] = e][m][j] = IF m = n /\ j = id THEN e ELSE t[m][j]
  BY DEF Table

LEMMA EndFacts ==
    ASSUME NEW c \in Conn, NEW r \in Role
    PROVE  /\ <<c, r>> \in End /\ <<c, r>> # None
           /\ \A d, q : <<c, r>> = <<d, q>> => c = d /\ r = q
  BY PeerMeshAssumption DEF End

LEMMA AnnounceMesh ==
    ASSUME MeshInv, NEW n \in Node, NEW id \in Id, NEW at \in Node \cup {None},
           known' = [known EXCEPT ![n][id] = at], id = n => at = None,
           UNCHANGED <<running, dialing, sessions, byPeer, connVars, bounded>>
    PROVE  MeshInv'
  <1>1. TypeOK'
    BY PeerMeshAssumption DEF MeshInv, TypeOK, connVars, bounded
  <1> QED
    BY <1>1, FrameMesh DEF MeshInv, connVars

LEMMA TickMesh ==
    ASSUME MeshInv, NEW n \in Node, tick(n)
    PROVE  MeshInv'
  <1> DEFINE calls == {[from |-> n, to |-> known[n][id], id |-> id] : id \in ToDial(n)}
  <1>1. calls \in SUBSET Call
    BY DEF MeshInv, TypeOK, ToDial, Call
  <1>2. Opens(calls)
    BY DEF tick
  <1> HIDE DEF calls
  <1>3. TypeOK'
    BY <1>1, <1>2, OpensFacts DEF tick, MeshInv, TypeOK, ToDial, bounded, Call
  <1>4. Dialled' /\ Routed' /\ Managed'
    BY <1>1, <1>2, OpensMesh DEF tick
  <1> QED
    BY <1>3, <1>4 DEF MeshInv

LEMMA ConnectMesh ==
    ASSUME MeshInv, NEW n \in Node, NEW m \in Node, connect(n, m)
    PROVE  MeshInv'
  <1> DEFINE calls == {[from |-> n, to |-> m, id |-> None]}
  <1>1. calls \in SUBSET Call
    BY DEF Call
  <1>2. Opens(calls)
    BY DEF connect
  <1> HIDE DEF calls
  <1>3. TypeOK'
    BY <1>1, <1>2, OpensFacts DEF connect, MeshInv, TypeOK, tables, Call
  <1>4. Dialled' /\ Routed' /\ Managed'
    BY <1>1, <1>2, OpensMesh DEF connect, tables
  <1> QED
    BY <1>3, <1>4 DEF MeshInv

LEMMA AnswerMesh ==
    ASSUME MeshInv, NEW c \in Conn, Answer(c)
    PROVE  MeshInv'
  <1>1. TypeOK'
    BY DEF Answer, MeshInv, TypeOK, tables, bounded
  <1> QED
    BY <1>1, FrameMesh DEF Answer, MeshInv, tables

LEMMA SecureDMesh ==
    ASSUME MeshInv, NEW c \in Conn, SecureD(c)
    PROVE  MeshInv'
  <1>1. call[c] \in Call /\ end[c]["D"] = "hello"
    BY DEF SecureD, MeshInv, Dialled, Free, Role
  <1>2. /\ end' = [end EXCEPT ![c]["D"] = "secure"]
        /\ byPeer' = [byPeer EXCEPT ![call[c].from][call[c].to] = <<c, "D">>]
        /\ sessions' = IF call[c].id = None THEN sessions
                       ELSE [sessions EXCEPT ![call[c].from][call[c].id] = <<c, "D">>]
        /\ dialing' = [dialing EXCEPT ![call[c].from] = @ \ {call[c].id}]
        /\ hs' = [hs EXCEPT ![c] = 3]
        /\ UNCHANGED <<running, known, call, bounded>>
    BY DEF SecureD, attach, Owner, Remote
  <1>3. TypeOK'
    BY <1>1, <1>2, PeerMeshAssumption
       DEF MeshInv, TypeOK, Call, EndState, Role, End, bounded
  <1>4. Dialled'
    BY <1>1, <1>2 DEF MeshInv, TypeOK, Dialled, Free, Role, Call
  <1>5. Routed'
    <2> SUFFICES ASSUME NEW n \in Node, NEW id \in Id, NEW d \in Conn, NEW q \in Role,
                        byPeer'[n][id] = <<d, q>>
                 PROVE  /\ Owner(d, q)' = n /\ Remote(d, q)' = id
                        /\ end'[d][q] \in {"secure", "closing"}
      BY DEF Routed
    <2>1. byPeer'[n][id] = IF n = call[c].from /\ id = call[c].to THEN <<c, "D">>
                           ELSE byPeer[n][id]
      BY <1>1, <1>2, EntryFacts, EndFacts, PeerMeshAssumption
         DEF MeshInv, TypeOK, Table, Call, Role
    <2>2. end'[d][q] = IF d = c /\ q = "D" THEN "secure" ELSE end[d][q]
      BY <1>2 DEF MeshInv, TypeOK, Role
    <2>3. CASE byPeer[n][id] = <<d, q>>
      <3>1. Owner(d, q) = n /\ Remote(d, q) = id /\ end[d][q] \in {"secure", "closing"}
        BY <2>3 DEF MeshInv, Routed
      <3> QED
        BY <1>2, <2>2, <3>1 DEF Owner, Remote
    <2>4. CASE byPeer[n][id] # <<d, q>>
      <3>1. n = call[c].from /\ id = call[c].to /\ d = c /\ q = "D"
        BY <2>1, <2>4, EndFacts DEF Role
      <3> QED
        BY <1>2, <2>2, <3>1 DEF Owner, Remote
    <2> QED
      BY <2>3, <2>4
  <1>6. Managed'
    <2> SUFFICES ASSUME NEW n \in Node, NEW id \in Id, NEW d \in Conn, NEW q \in Role,
                        sessions'[n][id] = <<d, q>>
                 PROVE  /\ q = "D" /\ call'[d].from = n /\ call'[d].id = id
                        /\ end'[d]["D"] \in {"secure", "closing"}
      BY DEF Managed
    <2>1. sessions'[n][id] = IF n = call[c].from /\ id = call[c].id THEN <<c, "D">>
                             ELSE sessions[n][id]
      BY <1>1, <1>2, EntryFacts, EndFacts, PeerMeshAssumption
         DEF MeshInv, TypeOK, Table, Call, Role
    <2>2. end'[d]["D"] = IF d = c THEN "secure" ELSE end[d]["D"]
      BY <1>2 DEF MeshInv, TypeOK, Role
    <2>3. CASE sessions[n][id] = <<d, q>>
      <3>1. /\ q = "D" /\ call[d].from = n /\ call[d].id = id
            /\ end[d]["D"] \in {"secure", "closing"}
        BY <2>3 DEF MeshInv, Managed
      <3> QED
        BY <1>2, <2>2, <3>1
    <2>4. CASE sessions[n][id] # <<d, q>>
      <3>1. n = call[c].from /\ id = call[c].id /\ d = c /\ q = "D"
        BY <2>1, <2>4, EndFacts DEF Role
      <3> QED
        BY <1>2, <2>2, <3>1
    <2> QED
      BY <2>3, <2>4
  <1> QED
    BY <1>3, <1>4, <1>5, <1>6 DEF MeshInv

LEMMA SecureLMesh ==
    ASSUME MeshInv, NEW c \in Conn, SecureL(c)
    PROVE  MeshInv'
  <1>1. call[c] \in Call /\ end[c]["L"] = "hello"
    BY DEF SecureL, MeshInv, Dialled, Free, Role
  <1>2. /\ end' = [end EXCEPT ![c]["L"] = "secure"]
        /\ byPeer' = [byPeer EXCEPT ![call[c].to][call[c].from] = <<c, "L">>]
        /\ UNCHANGED <<running, known, dialing, sessions, call, hs, bounded>>
    BY DEF SecureL, attach, Owner, Remote
  <1>3. TypeOK'
    BY <1>1, <1>2, PeerMeshAssumption
       DEF MeshInv, TypeOK, Call, EndState, Role, End, bounded
  <1>4. Dialled'
    BY <1>1, <1>2 DEF MeshInv, TypeOK, Dialled, Free, Role, Call
  <1>5. Routed'
    <2> SUFFICES ASSUME NEW n \in Node, NEW id \in Id, NEW d \in Conn, NEW q \in Role,
                        byPeer'[n][id] = <<d, q>>
                 PROVE  /\ Owner(d, q)' = n /\ Remote(d, q)' = id
                        /\ end'[d][q] \in {"secure", "closing"}
      BY DEF Routed
    <2>1. byPeer'[n][id] = IF n = call[c].to /\ id = call[c].from THEN <<c, "L">>
                           ELSE byPeer[n][id]
      BY <1>1, <1>2, EntryFacts, EndFacts, PeerMeshAssumption
         DEF MeshInv, TypeOK, Table, Call, Role
    <2>2. end'[d][q] = IF d = c /\ q = "L" THEN "secure" ELSE end[d][q]
      BY <1>2 DEF MeshInv, TypeOK, Role
    <2>3. CASE byPeer[n][id] = <<d, q>>
      <3>1. Owner(d, q) = n /\ Remote(d, q) = id /\ end[d][q] \in {"secure", "closing"}
        BY <2>3 DEF MeshInv, Routed
      <3> QED
        BY <1>2, <2>2, <3>1 DEF Owner, Remote
    <2>4. CASE byPeer[n][id] # <<d, q>>
      <3>1. n = call[c].to /\ id = call[c].from /\ d = c /\ q = "L"
        BY <2>1, <2>4, EndFacts DEF Role
      <3> QED
        BY <1>2, <2>2, <3>1 DEF Owner, Remote
    <2> QED
      BY <2>3, <2>4
  <1>6. Managed'
    BY <1>1, <1>2, PeerMeshAssumption DEF MeshInv, TypeOK, Managed, Role, Call
  <1> QED
    BY <1>3, <1>4, <1>5, <1>6 DEF MeshInv

LEMMA HandshakeTimeoutMesh ==
    ASSUME MeshInv, NEW c \in Conn, NEW r \in Role, HandshakeTimeout(c, r)
    PROVE  MeshInv'
  <1>1. call[c] \in Call /\ end[c][r] = "hello"
    BY DEF HandshakeTimeout, MeshInv, Dialled, Free, Role
  <1>2. TypeOK'
    BY <1>1, PeerMeshAssumption
       DEF HandshakeTimeout, unmark, MeshInv, TypeOK, Call, EndState, Role
  <1>3. Dialled'
    BY <1>1 DEF HandshakeTimeout, MeshInv, TypeOK, Dialled, Free, Call
  <1>4. Routed'
    BY <1>1 DEF HandshakeTimeout, MeshInv, TypeOK, Routed, Owner, Remote
  <1>5. Managed'
    BY <1>1 DEF HandshakeTimeout, MeshInv, TypeOK, Managed, Role
  <1> QED
    BY <1>2, <1>3, <1>4, <1>5 DEF MeshInv

(* The close of an end takes its own entries and leaves those of others      *)
(* sound.                                                                    *)
LEMMA ClosedMesh ==
    ASSUME MeshInv, NEW c \in Conn, NEW r \in Role, end[c][r] # "gone", Closed(c, r),
           UNCHANGED <<running, known, bootstrap>>,
           timeouts' \in 0..MaxTimeouts, breaks' \in 0..MaxBreaks
    PROVE  MeshInv'
  <1>1. call[c] \in Call
    BY DEF MeshInv, Dialled, Free
  <1>2. end' = [end EXCEPT ![c][r] = "gone"]
    BY DEF Closed
  <1> DEFINE n0 == Owner(c, r)
             id0 == Remote(c, r)
  <1>a. n0 \in Node /\ id0 \in Id
    BY <1>1, PeerMeshAssumption DEF Owner, Remote, Call
  <1>b. /\ byPeer' \in Table
        /\ \A n \in Node, id \in Id :
             byPeer'[n][id] = IF n = n0 /\ id = id0 /\ byPeer[n][id] = <<c, r>>
                              THEN None ELSE byPeer[n][id]
    <2>1. byPeer \in Table
      BY DEF MeshInv, TypeOK, Table
    <2>2. byPeer' = IF byPeer[n0][id0] = <<c, r>> THEN [byPeer EXCEPT ![n0][id0] = None]
                    ELSE byPeer
      BY DEF Closed, detach
    <2> HIDE DEF n0, id0
    <2> QED
      BY <1>a, <2>1, <2>2, EntryFacts
  <1>c. /\ sessions' \in Table
        /\ \A n \in Node, id \in Id :
             sessions'[n][id] = IF r = "D" /\ n = call[c].from /\ id = call[c].id
                                THEN None ELSE sessions[n][id]
    <2>1. sessions \in Table
      BY DEF MeshInv, TypeOK, Table
    <2>2. sessions' = IF r = "D" /\ call[c].id # None
                      THEN [sessions EXCEPT ![call[c].from][call[c].id] = None]
                      ELSE sessions
      BY DEF Closed, forget
    <2>3. call[c].from \in Node /\ call[c].id \in Id \cup {None} /\ None \notin Id
      BY <1>1, PeerMeshAssumption DEF Call
    <2> QED
      BY <2>1, <2>2, <2>3, EntryFacts
  <1>3. TypeOK'
    <2>1. dialing' \in [Node -> SUBSET Id] /\ \A n \in Node : n \notin dialing'[n]
      BY <1>1 DEF Closed, unmark, MeshInv, TypeOK, Call
    <2>2. /\ end' \in [Conn -> [Role -> EndState]]
          /\ call' \in [Conn -> Call \cup {NoCall}]
          /\ hs' \in [Conn -> 0..3]
      <3>1. end' \in [Conn -> [Role -> EndState]]
        BY <1>2 DEF MeshInv, TypeOK, EndState
      <3>2. call \in [Conn -> Call \cup {NoCall}] /\ hs \in [Conn -> 0..3]
        BY DEF MeshInv, TypeOK, Call
      <3>3. \/ call' = [call EXCEPT ![c] = NoCall] /\ hs' = [hs EXCEPT ![c] = 0]
            \/ UNCHANGED <<call, hs>>
        BY DEF Closed
      <3> QED
        BY <3>1, <3>2, <3>3
    <2> QED
      BY <1>b, <1>c, <2>1, <2>2 DEF MeshInv, TypeOK, Table, Call
  <1>4. \A d \in Conn : d # c => call'[d] = call[d]
    BY DEF Closed, MeshInv, TypeOK
  <1>5. \A q \in Role : end[c][q] # "gone" /\ q # r => call'[c] = call[c]
    BY DEF Closed, MeshInv, TypeOK
  <1>6. Dialled'
    <2> SUFFICES ASSUME NEW d \in Conn, NEW q \in Role, end'[d][q] # "gone"
                 PROVE  call'[d] \in Call
      BY DEF Dialled, Free, Call
    <2>1. end[d][q] # "gone" /\ (d = c => q # r)
      BY <1>2 DEF MeshInv, TypeOK
    <2> QED
      BY <1>4, <1>5, <2>1 DEF MeshInv, Dialled, Free
  <1>7. Routed'
    <2> SUFFICES ASSUME NEW n \in Node, NEW id \in Id, NEW d \in Conn, NEW q \in Role,
                        byPeer'[n][id] = <<d, q>>
                 PROVE  /\ Owner(d, q)' = n /\ Remote(d, q)' = id
                        /\ end'[d][q] \in {"secure", "closing"}
      BY DEF Routed
    <2>1. byPeer[n][id] = <<d, q>>
      BY <1>b, EndFacts
    <2>2. /\ Owner(d, q) = n /\ Remote(d, q) = id
          /\ end[d][q] \in {"secure", "closing"}
      BY <2>1 DEF MeshInv, Routed
    <2>3. ~(d = c /\ q = r)
      <3> SUFFICES ASSUME d = c, q = r PROVE FALSE
        OBVIOUS
      <3>1. byPeer'[n][id] = None
        BY <1>b, <2>1, <2>2
      <3> QED
        BY <3>1, EndFacts
    <2>4. end'[d][q] = end[d][q]
      BY <1>2, <2>3 DEF MeshInv, TypeOK
    <2>5. call'[d] = call[d]
      BY <1>4, <1>5, <2>2, <2>3
    <2> QED
      BY <2>2, <2>4, <2>5 DEF Owner, Remote
  <1>8. Managed'
    <2> SUFFICES ASSUME NEW n \in Node, NEW id \in Id, NEW d \in Conn, NEW q \in Role,
                        sessions'[n][id] = <<d, q>>
                 PROVE  /\ q = "D" /\ call'[d].from = n /\ call'[d].id = id
                        /\ end'[d]["D"] \in {"secure", "closing"}
      BY DEF Managed
    <2>0. <<d, q>> # None
      BY EndFacts
    <2>1. sessions[n][id] = <<d, q>>
      BY <1>c, <2>0
    <2>2. /\ q = "D" /\ call[d].from = n /\ call[d].id = id
          /\ end[d]["D"] \in {"secure", "closing"}
      BY <2>1 DEF MeshInv, Managed
    <2>3. ~(d = c /\ q = r)
      <3> SUFFICES ASSUME d = c, q = r PROVE FALSE
        OBVIOUS
      <3>1. sessions'[n][id] = None
        BY <1>c, <2>1, <2>2
      <3> QED
        BY <2>0, <3>1
    <2>4. end'[d]["D"] = end[d]["D"]
      BY <1>2, <2>2, <2>3 DEF MeshInv, TypeOK, Role
    <2>5. call'[d] = call[d]
      BY <1>4, <1>5, <2>2, <2>3 DEF Role
    <2> QED
      BY <2>2, <2>4, <2>5
  <1> QED
    BY <1>3, <1>6, <1>7, <1>8 DEF MeshInv

LEMMA StopMesh ==
    ASSUME MeshInv, NEW n \in Node, stop(n)
    PROVE  MeshInv'
  <1>1. /\ end' \in [Conn -> [Role -> EndState]]
        /\ \A c \in Conn, r \in Role :
             \/ end'[c][r] = end[c][r]
             \/ end[c][r] = "secure" /\ end'[c][r] = "closing"
    BY DEF stop, managerStop, MeshInv, TypeOK, EndState
  <1>2. sessions' = [sessions EXCEPT ![n] = [id \in Id |-> None]]
    BY DEF stop, managerStop
  <1>3. TypeOK'
    BY <1>1, <1>2 DEF stop, managerStop, MeshInv, TypeOK, bounded
  <1>4. Dialled'
    BY <1>1 DEF stop, MeshInv, Dialled, Free, Call
  <1>5. Routed'
    BY <1>1 DEF stop, MeshInv, Routed, Owner, Remote
  <1>6. Managed'
    <2> SUFFICES ASSUME NEW m \in Node, NEW id \in Id, NEW c \in Conn, NEW r \in Role,
                        sessions'[m][id] = <<c, r>>
                 PROVE  /\ r = "D" /\ call'[c].from = m /\ call'[c].id = id
                        /\ end'[c]["D"] \in {"secure", "closing"}
      BY DEF Managed
    <2>1. sessions[m][id] = <<c, r>>
      BY <1>2, EndFacts DEF MeshInv, TypeOK
    <2> QED
      BY <1>1, <2>1 DEF stop, MeshInv, Managed, Role
  <1> QED
    BY <1>3, <1>4, <1>5, <1>6 DEF MeshInv

LEMMA NextMesh == MeshInv /\ [Next]_vars => MeshInv'
  <1> SUFFICES ASSUME MeshInv, [Next]_vars PROVE MeshInv'
    OBVIOUS
  <1>1. ASSUME NEW n \in Node, tick(n) PROVE MeshInv'
    BY <1>1, TickMesh
  <1>2. ASSUME NEW n \in Node, stop(n) PROVE MeshInv'
    BY <1>2, StopMesh
  <1>3. ASSUME NEW n \in Node, NEW m \in Node, connect(n, m) PROVE MeshInv'
    BY <1>3, ConnectMesh
  <1>4. ASSUME NEW n \in Node, NEW id \in Id, prune(n, id) PROVE MeshInv'
    BY <1>4, AnnounceMesh DEF prune
  <1>5. ASSUME NEW n \in Node, NEW a \in Announced[n], recvAnnounce(n, a[1], a[2])
        PROVE  MeshInv'
    <2>1. a[1] \in Id /\ a[2] \in Node
      BY PeerMeshAssumption
    <2> QED
      BY <1>5, <2>1, AnnounceMesh DEF recvAnnounce
  <1>6. ASSUME NEW c \in Conn, Answer(c) PROVE MeshInv'
    BY <1>6, AnswerMesh
  <1>7. ASSUME NEW c \in Conn, SecureD(c) PROVE MeshInv'
    BY <1>7, SecureDMesh
  <1>8. ASSUME NEW c \in Conn, SecureL(c) PROVE MeshInv'
    BY <1>8, SecureLMesh
  <1>9. ASSUME NEW c \in Conn, NEW r \in Role, HandshakeTimeout(c, r) PROVE MeshInv'
    BY <1>9, HandshakeTimeoutMesh
  <1>10. ASSUME NEW c \in Conn, NEW r \in Role, CloseEvent(c, r) PROVE MeshInv'
    <2>1. timeouts' \in 0..MaxTimeouts /\ breaks' \in 0..MaxBreaks
      BY <1>10 DEF CloseEvent, bounded, MeshInv, TypeOK
    <2> QED
      BY <1>10, <2>1, ClosedMesh DEF CloseEvent, bounded
  <1>11. ASSUME NEW c \in Conn, NEW r \in Role, Break(c, r) PROVE MeshInv'
    <2>1. timeouts' \in 0..MaxTimeouts /\ breaks' \in 0..MaxBreaks
      BY <1>11, PeerMeshAssumption DEF Break, MeshInv, TypeOK
    <2> QED
      BY <1>11, <2>1, ClosedMesh DEF Break
  <1>12. CASE UNCHANGED vars
    <2>1. TypeOK'
      BY <1>12 DEF vars, MeshInv, TypeOK
    <2> QED
      BY <1>12, <2>1, FrameMesh DEF vars, MeshInv
  <1> QED
    BY <1>1, <1>2, <1>3, <1>4, <1>5, <1>6, <1>7, <1>8, <1>9, <1>10, <1>11, <1>12
       DEF Next

-----------------------------------------------------------------------------
(* The inductive invariant holds in every reachable state. *)
THEOREM MeshInvariant == Spec => []MeshInv
  <1> QED
    BY InitMesh, NextMesh, PTL DEF Spec

(* The tables and the connections keep their types, and no node is ever a    *)
(* peer of itself, neither in discovery's table (udpDiscovery.js 47) nor     *)
(* among the dials of PeerManager (peerManager.js 34).                       *)
THEOREM MeshTypes == Spec => []TypeOK
  <1>1. MeshInv => TypeOK
    BY DEF MeshInv
  <1> QED
    BY <1>1, MeshInvariant, PTL

(* Whatever is entered in sessions and in sessionsByPeer is an open end of   *)
(* that node: no order of dials, replacements, failures, late "close" events *)
(* and stop() leaves a dead session in a table.                              *)
THEOREM TablesOpen == Spec => []EntriesOpen
  <1>1. ASSUME MeshInv PROVE EntriesOpen
    <2> SUFFICES ASSUME NEW n \in Node, NEW id \in Id
                 PROVE  {sessions[n][id], byPeer[n][id]} \subseteq OpenAt(n) \cup {None}
      BY DEF EntriesOpen
    <2>1. ASSUME NEW c \in Conn, NEW r \in Role, Owner(c, r) = n,
                 end[c][r] \in {"secure", "closing"}
          PROVE  <<c, r>> \in OpenAt(n)
      BY <2>1 DEF OpenAt, End
    <2>2. byPeer[n][id] \in OpenAt(n) \cup {None}
      <3>1. CASE byPeer[n][id] # None
        <4>1. PICK c \in Conn, r \in Role : byPeer[n][id] = <<c, r>>
          BY <1>1, <3>1 DEF MeshInv, TypeOK, End
        <4> QED
          BY <1>1, <2>1, <4>1 DEF MeshInv, Routed
      <3> QED
        BY <3>1
    <2>3. sessions[n][id] \in OpenAt(n) \cup {None}
      <3>1. CASE sessions[n][id] # None
        <4>1. PICK c \in Conn, r \in Role : sessions[n][id] = <<c, r>>
          BY <1>1, <3>1 DEF MeshInv, TypeOK, End
        <4>2. r = "D" /\ call[c].from = n /\ end[c][r] \in {"secure", "closing"}
          BY <1>1, <4>1 DEF MeshInv, Managed
        <4> QED
          BY <2>1, <4>1, <4>2 DEF Owner
      <3> QED
        BY <3>1
    <2> QED
      BY <2>2, <2>3
  <1> QED
    BY <1>1, MeshInvariant, PTL

(* A message for a peer goes to the node that proved that identity in the    *)
(* handshake, whatever was announced at its address (attestp2pNode.js 92-98, *)
(* 123-127).                                                                 *)
THEOREM RoutesAuthenticated == Spec => []AuthenticatedRoute
  <1>1. ASSUME MeshInv PROVE AuthenticatedRoute
    <2> SUFFICES ASSUME NEW n \in Node, NEW id \in Id, byPeer[n][id] # None
                 PROVE  /\ Owner(byPeer[n][id][1], byPeer[n][id][2]) = n
                        /\ Remote(byPeer[n][id][1], byPeer[n][id][2]) = id
      BY DEF AuthenticatedRoute
    <2>1. PICK c \in Conn, r \in Role : byPeer[n][id] = <<c, r>>
      BY <1>1 DEF MeshInv, TypeOK, End
    <2> QED
      BY <1>1, <2>1 DEF MeshInv, Routed
  <1> QED
    BY <1>1, MeshInvariant, PTL

(* Only the "close" event of the session entered under a peer takes the      *)
(* entry away (attestp2pNode.js 97): the late close of a session that was    *)
(* replaced does not.                                                        *)
THEOREM EntriesKept == Spec => EntryKept
  <1> DEFINE Kept == \A n \in Node, id \in Id :
                        byPeer[n][id] # None /\ byPeer'[n][id] = None =>
                            byPeer[n][id] \notin OpenAt(n)'
  <1>1. ASSUME MeshInv, [Next]_vars, NEW n \in Node, NEW id \in Id,
               byPeer[n][id] # None, byPeer'[n][id] = None
        PROVE  byPeer[n][id] \notin OpenAt(n)'
    <2>1. ASSUME NEW c \in Conn, NEW r \in Role, Closed(c, r)
          PROVE  byPeer[n][id] = <<c, r>> /\ end'[c][r] = "gone"
      <3>1. byPeer[n][id] = <<c, r>>
        BY <1>1, <2>1 DEF Closed, detach, MeshInv, TypeOK
      <3>2. end'[c][r] = "gone"
        BY <1>1, <2>1 DEF Closed, MeshInv, TypeOK
      <3> QED
        BY <3>1, <3>2
    <2>2. ASSUME NEW c \in Conn, NEW r \in Role, Closed(c, r)
          PROVE  byPeer[n][id] \notin OpenAt(n)'
      BY <2>1, <2>2 DEF OpenAt
    <2>3. ASSUME NEW c \in Conn, NEW r \in Role, end[c][r] = "hello", attach(c, r)
          PROVE  FALSE
      <3>1. Owner(c, r) \in Node /\ Remote(c, r) \in Id
        BY <1>1, <2>3, PeerMeshAssumption
           DEF MeshInv, Dialled, Free, Owner, Remote, Call, Role
      <3>2. byPeer \in Table /\ <<c, r>> \in End /\ <<c, r>> # None
        BY <1>1, EndFacts DEF MeshInv, TypeOK, Table
      <3> QED
        BY <1>1, <2>3, <3>1, <3>2, EntryFacts DEF attach
    <2>4. ASSUME UNCHANGED byPeer PROVE FALSE
      BY <1>1, <2>4
    <2>5. ASSUME NEW c \in Conn, SecureD(c) PROVE FALSE
      BY <2>3, <2>5 DEF SecureD, Role
    <2>6. ASSUME NEW c \in Conn, SecureL(c) PROVE FALSE
      BY <2>3, <2>6 DEF SecureL, Role
    <2>7. ASSUME NEW c \in Conn, NEW r \in Role, CloseEvent(c, r) \/ Break(c, r)
          PROVE  Closed(c, r)
      BY <2>7 DEF CloseEvent, Break
    <2> QED
      BY <1>1, <2>2, <2>4, <2>5, <2>6, <2>7
         DEF Next, vars, tables, tick, stop, connect, prune, recvAnnounce, Answer,
             HandshakeTimeout
  <1>2. MeshInv /\ [Next]_vars => [Kept]_vars
    BY <1>1
  <1>3. Spec => [][Kept]_vars
    BY <1>2, MeshInvariant, PTL DEF Spec
  <1> QED
    BY <1>3 DEF EntryKept
=============================================================================
