---------------------------- MODULE FileTransfer ----------------------------
(***************************************************************************)
(* The swarm transfer of one file by src/src/file/fileNode.js over its     *)
(* chunk store (file/chunkStore.js): every node runs the same FileNode, so *)
(* it seeds, serves and downloads.  Sessions deliver in order and without  *)
(* duplicates what was sent until they break (SecureChannel); the two      *)
(* sides learn of a broken session at different times.                     *)
(*                                                                         *)
(* Chunk contents are abstract: a chunk on disk is intact, or damaged and  *)
(* then fails every SHA-256 check.  Manifests are genuine.  ACK messages   *)
(* are left out: their handler does nothing.                               *)
(***************************************************************************)
EXTENDS Naturals, Sequences, FiniteSets, SequencesExt

CONSTANTS
    Node,          \* processes, each with one FileNode
    Chunk,         \* the chunks of the file
    Link,          \* pairs of nodes that may have a session
    Disk,          \* Disk[n]: chunks in n's index.json at the start
    Damaged,       \* Damaged[n]: those whose file on disk is damaged
    Seeder,        \* nodes whose user calls seed()
    Downloader,    \* nodes whose user calls download()
    Parallel,      \* d.parallel
    MaxDownloads,  \* bound: MaxDownloads[n] is the number of download() calls of n
    MaxTimeouts,   \* bound: request timeouts of a node
    MaxBreaks,     \* bound: sessions lost on their own
    MaxRestarts    \* bound: restarts of processes

NoPeer == "none"

ASSUME FileTransferAssumption ==
    /\ NoPeer \notin Node
    /\ IsFiniteSet(Node) /\ IsFiniteSet(Chunk)
    /\ Link \subseteq {{m, n} : m, n \in Node}
    /\ \A l \in Link : Cardinality(l) = 2
    /\ Disk \in [Node -> SUBSET Chunk]
    /\ Damaged \in [Node -> SUBSET Chunk]
    /\ \A n \in Node : Damaged[n] \subseteq Disk[n]
    /\ Seeder \subseteq Node /\ Downloader \subseteq Node
    /\ Parallel \in Nat \ {0}
    /\ MaxDownloads \in [Node -> Nat]
    /\ {MaxTimeouts, MaxBreaks, MaxRestarts} \subseteq Nat

VARIABLES
    live,       \* links whose session carries messages
    chan,       \* chan[<<m, n>>]: what m sent and n has not handled
    sessions,   \* sessions[n]   : keys of this.sessions and peerHave, as attached
    have,       \* have[n][m]    : peerHave, the chunks m announced to n
    manifest,   \* manifest[n]   : this.manifests holds the file
    index,      \* index[n]      : store.index.files holds the file
    store,      \* store[n]      : its chunks field
    damaged,    \* damaged[n]    : chunks of store[n] that fail their hash
    active,     \* active[n]     : this.downloads holds the file
    need,       \* need[n]       : d.needed
    inFlight,   \* inFlight[n]   : d.inFlight, the peer each chunk is asked of
    bad,        \* bad[n]        : d.badPeerForChunk
    outcome,    \* outcome[n]    : how n's last download ended
    downloads, timeouts, breaks, restarts   \* what the bounds count

peerVars == <<sessions, have>>
diskVars == <<index, store, damaged>>
downVars == <<active, need, bad>>
countVars == <<downloads, timeouts, breaks, restarts>>
vars == <<live, chan, sessions, have, manifest, index, store, damaged, active,
          need, inFlight, bad, outcome, downloads, timeouts, breaks, restarts>>

-----------------------------------------------------------------------------
(* Messages (file/protocol.js) and sends *)

Msg(t, cs, ok) == [t |-> t, chunks |-> cs, intact |-> ok]

encManifest        == Msg("MANIFEST", {}, TRUE)
encHave(cs)        == Msg("HAVE", cs, TRUE)
encHavePiece(c)    == Msg("HAVE_PIECE", {c}, TRUE)
encChunkReq(c)     == Msg("CHUNK_REQ", {c}, TRUE)
encChunkData(c, ok) == Msg("CHUNK_DATA", {c}, ok)

Message == [t : {"MANIFEST", "HAVE", "HAVE_PIECE", "CHUNK_REQ", "CHUNK_DATA"},
            chunks : SUBSET Chunk, intact : BOOLEAN]

Attached(n) == {sessions[n][i] : i \in DOMAIN sessions[n]}

Without(s, m) == RemoveAt(s, CHOOSE i \in DOMAIN s : s[i] = m)

Nothing == [q \in Node |-> <<>>]

ToAll(n, msgs) == [q \in Node |-> IF q \in Attached(n) THEN msgs ELSE <<>>]

To(m, msgs) == [q \in Node |-> IF q = m THEN msgs ELSE <<>>]

(* n sends out[q] to each q, after the channels became ch.  A send on a      *)
(* session that broke returns normally and goes nowhere.                     *)
Emit(n, ch, out) ==
    chan' = [l \in Node \X Node |->
               IF l[1] = n /\ {l[1], l[2]} \in live THEN ch[l] \o out[l[2]] ELSE ch[l]]

Cleared(ch, links) ==
    [l \in Node \X Node |-> IF {l[1], l[2]} \in links THEN <<>> ELSE ch[l]]

Head1(m, n) == Head(chan[<<m, n>>])

Rest(m, n) == [chan EXCEPT ![<<m, n>>] = Tail(@)]

Receives(m, n, t) ==
    /\ m \in Attached(n)
    /\ chan[<<m, n>>] # <<>>
    /\ Head1(m, n).t = t

-----------------------------------------------------------------------------
(* _schedule, on the state the handler leaves: the primed variables, with    *)
(* the requests fl still in flight.                                          *)

Idle == [c \in Chunk |-> NoPeer]

Busy(fl) == {c \in Chunk : fl[c] # NoPeer}

Count(n, c) == Cardinality({q \in Node : c \in have'[n][q]})

Candidates(n, fl) == {c \in need'[n] \ Busy(fl) : Count(n, c) > 0}

(* The orders of the candidates: by availability, ties at random. *)
RarestFirst(n, fl) ==
    LET C == Candidates(n, fl)
    IN  {rank \in [C -> 1..Cardinality(C)] :
           \A a, b \in C : /\ a # b => rank[a] # rank[b]
                           /\ Count(n, a) < Count(n, b) => rank[a] < rank[b]}

PeersForChunk(n, c) ==
    {q \in Node : /\ q \in Attached(n)'
                  /\ c \in have'[n][q]
                  /\ q \notin bad'[n][c]}

(* The peer with the fewest requests, the first attached among equals. *)
LeastLoaded(n, peers, load) ==
    LET s == sessions'[n]
        best == {i \in DOMAIN s : /\ s[i] \in peers
                                  /\ \A q \in peers : load[s[i]] <= load[q]}
    IN  s[CHOOSE i \in best : \A j \in best : i <= j]

(* fl2 is what the loop over the candidates makes of fl. *)
Assigns(n, fl, rank, fl2) ==
    \A c \in Chunk :
        IF c \notin DOMAIN rank THEN fl2[c] = fl[c]
        ELSE LET before == {b \in DOMAIN rank : rank[b] < rank[c] /\ fl2[b] # NoPeer}
                 load == [q \in Node |->
                            Cardinality({b \in Busy(fl) : fl[b] = q})
                            + Cardinality({b \in before : fl2[b] = q})]
                 peers == PeersForChunk(n, c)
             IN  fl2[c] = IF Cardinality(Busy(fl)) + Cardinality(before) >= Parallel
                             \/ peers = {}
                          THEN NoPeer ELSE LeastLoaded(n, peers, load)

(* The elements of S by their rank. *)
ByRank(S, rank) ==
    [i \in 1..Cardinality(S) |->
       CHOOSE c \in S : Cardinality({b \in S : rank[b] <= rank[c]}) = i]

Requests(fl2, rank) ==
    [q \in Node |->
       LET s == ByRank({c \in DOMAIN rank : fl2[c] = q}, rank)
       IN  [i \in 1..Len(s) |-> encChunkReq(s[i])]]

(* The end of a handler of n that sent first: the scheduling pass, or        *)
(* nothing when no download is under way.                                    *)
Schedule(n, ch, first, fl) ==
    \/ /\ ~active'[n]
       /\ inFlight' = [inFlight EXCEPT ![n] = Idle]
       /\ Emit(n, ch, first)
    \/ /\ active'[n]
       /\ \E rank \in RarestFirst(n, fl), fl2 \in [Chunk -> Node \cup {NoPeer}] :
            /\ Assigns(n, fl, rank, fl2)
            /\ inFlight' = [inFlight EXCEPT ![n] = fl2]
            /\ Emit(n, ch, [q \in Node |-> first[q] \o Requests(fl2, rank)[q]])

-----------------------------------------------------------------------------
(* Sessions *)

Init ==
    /\ live = {}
    /\ chan = [l \in Node \X Node |-> <<>>]
    /\ sessions = [n \in Node |-> <<>>]
    /\ have = [n \in Node |-> [m \in Node |-> {}]]
    /\ manifest = [n \in Node |-> FALSE]
    /\ index = [n \in Node |-> Disk[n] # {}]
    /\ store = Disk
    /\ damaged = Damaged
    /\ active = [n \in Node |-> FALSE]
    /\ need = [n \in Node |-> {}]
    /\ inFlight = [n \in Node |-> Idle]
    /\ bad = [n \in Node |-> [c \in Chunk |-> {}]]
    /\ outcome = [n \in Node |-> "none"]
    /\ downloads = [n \in Node |-> 0]
    /\ timeouts = [n \in Node |-> 0]
    /\ breaks = 0
    /\ restarts = 0

(* A session is established; each side attaches when it hears of it. *)
Connect(m, n) ==
    /\ {m, n} \in Link \ live
    /\ m \notin Attached(n) /\ n \notin Attached(m)
    /\ live' = live \cup {{m, n}}
    /\ UNCHANGED <<chan, peerVars, manifest, diskVars, downVars, inFlight, outcome,
                   countVars>>

Break(m, n) ==
    /\ {m, n} \in live
    /\ breaks < MaxBreaks
    /\ breaks' = breaks + 1
    /\ live' = live \ {{m, n}}
    /\ chan' = Cleared(chan, {{m, n}})
    /\ UNCHANGED <<peerVars, manifest, diskVars, downVars, inFlight, outcome,
                   downloads, timeouts, restarts>>

attachSession(n, m) ==
    /\ {m, n} \in live
    /\ m \notin Attached(n)
    /\ sessions' = [sessions EXCEPT ![n] = Append(@, m)]
    /\ Emit(n, chan, To(m, (IF index[n] /\ manifest[n] THEN <<encManifest>> ELSE <<>>)
                           \o (IF index[n] THEN <<encHave(store[n])>> ELSE <<>>)))
    /\ UNCHANGED <<live, have, manifest, diskVars, downVars, inFlight, outcome,
                   countVars>>

(* Mutants: requests to the lost peer stay in the table; they are freed, but *)
(* nothing is rescheduled.                                                   *)
onClose_KeepsRequests(n, m) ==
    /\ m \in Attached(n)
    /\ {m, n} \notin live
    /\ sessions' = [sessions EXCEPT ![n] = Without(@, m)]
    /\ have' = [have EXCEPT ![n][m] = {}]
    /\ bad' = [bad EXCEPT ![n] = [c \in Chunk |-> @[c] \ {m}]]
    /\ UNCHANGED <<live, manifest, diskVars, active, need, outcome, countVars>>
    /\ Schedule(n, chan, Nothing, inFlight[n])

onClose_NoSchedule(n, m) ==
    /\ m \in Attached(n)
    /\ {m, n} \notin live
    /\ sessions' = [sessions EXCEPT ![n] = Without(@, m)]
    /\ have' = [have EXCEPT ![n][m] = {}]
    /\ bad' = [bad EXCEPT ![n] = [c \in Chunk |-> @[c] \ {m}]]
    /\ inFlight' = [inFlight EXCEPT
                      ![n] = [c \in Chunk |-> IF @[c] = m THEN NoPeer ELSE @[c]]]
    /\ UNCHANGED <<live, chan, manifest, diskVars, active, need, outcome, countVars>>

(* _onClose.  A later session of the same peer has a key of its own, so what *)
(* badPeerForChunk holds of this one will match no peer any more.            *)
onClose(n, m) ==
    /\ m \in Attached(n)
    /\ {m, n} \notin live
    /\ sessions' = [sessions EXCEPT ![n] = Without(@, m)]
    /\ have' = [have EXCEPT ![n][m] = {}]
    /\ bad' = [bad EXCEPT ![n] = [c \in Chunk |-> @[c] \ {m}]]
    /\ UNCHANGED <<live, manifest, diskVars, active, need, outcome, countVars>>
    /\ Schedule(n, chan, Nothing,
                [c \in Chunk |-> IF inFlight[n][c] = m THEN NoPeer ELSE inFlight[n][c]])

(* A process ends and starts again.  What is left is its index and chunks,   *)
(* or nothing when a save cut short left an index.json that does not parse.  *)
Restart(n) ==
    LET lost == {l \in live : n \in l}
    IN  /\ restarts < MaxRestarts
        /\ restarts' = restarts + 1
        /\ live' = live \ lost
        /\ chan' = Cleared(chan, lost)
        /\ sessions' = [sessions EXCEPT ![n] = <<>>]
        /\ have' = [have EXCEPT ![n] = [m \in Node |-> {}]]
        /\ manifest' = [manifest EXCEPT ![n] = FALSE]
        /\ active' = [active EXCEPT ![n] = FALSE]
        /\ need' = [need EXCEPT ![n] = {}]
        /\ inFlight' = [inFlight EXCEPT ![n] = Idle]
        /\ bad' = [bad EXCEPT ![n] = [c \in Chunk |-> {}]]
        /\ outcome' = [outcome EXCEPT ![n] = "none"]
        /\ \/ UNCHANGED diskVars
           \/ /\ index' = [index EXCEPT ![n] = FALSE]
              /\ store' = [store EXCEPT ![n] = {}]
              /\ damaged' = [damaged EXCEPT ![n] = {}]
        /\ UNCHANGED <<downloads, timeouts, breaks>>

-----------------------------------------------------------------------------
(* What the user calls *)

(* seed(): every chunk is written, then announced to the open sessions.      *)
seed(n) ==
    /\ n \in Seeder
    /\ ~manifest[n] \/ store[n] # Chunk
    /\ manifest' = [manifest EXCEPT ![n] = TRUE]
    /\ index' = [index EXCEPT ![n] = TRUE]
    /\ store' = [store EXCEPT ![n] = Chunk]
    /\ damaged' = [damaged EXCEPT ![n] = {}]
    /\ Emit(n, chan, ToAll(n, <<encManifest, encHave(Chunk)>>))
    /\ UNCHANGED <<live, peerVars, downVars, inFlight, outcome, countVars>>

(* _complete: assemble() checks the whole file; a damaged chunk makes it     *)
(* throw or return another hash.                                             *)
assemble(n) == IF store'[n] = Chunk /\ damaged'[n] = {} THEN "match" ELSE "failed"

(* download().  A call while a download of the file is under way replaces it. *)
(* Request timers of the replaced one stay armed and fire as timeouts.        *)
download(n) ==
    LET missing == Chunk \ store[n]
    IN  /\ n \in Downloader
        /\ downloads[n] < MaxDownloads[n]
        /\ downloads' = [downloads EXCEPT ![n] = @ + 1]
        /\ manifest' = [manifest EXCEPT ![n] = TRUE]
        /\ index' = [index EXCEPT ![n] = TRUE]
        /\ active' = [active EXCEPT ![n] = missing # {}]
        /\ need' = [need EXCEPT ![n] = missing]
        /\ bad' = [bad EXCEPT ![n] = [c \in Chunk |-> {}]]
        /\ UNCHANGED <<live, peerVars, store, damaged, timeouts, breaks, restarts>>
        /\ outcome' = [outcome EXCEPT ![n] = IF missing = {} THEN assemble(n) ELSE "none"]
        /\ Schedule(n, chan, ToAll(n, <<encHave(store[n])>>), Idle)

(* The 400 ms interval of a download. *)
tick(n) ==
    /\ active[n]
    /\ UNCHANGED <<live, peerVars, manifest, diskVars, downVars, outcome, countVars>>
    /\ Schedule(n, chan, Nothing, inFlight[n])

onTimeout(n, c) ==
    /\ active[n]
    /\ inFlight[n][c] # NoPeer
    /\ timeouts[n] < MaxTimeouts
    /\ timeouts' = [timeouts EXCEPT ![n] = @ + 1]
    /\ UNCHANGED <<live, peerVars, manifest, diskVars, downVars, outcome, downloads,
                   breaks, restarts>>
    /\ Schedule(n, chan, Nothing, [inFlight[n] EXCEPT ![c] = NoPeer])

-----------------------------------------------------------------------------
(* handleMessage *)

recvManifest(n, m) ==
    /\ Receives(m, n, "MANIFEST")
    /\ manifest' = [manifest EXCEPT ![n] = TRUE]
    /\ index' = [index EXCEPT ![n] = TRUE]
    /\ chan' = Rest(m, n)
    /\ UNCHANGED <<live, peerVars, store, damaged, downVars, inFlight, outcome,
                   countVars>>

(* A HAVE for a file whose number of chunks is unknown is dropped. *)
recvHave(n, m) ==
    /\ Receives(m, n, "HAVE")
    /\ have' = [have EXCEPT ![n][m] = IF manifest[n] \/ index[n]
                                      THEN @ \cup Head1(m, n).chunks ELSE @]
    /\ UNCHANGED <<live, sessions, manifest, diskVars, downVars, outcome, countVars>>
    /\ IF manifest[n] \/ index[n]
       THEN Schedule(n, Rest(m, n), Nothing, inFlight[n])
       ELSE chan' = Rest(m, n) /\ UNCHANGED inFlight

recvHavePiece(n, m) ==
    /\ Receives(m, n, "HAVE_PIECE")
    /\ have' = [have EXCEPT ![n][m] = @ \cup Head1(m, n).chunks]
    /\ UNCHANGED <<live, sessions, manifest, diskVars, downVars, outcome, countVars>>
    /\ Schedule(n, Rest(m, n), Nothing, inFlight[n])

(* _serveChunk.  A damaged chunk is sent with the hash of its damaged bytes, *)
(* or cannot be read: the exception ends the session.                        *)
serveChunk(n, m) ==
    LET c == CHOOSE x \in Head1(m, n).chunks : TRUE
    IN  /\ Receives(m, n, "CHUNK_REQ")
        /\ \/ /\ Emit(n, Rest(m, n),
                      To(m, IF c \in store[n]
                            THEN <<encChunkData(c, c \notin damaged[n])>> ELSE <<>>))
              /\ UNCHANGED live
           \/ /\ c \in damaged[n]
              /\ live' = live \ {{m, n}}
              /\ chan' = Cleared(chan, {{m, n}})
        /\ UNCHANGED <<peerVars, manifest, diskVars, downVars, inFlight, outcome,
                       countVars>>

dropData(n, m) ==
    /\ Receives(m, n, "CHUNK_DATA")
    /\ ~active[n]
    /\ chan' = Rest(m, n)
    /\ UNCHANGED <<live, peerVars, manifest, diskVars, downVars, inFlight, outcome,
                   countVars>>

(* Mutants: the chunk is marked instead of the peer; nobody is marked. *)
recvBadData_MarksChunk(n, m) ==
    LET c == CHOOSE x \in Head1(m, n).chunks : TRUE
    IN  /\ Receives(m, n, "CHUNK_DATA")
        /\ active[n]
        /\ ~Head1(m, n).intact
        /\ bad' = [bad EXCEPT ![n][c] = @ \cup {c}]
        /\ UNCHANGED <<live, peerVars, manifest, diskVars, active, need, outcome,
                       countVars>>
        /\ Schedule(n, Rest(m, n), Nothing, [inFlight[n] EXCEPT ![c] = NoPeer])

recvBadData_NotMarked(n, m) ==
    LET c == CHOOSE x \in Head1(m, n).chunks : TRUE
    IN  /\ Receives(m, n, "CHUNK_DATA")
        /\ active[n]
        /\ ~Head1(m, n).intact
        /\ UNCHANGED <<live, peerVars, manifest, diskVars, active, need, bad, outcome,
                       countVars>>
        /\ Schedule(n, Rest(m, n), Nothing, [inFlight[n] EXCEPT ![c] = NoPeer])

(* Data that fails its check, whichever peer the chunk is now asked of. *)
recvBadData(n, m) ==
    LET c == CHOOSE x \in Head1(m, n).chunks : TRUE
    IN  /\ Receives(m, n, "CHUNK_DATA")
        /\ active[n]
        /\ ~Head1(m, n).intact
        /\ bad' = [bad EXCEPT ![n][c] = @ \cup {m}]
        /\ UNCHANGED <<live, peerVars, manifest, diskVars, active, need, outcome,
                       countVars>>
        /\ Schedule(n, Rest(m, n), Nothing, [inFlight[n] EXCEPT ![c] = NoPeer])

(* putChunk of data that has the expected hash; a chunk held before is       *)
(* written again.                                                            *)
putChunk(n, c) ==
    /\ store' = [store EXCEPT ![n] = @ \cup {c}]
    /\ damaged' = [damaged EXCEPT ![n] = @ \ {c}]

(* Mutants: the data is stored without its hash check; a piece is announced  *)
(* before it is written, and not written.                                    *)
recvGoodData_Unchecked(n, m) ==
    LET c == CHOOSE x \in Head1(m, n).chunks : TRUE
    IN  /\ Receives(m, n, "CHUNK_DATA")
        /\ active[n]
        /\ store' = [store EXCEPT ![n] = @ \cup {c}]
        /\ damaged' = [damaged EXCEPT ![n] = IF Head1(m, n).intact THEN @ \ {c}
                                             ELSE @ \cup {c}]
        /\ need' = [need EXCEPT ![n] = @ \ {c}]
        /\ active' = [active EXCEPT ![n] = need'[n] # {}]
        /\ UNCHANGED <<live, peerVars, manifest, index, countVars>>
        /\ bad' = [bad EXCEPT ![n] = [x \in Chunk |-> IF need'[n] = {} THEN {} ELSE @[x]]]
        /\ outcome' = [outcome EXCEPT ![n] = IF need'[n] = {} THEN assemble(n) ELSE @]
        /\ Schedule(n, Rest(m, n), ToAll(n, <<encHavePiece(c)>>),
                    [inFlight[n] EXCEPT ![c] = NoPeer])

recvGoodData_AnnouncedOnly(n, m) ==
    LET c == CHOOSE x \in Head1(m, n).chunks : TRUE
    IN  /\ Receives(m, n, "CHUNK_DATA")
        /\ active[n]
        /\ Head1(m, n).intact
        /\ need' = [need EXCEPT ![n] = @ \ {c}]
        /\ active' = [active EXCEPT ![n] = need'[n] # {}]
        /\ UNCHANGED <<live, peerVars, manifest, diskVars, countVars>>
        /\ bad' = [bad EXCEPT ![n] = [x \in Chunk |-> IF need'[n] = {} THEN {} ELSE @[x]]]
        /\ outcome' = [outcome EXCEPT ![n] = IF need'[n] = {} THEN assemble(n) ELSE @]
        /\ Schedule(n, Rest(m, n), ToAll(n, <<encHavePiece(c)>>),
                    [inFlight[n] EXCEPT ![c] = NoPeer])

(* Data that passes: stored, announced to every session, and the download    *)
(* completed or continued.  Nothing asks whether the chunk was still needed.  *)
recvGoodData(n, m) ==
    LET c == CHOOSE x \in Head1(m, n).chunks : TRUE
    IN  /\ Receives(m, n, "CHUNK_DATA")
        /\ active[n]
        /\ Head1(m, n).intact
        /\ putChunk(n, c)
        /\ need' = [need EXCEPT ![n] = @ \ {c}]
        /\ active' = [active EXCEPT ![n] = need'[n] # {}]
        /\ UNCHANGED <<live, peerVars, manifest, index, countVars>>
        /\ bad' = [bad EXCEPT ![n] = [x \in Chunk |-> IF need'[n] = {} THEN {} ELSE @[x]]]
        /\ outcome' = [outcome EXCEPT ![n] = IF need'[n] = {} THEN assemble(n) ELSE @]
        /\ Schedule(n, Rest(m, n), ToAll(n, <<encHavePiece(c)>>),
                    [inFlight[n] EXCEPT ![c] = NoPeer])

-----------------------------------------------------------------------------

Receive(n, m) ==
    \/ recvManifest(n, m) \/ recvHave(n, m) \/ recvHavePiece(n, m)
    \/ serveChunk(n, m)
    \/ dropData(n, m) \/ recvBadData(n, m) \/ recvGoodData(n, m)

Next ==
    \E n \in Node :
        \/ seed(n) \/ download(n) \/ tick(n) \/ Restart(n)
        \/ \E c \in Chunk : onTimeout(n, c)
        \/ \E m \in Node :
             \/ Connect(m, n) \/ Break(m, n)
             \/ attachSession(n, m) \/ onClose(n, m)
             \/ Receive(n, m)

Spec == Init /\ [][Next]_vars

(* Open sessions deliver, both sides learn of new and of lost sessions, lost *)
(* ones are dialled again (session/peerManager.js), and seeders seed.        *)
Fairness ==
    \A n \in Node :
        /\ WF_vars(seed(n))
        /\ \A m \in Node : /\ WF_vars(Receive(n, m))
                            /\ WF_vars(Connect(m, n))
                            /\ WF_vars(attachSession(n, m))
                            /\ WF_vars(onClose(n, m))

FairSpec == Spec /\ Fairness

-----------------------------------------------------------------------------
(* Properties *)

TypeOK ==
    /\ live \subseteq Link
    /\ chan \in [Node \X Node -> Seq(Message)]
    /\ sessions \in [Node -> Seq(Node)]
    /\ have \in [Node -> [Node -> SUBSET Chunk]]
    /\ manifest \in [Node -> BOOLEAN]
    /\ index \in [Node -> BOOLEAN]
    /\ store \in [Node -> SUBSET Chunk]
    /\ damaged \in [Node -> SUBSET Chunk]
    /\ active \in [Node -> BOOLEAN]
    /\ need \in [Node -> SUBSET Chunk]
    /\ inFlight \in [Node -> [Chunk -> Node \cup {NoPeer}]]
    /\ bad \in [Node -> [Chunk -> SUBSET Node]]
    /\ outcome \in [Node -> {"none", "match", "failed"}]
    /\ downloads \in [Node -> Nat] /\ timeouts \in [Node -> Nat]
    /\ breaks \in Nat /\ restarts \in Nat

(* A chunk is asked only of a peer with an attached session that announced   *)
(* it and has not sent it corrupted, only while it is missing, and never     *)
(* more than Parallel at once, whatever late answers, lost sessions and      *)
(* repeated download() calls do to the request table (fileNode.js 160-254).  *)
InFlightSound ==
    \A n \in Node :
        /\ Cardinality(Busy(inFlight[n])) <= Parallel
        /\ \A c \in Busy(inFlight[n]) :
              LET q == inFlight[n][c]
              IN  /\ active[n] /\ c \in need[n]
                  /\ q \in Attached(n) /\ c \in have[n][q] /\ q \notin bad[n][c]

(* Every handler that frees a request or learns of a source reschedules: a   *)
(* chunk that can be asked of someone is in flight, unless Parallel others   *)
(* are.  The 400 ms safety net (144) never finds work.                       *)
NeverIdle ==
    \A n \in Node :
        active[n] /\ Cardinality(Busy(inFlight[n])) < Parallel =>
            \A c \in need[n] \ Busy(inFlight[n]) : \A q \in Attached(n) :
                c \in have[n][q] => q \in bad[n][c]

(* What a node announced over an open session it can serve, across lost      *)
(* sessions and restarts that lose its index (chunkStore.js 19-23): a        *)
(* CHUNK_REQ always finds its chunk, so ignoring ACK_NOT_FOUND (103-104) is  *)
(* harmless between nodes that run this code.                                *)
RequestsServable ==
    \A n, m \in Node :
        /\ {n, m} \in live => have[n][m] \subseteq store[m]
        /\ \A i \in DOMAIN chan[<<n, m>>] :
              LET f == chan[<<n, m>>][i]
              IN  /\ f.t = "CHUNK_REQ" => f.chunks \subseteq store[m]
                  /\ f.t \in {"HAVE", "HAVE_PIECE"} => f.chunks \subseteq store[n]

(* A download that ends yields the file of the manifest, unless a chunk was  *)
(* already damaged on the node's own disk: sources that serve damaged chunks *)
(* cost retries, never content (213-233, 262-265).                           *)
DownloadIntact ==
    \A n \in Node : outcome[n] = "failed" => Damaged[n] # {}

(* The comment of download() ("(Re)demande les bitfields aux pairs connectes", *)
(* 141): a node that downloads comes to know what its peers hold.             *)
BitfieldsAsked ==
    \A n, m \in Node :
        active[n] /\ m \in Attached(n)
            ~> have[n][m] = store[m] \/ ~active[n] \/ m \notin Attached(n)

(* A download ends: a seeder the node can reach has every chunk, sessions    *)
(* break finitely often and lost ones are dialled again.                     *)
DownloadEnds ==
    \A n \in Downloader : active[n] ~> ~active[n]
=============================================================================
