# AttestP2P: a TLA+ verification project

AttestP2P is a peer-to-peer node in Node.js: encrypted sessions over TCP, a
BitTorrent-like file transfer on top of them, UDP discovery, and a signed packet
server with defences against replay and flooding, driven by a command line and a
mobile application. This directory holds TLA+
models translated from its source, the TLC configurations that check them, and
TLAPS proofs of their main properties. `PROJECT.json` lists the components, the
runs, the line-by-line map from definitions to source, the hazards and the
theorems. Paths below are relative to `src/src/`, those of the application to
`src/mobile/`.

## 1. Inventory

| Component | State | Operations | Hard part | Correct when |
|---|---|---|---|---|
| Session: `session/secureConnection.js`, `crypto/handshake.js`, `protocol/frame.js`, `network/secureClient.js` | keys and sequence numbers per direction, `_rekeying`, `_closed`, timers, the socket | handshake messages, `send`, `rekey`, `close`, frame handling, `_fail` | both sides rekey and close at once; writes after `end()`; timers against late messages | keys in phase; honest frames never rejected; delivery in order, once, not after close; everything ends |
| Files: `file/fileNode.js`, `protocol.js`, `manifest.js`, `chunkStore.js` | attached sessions, announced chunks, requests in flight, chunks on disk | `seed`, `download`, `handleMessage`, `_schedule`, timeouts, `_onClose` | late answers, lost sessions, damaged sources, restarts | requests only to peers that can answer; no idle slot; the file is the manifest's; downloads end |
| Replay guard: `protocol/replay.js` | ordered map of keys | `check`, `_purge` | clock skew, full cache | no packet accepted twice |
| Rate limit, blacklist: `network/ipRateLimiter.js`, `ipBlacklist.js` | counters, windows and bans per address | `allow`, `strike`, `isBanned`, `cleanup` | window edges against the cleanup timer | quota bounded; bans justified |
| Packet server: `network/tcpServer.js`, `protocol/packet.js`, `message.js` | buffer and counter per connection | connection and data handlers, `flagAttack`, timers | connections share the defences | the above, over all connections |
| Secure server: `network/secureServer.js` | shares blacklist and limiter | `allowFrame`, `report` | strikes from any session refuse frames in all, frames arrive into a ban | bans are earned; every ban ends |
| Peers: `session/peerManager.js`, `network/udpDiscovery.js` | sessions and dials by announced id, announcements with a TTL | `tick`, `_dial`, `stop` | mutual connections, a tick between "error" and "close", `stop()` during a dial | entries are open sessions; every dial ends; a peer is reached again |
| Node: `node/attestp2pNode.js` | sessions by authenticated id, threads | `_attach`, `_route`, `sendMessage`, `askAI` | replaced sessions, announced against authenticated identity, a reply that never comes | messages go to the node with that key; a replaced session's close harms nothing; every question gets its reply |
| Disk: `crypto/keys.js`, `file/chunkStore.js`, `node/trustStore.js` | seed, chunks, `index.json`, `trust.json`, and their copies in memory | `initKeys`, `registerManifest`, `putChunk`, `seed`, `trust`, `untrust` | files are rewritten in place; a process killed, or a write failing, between or inside them | the identity is stable; the index lists what is there; what was saved is found again |
| Control API and clients: `node/controlServer.js`, `src/bin/attestp2p.js`, `ai/gemini.js`, `App.js`, `src/NodeContext.js`, `src/screens/` of the application | requests under way, the peer selected, the thread shown | `/msg`, `/ask`, `/messages`, `/peers`; `send`, `load`, `setPeer`, `refresh` | answers late, lost or in another order; selection changes meanwhile | the screen shows the selected peer's thread, and all of it in the end |
| Attack log, demos | a log; none | append; start nodes | none | not modelled |

How they interact: a socket's events drive one `SecureConnection`; its
"message" and "close" events drive `FileNode` (through the node's `_route`);
`PeerManager` and the secure server create the connections; all connections of a
server share its rate limiter and blacklist, those of the packet server its replay
guard too. Clients reach the node over HTTP. Everything runs
in one event loop per process, so a handler is atomic and the interleavings are
those of handlers, timers and messages between processes.

## 2. Plan

1. *(done)* `SecureChannel` (what a session promises), `SecureConnection` (the
   code), refinement, proofs.
2. *(done)* `FileTransfer` over sessions as `SecureChannel` describes them.
3. *(done)* `ReplayGuard`, `IpRateLimiter`, `IpBlacklist`, composed by
   `TcpServer`; proof of the replay guard.
4. *(done)* `NodeStorage`: the writes of the seed, the chunks, the index and the
   trusted peers, with crashes and failed writes, and what the next start finds.
5. *(done)* `PeerMesh`: discovery, `PeerManager` and the node's session table.
6. *(done)* `SecureServer`: its connections composed with `IpBlacklist` and
   `IpRateLimiter`; who is banned, and for how long.
7. *(done)* `NodeChat`: threads, the assistant, the control API and the chat screen.
8. *(done)* Proofs of the safety properties of every module, for any number of
   nodes, chunks, connections, addresses, files and messages.

## 3. Modules

**`SecureChannel`** is the abstract specification of a session: two directed
channels that deliver a prefix of what was submitted, in order, each message
once, and nothing once the receiving side is down.

**`SecureConnection`** is a connection with both its endpoints, initiator `"I"`
and responder `"R"`. `stream[e]` is every frame `e` wrote and `rcvd[e]` how many
the peer's reader took, so TCP is ordered and reliable until a socket is
destroyed. Cryptography is symbolic: a frame opens under the key that sealed it
only, a key is its HKDF label and its generation, a signature is the transcript
it covers. Each handler is an action: `RecvMsg1/2/3`, `RecvData`, `RecvRekey`,
`RecvRekeyAck`, `RecvClose`, the rejections `RecvBad`, `RecvOversize`,
`RefuseFrame`; each call is one: `Send` (with the automatic rekey it may end
with), `Rekey`, `Close`; and so are the events of the socket. Nondeterministic:
whether a one-second rate window is over, whether a byte or time threshold for a
rekey is reached, whether a listener of "secure" or "message" throws. An endpoint in
`Misbehaving` writes, by `Misbehave`, frames it makes up (`Forged`: numbers skipped,
an answer nobody asked for, a CLOSE with more to come), repeats its own and sends
back the other side's, in any order, also after its CLOSE. Once a connection is
closed the rest of a chunk is dropped (`secureConnection.js` 167), but what comes in a
later chunk is still handled (146-168): `RecvData` does not ask whether the sender has
closed. A decoder that holds an oversize frame throws again with every chunk
(`Jammed`). `sock`, `eof` and `gone` follow
`net.Socket` with `allowHalfOpen` false, including what matters here: a write
after `end()` destroys the socket and reports the error later.

**`FileTransfer`** is one file among any set of nodes, all running `FileNode`.
Each handler is one action that ends, as the code does, with the scheduling pass:
`Schedule` is `_schedule`, with the order of equally rare chunks left open and the
least-loaded peer, first attached among equals, chosen as the code's stable sort
does. Chunk contents are intact or damaged; a damaged chunk fails every hash
check, or cannot be read at all, in which case the exception in the message
listener ends the session. Left out: ACK messages, whose handler is empty, and the
`received` counter, which is only emitted. A node restarts with its index and chunks
or, when a save was cut short (`NodeStorage`), with an empty index. Two nodes have
one session at a time (`Connect`). In the code mutual dials give two, which
`fileNode.js` 37 keys separately; nothing in `FileNode` compares the identities behind
two keys, so each is to it a session with a peer of its own.

**`ReplayGuard`**, **`IpRateLimiter`**, **`IpBlacklist`** model the three classes
with instants as ages, so time is unbounded and the state finite. Each keeps a
history (packets accepted and evicted; for each age, the packets let through and
the strikes given since) that the properties are about and the actions never read. **`Addresses`** declares
the addresses two of them share. **`TcpServer`** extends the three with the
connections: `RecvPacket` is the pipeline of a packet in the code's order, socket
quota, address quota, verdicts, replay, up to its first offence.

**`PeerMesh`** is nodes with their discovery table (`known`), their
`PeerManager` (`dialing`, `sessions`) and their table of sessions by authenticated
identity (`byPeer`). A session is reduced to what the tables see of it: the three
handshake messages, and for each end whether it is established, closing, failing
or gone; `SecureConnection` is the detail. An entry of a table is an end, that is
the `SecureConnection` object of that node, so `===` in `_attach` is equality here.
Announcements may be lost at any time (`prune`) and may name an identity that
answers no more at that address. The "error" and "close" handlers of `_dial` are
one action except after a handshake timeout: `_fail` emits "error" in the timers
phase of the event loop and the socket emits "close" later, so a `tick` whose
interval is over may run in between.

**`SecureServer`** extends `IpRateLimiter` and `IpBlacklist` with the connections
of `secureServer.js`. A connection is what the server's security context sees of
it: it is accepted unless its address is banned, each frame passes `allowFrame` or
not and gets a verdict, `report` strikes, the socket ends. A connection that had
its CLOSE is *ended*: its socket delivers on, and what it delivers is still
reported. A handler takes no time, so a ban does not run out between the
`isBanned` of `allowFrame` and the one of `strike`.

**`NodeStorage`** is one node's files and what its process has in memory. A handler
is the sequence `todo` of the writes it makes; `BeginWrite` empties a file and
changes the list in memory, `EndWrite` fills it. `seed()` is several such steps: it
registers the file, puts its chunks one by one, then announces it; it never yields,
so no other handler runs in between (`seeding`), and the order of the chunks, which
nothing depends on, is left open. A shared file may have changed since its manifest
was made: `putChunk` then refuses the chunk and `seed()` goes on without it
(`seeding.refused`). `Crash` and `WriteFails` may
come before, between or inside all of them. A file cut short is *torn*: a list that does
not parse is read as empty (`_load`), a seed that has not 32 bytes makes `start()`
throw. `cut` and `clobbered` record the cases in which the code does lose
something, so that the properties can say that these are the only ones.

**`NodeChat`** is one node's chat and the clients of its control API. A thread only
grows, so a copy of it on its way or on the screen is its owner and its length.
`_onChat`, `handlePost`, `handleMessages` are the handlers of the node,
`geminiAnswers` and `geminiAborts` the two ends of a question to the assistant,
`api` the command line, and `refresh`, `setTab`, `setPeer`, `load`, `setThread`,
`send` the application. `alive` is the flag of the effect that made a request;
React is external, and an effect is cleaned up in the step that changes the peer
or the tab. Two requests in the same state are one, since they have the same
effect. The list of peers may be out of date by any time, so the request for it is
one step.

The `MC*` modules hold constants for TLC and nothing else. Operators named
`X_Something` and commented *Mutant* are wrong versions of `X`, each the bug that
the property it is paired with in `PROJECT.json` would catch.

## 4. Runs

| Run | Checks | Shows |
|---|---|---|
| `session` | `TypeOK`, `HonestFramesAccepted`, `KeysInPhase`, `CloseIsLast`, `OneRekeyAtATime`, `CleanEndLosesNothing`, `ImplementsChannel` | holds with two messages one way and one the other, any of them too long, a rekey by each side, a rate limit of one, calls after close, a connection that breaks |
| `session_faults` | `StaleFramesEndSession`, `HandshakeEnds`, `RekeyEnds`, `CloseReachesBoth` | holds, the last three under fairness, against an initiator that makes up, repeats and reflects frames, oversize ones among them |
| `session_close_is_clean` | `CloseIsClean` | **violated**: one `close()` may end in a write-after-end error |
| `file_transfer` | `TypeOK`, `InFlightSound`, `RequestsServable`, `DownloadIntact` | holds with two downloaders, a damaged disk, a restart that may lose the index, a replaced download |
| `file_transfer_live` | `InFlightSound`, `NeverIdle`, `DownloadEnds` | holds with a timeout, a lost session and a damaged source |
| `file_bitfields_asked` | `BitfieldsAsked` | **violated**: `download()` does not ask for bitfields, and one dropped earlier is never learnt |
| `packet_server` | `TypeOK`, `NoReplayAccepted`, `CacheSound`, `RateBound`, `BanJustified` | holds with two connections of an address, skewed clocks, a full cache |
| `peer_mesh` | `TypeOK`, `EntriesOpen`, `AuthenticatedRoute`, `EntryKept`, `DialEnds`, `PeersReached` | holds, the last two under fairness, with connections both ways, an outdated identity, a timeout, a lost connection and `stop()` on both sides |
| `peer_one_dial` | `OneDialPerPeer` | **violated**: after a timeout with a tick before "close", one peer is dialled twice at a time |
| `node_storage` | `TypeOK`, `StableIdentity`, `IndexSound`, `SavedKept`, `SeedRepairs` | holds with two files, two peers to approve and three processes killed or writes failed |
| `secure_server` | `BansEarned`, `BanEnds` | holds, the second under fairness, with three connections behind one address |
| `node_chat` | `TypeOK`, `ShownIsSelected`, `AsksEnd`, `CatchesUp` | holds, the last two under fairness, with answers that overtake one another, failures, and peers and tabs changed meanwhile |

The three violated properties state what comments in the code say; the findings
in `PROJECT.json` quote them. The models show other places where the code does
less than its words:

* `fileNode.js` 205 says "réessaie ailleurs", but after a timeout `_schedule` takes
  the least loaded peer, which may be the one that has just not answered
  (`onTimeout`); `DownloadEnds` shows that the download ends all the same.
* `ipBlacklist.js` 1 says "fenêtre glissante", but the window begins with its first
  strike and is restarted whole (`Strikes`): strikes at the end of one and the start
  of the next do not add up.
* `replay.js` 26-27 says that behind a valid entry all entries are valid ("dès
  qu'une entrée est encore valide, le reste l'est aussi"). Entries are in the order of
  their arrival, and the clocks of senders differ: expired ones stay behind a valid one
  and take room (`Purges`), up to `maxEntries` (`CacheSound`).
* An exception of a listener counts as an infraction of the peer
  (`secureConnection.js` 160-165): `BansEarned` has to count it.
* `index.json` and `trust.json` are lost when a process is killed inside `_save`,
  and a chunk that is listed when it is killed while the chunk is written again:
  the exceptions in `SavedKept` and `IndexSound`. A process killed while it writes
  its first seed leaves a node that does not start until the file is removed.
* A text whose POST fails or is refused is lost without a word (`ChatScreen.js`
  40-41), and one sent to a session that has failed, but not yet closed, is
  answered "message envoye".
* After a touch on another peer the former one's thread stays on the screen until
  the first answer; `CatchesUp` shows that this ends.

**Bounds.** `MaxSend`, `MaxRekey` bound the calls of a session: two
messages, one of which may be too long to be read, make order and loss visible, one
generation on each side makes rekeys cross. `MaxFrames` and `MaxAhead` bound what a
misbehaving endpoint writes: five frames, the handshake and three more, are a frame
under each of two keys and one that comes again; one is unread at a time. `Forged` has a
DATA frame that skips a number, one too long, an answer to no rekey and a CLOSE;
frames with other keys come from its rekeys, and from repeating and reflecting. The theorems below hold for any bounds and any `Forged`. `MaxDownloads`, `MaxTimeouts`,
`MaxBreaks`, `MaxRestarts` bound what happens to a transfer: two chunks and
`Parallel` of 1 and 2 make scheduling choose, a second source makes it choose
again; three nodes in a star let the one in the middle serve what it downloads.
Windows of one or two ticks and a cache of two entries for three packets
reach both edges of each window and eviction. In `peer_mesh`, node `a` dials `b`
under `b`'s former identity and `b` connects to `a` by hand, so that the two
tables differ and a session replaces another; three connections are as many as one
timeout and one loss let exist. In `node_storage`, `MaxFaults` of three lets a
repair be cut short after a loss, and `MaxSeeds` of two a second seed be generated
if anything asks for one; a file of two chunks has a middle. In `secure_server` a
threshold of three, and three connections, let strikes of one peer end another's
session; windows and bans of two ticks have an inside and two edges. In
`node_chat`, `MaxTexts` of one is a text and its reply, so a thread is copied at
three lengths; `MaxPolls` of two lets one answer overtake another; `MaxBreaks` of
one loses a session or a request; `Twice` lets one peer have two sessions.
The session, file, peer, storage and chat runs set
`CHECK_DEADLOCK FALSE`: a closed session, a finished transfer, a stopped node and a
node whose seed is torn really stop, and a chat is over when nobody writes.
Packets and connections are symmetric in `packet_server`: a packet's key is its own,
and all connections have one address.

**Fairness.** Sessions: timers fire, the events of a socket are emitted, and what
was written to an established session is read. During the handshake the network may stall, so
nothing is assumed there but the timer. Files: messages of open sessions are
handled, both sides learn of new and lost sessions, lost ones are dialled again
(`peerManager.js` does so every interval), and a seeder's user seeds. The 400 ms
tick of a download is not assumed: `NeverIdle` shows that it finds no work.
Peers: the interval of `PeerManager` fires, a connection's handshake goes on unless
it times out or is lost (a bounded number of times), sockets emit "close", and a
peer that was stopped, and so announces no more, expires. Secure server: time
passes, nothing else. Chat: the 15 s timer of `queryGemini` and the 2 s interval of
the screen fire, and requests that do not fail are answered; the assistant need not
answer, nor any user or peer act.

## 5. Proofs

TLAPS proves every safety invariant and every action property of the passing runs,
for every value of the constants that satisfies the named assumption of its module.
The assumptions say that limits are natural numbers (positive where the code has a
positive default), that sets which name nodes, files or peers are what they name, and
that "none" values are none of the real ones; `FileTransferAssumption` also has the
nodes and the chunks finite, `ReplayAssumption` the packets the domain of `KeyOf`.
The bounds of the runs (`MaxSend`, `MaxFaults`, ...) are arbitrary numbers here.

None of the properties is inductive, but for the types of some modules. Each proof
module defines the strengthening, proves one lemma per action and ends with the
theorems:

* `SecureConnectionProofs`: `TypeCorrect`, `HonestFramesAlwaysAccepted`,
  `KeysAlwaysInPhase`, `CloseAlwaysLast`, `StaleFramesRefused`,
  `SessionImplementsChannel`, `CleanEndsLoseNothing`, `OneRekeyAlways`. The invariant
  `IInv` says what every frame of a stream is sealed with: the first transport frame
  with the direction's first key, each later one with the key that the frame before it
  leaves (`WellSealed`), and DATA frames carry increasing sequence numbers
  (`Numbered`). The sender's transmitting key is the one its last frame leaves, and the
  receiver's the one the last frame it took leaves (`SendInv`, `RecvInv` and their
  forms for honest endpoints). From there, an unread frame of an honest peer opens
  under the reader's key, and the delivered messages are a prefix of the sent ones. All
  of this is claimed of endpoints whose peer is honest; `SessionImplementsChannel`
  assumes `Misbehaving = {}`, and its refinement maps `up` to `~closed`. Nothing is
  assumed of the peer by `StaleFramesRefused`: `StaleInv` adds that every frame an
  honest endpoint took is *past*, a DATA frame by its number, a REKEY or its answer by
  the generation of its key, and that what it wrote itself is sealed with the keys of
  its own direction, so that no such frame is taken again. For clean ends `EInv` adds `EndInv`: what was taken
  from a socket that is not destroyed was delivered, and the end of input comes after
  the last frame. For rekeys, `Pending(e)` is the REKEY of `e` or the answer to it that
  is under way; every step of an endpoint that stays up leaves it alone, begins the rekey
  of `e`, replaces the REKEY by its answer, or takes the answer (`ActRekeyStep`).
* `AddressProofs`: what both servers need of the shared defences. The rate limit's
  window is fixed, so `RateBound` is about an interval that may lie across two of them:
  `RateInv` says that the packets of the current window are among those of the last
  `rateAge` ticks, that older ones are of a single window before, and that nothing is
  left to count once the windows are too old. `StrikeInv` says that the strikes counted
  were all given since their window began.
* `TcpServerProofs`: `ServerTypes`, `ReplaysNeverAccepted`, `CacheAlwaysSound`,
  `RateAlwaysBounded`, `BansJustified`. `ReplayInv` adds that an accepted packet is
  *remembered*: it is in the cache, or expired, or was evicted. The purge drops expired
  entries only (`PurgedFacts`), and an expired packet stays out of the window. The
  others are `AddressProofs` over all connections.
* `SecureServerProofs`: `BansAlwaysEarned`, `FramesBounded`. The invariant adds that the
  strikes given are exactly the strikes earned, by address and by age.
* `PeerMeshProofs`: `MeshTypes`, `TablesOpen`, `RoutesAuthenticated`, `EntriesKept`. An
  entry of a table is an end of the right connection that is established or closing
  (`Routed`, `Managed`), and a connection that is in use was dialled (`Dialled`):
  without this a connection used again could be found in a table of its former owner.
* `NodeStorageProofs`: `StorageTypes`, `IdentityStable`, `IndexIsSound`, `SavedIsKept`,
  `SeedingRepairs`. `HandlerInv` lists the sequences of writes that a handler can have
  before it; `SavedInv` says where what was saved is while a list is being written;
  `SeedingInv` says of each chunk of the file being seeded that it is still to be put,
  could not be, is being written, or is whole and listed.
* `FileTransferProofs`: `TransferTypes`, `RequestsSound`, `TableNeverIdle`,
  `RequestsAreServable`, `DownloadsIntact`. `FlightInv` is what a scheduling pass
  leaves: every request is for a missing chunk and to a source of it, and a slot is
  free only when no missing chunk has a source. `KnownInv` and `ChannelInv` carry "a
  node stores what it announced" through the messages under way. Both speak of
  connected nodes only, and nothing is under way between others, so what a restart loses
  is in no message. `DiskInv` is the origin of damage. The pass takes the least loaded peer and the next chunk in rank; that
  these exist follows from the least element of a set of numbers (`LeastNumber`).
* `NodeChatProofs`: `ChatTypes`, `ScreenShowsSelected`. A text may still become two
  entries while its POST is under way and one while its question is (`CountInv`), which
  bounds the threads; the requests of a live effect are for the selected peer
  (`AliveInv`).

Only model-checked: liveness, since fairness is out of the prover's reach
(`HandshakeEnds`, `RekeyEnds`, `CloseReachesBoth`, `DownloadEnds`, `DialEnds`,
`PeersReached`, `BanEnds`, `AsksEnd`, `CatchesUp`). The three runs that end in a
violation show counterexamples, and there is nothing to prove of them.

## 6. Not modelled

Byte-level framing and packet parsing, except for what they lose or reject; the
cryptographic primitives; the attack log, which is appended to and never read; the
demonstrations, which start nodes. Of the node: `availableFiles`, `status()`,
`runtime.json`. Of the control API and the command line: the routes that pass one
call on, `/connect`, `/send`, `/upload`, `/download`, `/trust`, `/status`,
`/receive`; their effects are actions of the other modules. Of the application: the
screens for files, peers, status and connection, which hold a form and show what
the last refresh brought, and all layout. The prompt sent to the assistant is text.
