---------------------------- MODULE NodeStorage ----------------------------
(***************************************************************************)
(* What a node keeps on disk and what it finds there when it starts again: *)
(* the seed of its identity (src/src/crypto/keys.js), the chunk files and  *)
(* their index (file/chunkStore.js) and the trusted peers                  *)
(* (node/trustStore.js).                                                   *)
(*                                                                         *)
(* All of them write in place with fs.writeFileSync: the file is emptied,  *)
(* then filled.  A handler runs to its end before the next one, so here it *)
(* is the sequence of the writes it makes, and seed() one such sequence    *)
(* after another.  The process may be killed, and a write may fail,        *)
(* before, between and inside them.  A file cut short is "torn": as JSON   *)
(* it does not parse, as a seed it has not 32 bytes, as a chunk it has     *)
(* another hash.                                                           *)
(***************************************************************************)
EXTENDS Naturals, Sequences

CONSTANTS
    File,        \* file_id's
    Chunk,       \* the chunks of all of them
    FileOf,      \* FileOf[c]: the file of a chunk
    Contact,     \* node_id's the user may approve
    MaxSeeds,    \* bound: seeds generated
    MaxFaults    \* bound: processes killed and writes that fail

ASSUME NodeStorageAssumption ==
    /\ FileOf \in [Chunk -> File]
    /\ {MaxSeeds, MaxFaults} \subseteq Nat

VARIABLES
    proc,        \* "down", "starting" (inside initKeys) or "up"
    identity,    \* on disk: IDENTITY_FILE
    indexFile,   \* on disk: index.json
    trustFile,   \* on disk: trust.json
    chunkFile,   \* on disk: chunkFile[c], <idx>.chunk
    self,        \* keyPair, 0 for null
    index,       \* store.index: the files it has, the chunks it lists
    trusted,     \* trust.set
    todo,        \* the writes the running handler has still to make
    seeding,     \* the file that seed() works on, if it runs, the chunks it
                 \* has still to put and those putChunk refused
    filling,     \* TRUE: the first of them has emptied its file
    seeds, faults,   \* what the bounds count
    ids,         \* history: the identities the node has run under
    saved,       \* history: the chunks of every index written to its end
    approved,    \* history: the peers of the last list written to its end,
                 \* but for those untrusted since
    cut,         \* history: the lists ("index", "trust") cut short
    clobbered    \* history: listed chunks cut short while written again

disk == <<identity, indexFile, trustFile, chunkFile>>
memory == <<self, index, trusted>>
history == <<ids, saved, approved, cut, clobbered>>
vars == <<proc, disk, memory, todo, seeding, filling, seeds, faults, history>>

NoFiles == [files |-> {}, chunks |-> {}]

Index == [files : SUBSET File, chunks : SUBSET Chunk]

Seeding(f, left) == [of |-> {f}, left |-> left, refused |-> {}]
NoSeeding == [of |-> {}, left |-> {}, refused |-> {}]

(* A list on disk is its state and what _load makes of it: its content, or   *)
(* an empty list when it is not there or does not parse.                     *)
Whole(v) == [state |-> "whole", val |-> v]
Torn(empty) == [state |-> "torn", val |-> empty]
Absent(empty) == [state |-> "absent", val |-> empty]

Init ==
    /\ proc = "down"
    /\ identity = Absent(0)
    /\ indexFile = Absent(NoFiles)
    /\ trustFile = Absent({})
    /\ chunkFile = [c \in Chunk |-> "absent"]
    /\ self = 0 /\ index = NoFiles /\ trusted = {}
    /\ todo = <<>> /\ seeding = NoSeeding /\ filling = FALSE
    /\ seeds = 0 /\ faults = 0
    /\ ids = {} /\ saved = {} /\ approved = {} /\ cut = {} /\ clobbered = {}

-----------------------------------------------------------------------------
(* The writes of a handler *)

SaveSeed(s)    == [to |-> "identity", val |-> s]
SaveIndex(x)   == [to |-> "index", val |-> x]
SaveTrust(set) == [to |-> "trust", val |-> set]
WriteChunk(c)  == [to |-> "chunk", val |-> c]

(* The rest of start(): the key pair, then the constructors of both stores. *)
Loads(s) ==
    /\ proc' = "up"
    /\ self' = s
    /\ index' = indexFile.val
    /\ trusted' = trustFile.val
    /\ ids' = ids \cup {s}

(* Mutant: the new seed is used while it is still being written. *)
initKeys_WritesLater ==
    /\ proc = "down"
    /\ \/ /\ identity.state = "whole"
          /\ Loads(identity.val)
          /\ UNCHANGED <<todo, seeds>>
       \/ /\ identity.state = "absent"
          /\ seeds < MaxSeeds
          /\ seeds' = seeds + 1
          /\ todo' = <<SaveSeed(seeds + 1)>>
          /\ Loads(seeds + 1)
    /\ UNCHANGED <<disk, seeding, filling, faults, saved, approved, cut, clobbered>>

(* Mutant: a seed is used whatever its length. *)
initKeys_AnyLength ==
    /\ proc = "down"
    /\ \/ /\ identity.state # "absent"
          /\ Loads(identity.val)
          /\ UNCHANGED <<todo, seeds>>
       \/ /\ identity.state = "absent"
          /\ seeds < MaxSeeds
          /\ seeds' = seeds + 1
          /\ proc' = "starting"
          /\ todo' = <<SaveSeed(seeds + 1)>>
          /\ UNCHANGED <<memory, ids>>
    /\ UNCHANGED <<disk, seeding, filling, faults, saved, approved, cut, clobbered>>

(* start() and loadOrCreateSeed.  A seed that is not whole makes it throw,   *)
(* and the process ends as it was found.                                     *)
initKeys ==
    /\ proc = "down"
    /\ \/ /\ identity.state = "whole"
          /\ Loads(identity.val)
          /\ UNCHANGED <<todo, seeds>>
       \/ /\ identity.state = "absent"
          /\ seeds < MaxSeeds
          /\ seeds' = seeds + 1
          /\ proc' = "starting"
          /\ todo' = <<SaveSeed(seeds + 1)>>
          /\ UNCHANGED <<memory, ids>>
    /\ UNCHANGED <<disk, seeding, filling, faults, saved, approved, cut, clobbered>>

-----------------------------------------------------------------------------
(* The handlers *)

(* Writes are made; afterwards seed() goes on as then says. *)
Runs(writes, then) ==
    /\ proc = "up" /\ todo = <<>>
    /\ todo' = writes
    /\ seeding' = then
    /\ UNCHANGED <<proc, disk, memory, filling, seeds, faults, history>>

Handles(writes) == seeding = NoSeeding /\ Runs(writes, NoSeeding)

With(x, f, cs) == [files |-> x.files \cup {f}, chunks |-> x.chunks \cup cs]

(* Mutant: registering a file again resets its entry. *)
Registered_Resets(x, f) ==
    [files |-> x.files \cup {f}, chunks |-> {c \in x.chunks : FileOf[c] # f}]

(* The entry of a file that has one is kept. *)
Registered(x, f) == With(x, f, {})

(* Mutant: the index is saved only when the file is new. *)
Register_OnlyNew(x, f) ==
    IF f \in x.files THEN <<>> ELSE <<SaveIndex(Registered(x, f))>>

(* The index is saved whether or not the file is new. *)
Register(x, f) == <<SaveIndex(Registered(x, f))>>

(* A MANIFEST message, or download() *)
registerManifest(f) == Handles(Register(index, f))

(* Mutant: the index is saved before the chunk is written. *)
Put_IndexFirst(x, c) ==
    IF c \in x.chunks THEN <<WriteChunk(c)>>
    ELSE <<SaveIndex(With(x, FileOf[c], {c})), WriteChunk(c)>>

(* putChunk of data with the expected hash, from the index x. *)
Put(x, c) ==
    IF c \in x.chunks THEN <<WriteChunk(c)>>
    ELSE <<WriteChunk(c), SaveIndex(With(x, FileOf[c], {c}))>>

(* A chunk of a download, whose file was registered when it began. *)
putChunk(c) == FileOf[c] \in index.files /\ Handles(Put(index, c))

(* seed() and sendFile(): the file is registered, every chunk of it is put   *)
(* (the code goes by their numbers, here the order is free), and the open    *)
(* sessions are told.                                                        *)
seed(f) ==
    /\ seeding = NoSeeding
    /\ Runs(Register(index, f), Seeding(f, {c \in Chunk : FileOf[c] = f}))

(* The file may have changed since its manifest was built: putChunk refuses  *)
(* what has another hash and writes nothing, and seed() goes on.             *)
seedPuts(c) ==
    /\ c \in seeding.left
    /\ \/ Runs(Put(index, c), [seeding EXCEPT !.left = @ \ {c}])
       \/ Runs(<<>>, [seeding EXCEPT !.left = @ \ {c}, !.refused = @ \cup {c}])

Shared == seeding # NoSeeding /\ todo = <<>> /\ seeding.left = {}

Announces == Shared /\ Runs(<<>>, NoSeeding)

trust(p) == Handles(<<SaveTrust(trusted \cup {p})>>)

untrust(p) == Handles(<<SaveTrust(trusted \ {p})>>)

-----------------------------------------------------------------------------
(* fs.writeFileSync *)

Step == Head(todo)

(* The list in memory is changed before it is saved. *)
Remembers ==
    /\ index' = IF Step.to = "index" THEN Step.val ELSE index
    /\ trusted' = IF Step.to = "trust" THEN Step.val ELSE trusted
    /\ approved' = IF Step.to = "trust" THEN approved \cap Step.val ELSE approved
    /\ UNCHANGED self

BeginWrite ==
    /\ todo # <<>> /\ ~filling
    /\ filling' = TRUE
    /\ identity' = IF Step.to = "identity" THEN Torn(0) ELSE identity
    /\ indexFile' = IF Step.to = "index" THEN Torn(NoFiles) ELSE indexFile
    /\ trustFile' = IF Step.to = "trust" THEN Torn({}) ELSE trustFile
    /\ chunkFile' = IF Step.to = "chunk" THEN [chunkFile EXCEPT ![Step.val] = "torn"]
                    ELSE chunkFile
    /\ Remembers
    /\ UNCHANGED <<proc, todo, seeding, seeds, faults, ids, saved, cut, clobbered>>

EndWrite ==
    /\ filling
    /\ filling' = FALSE
    /\ todo' = Tail(todo)
    /\ \/ /\ Step.to = "identity"
          /\ identity' = Whole(Step.val)
          /\ Loads(Step.val)
          /\ UNCHANGED <<indexFile, trustFile, chunkFile, saved, approved, clobbered>>
       \/ /\ Step.to = "index"
          /\ indexFile' = Whole(Step.val)
          /\ saved' = saved \cup Step.val.chunks
          /\ UNCHANGED <<proc, identity, trustFile, chunkFile, memory, ids, approved,
                         clobbered>>
       \/ /\ Step.to = "trust"
          /\ trustFile' = Whole(Step.val)
          /\ approved' = Step.val
          /\ UNCHANGED <<proc, identity, indexFile, chunkFile, memory, ids, saved,
                         clobbered>>
       \/ /\ Step.to = "chunk"
          /\ chunkFile' = [chunkFile EXCEPT ![Step.val] = "whole"]
          /\ clobbered' = clobbered \ {Step.val}
          /\ UNCHANGED <<proc, identity, indexFile, trustFile, memory, ids, saved,
                         approved>>
    /\ UNCHANGED <<seeding, seeds, faults, cut>>

(* History of a handler that stops in the middle of a write. *)
CutsShort ==
    /\ faults < MaxFaults
    /\ faults' = faults + 1
    /\ todo' = <<>>
    /\ seeding' = NoSeeding
    /\ filling' = FALSE
    /\ cut' = IF filling THEN cut \cup ({Step.to} \cap {"index", "trust"}) ELSE cut
    /\ clobbered' = IF filling /\ Step.to = "chunk"
                    THEN clobbered \cup ({Step.val} \cap
                                         (index.chunks \cup indexFile.val.chunks))
                    ELSE clobbered

(* A write fails (the disk is full, the file cannot be opened): the exception *)
(* ends the handler, and start() when it is the seed's.  Memory is as far     *)
(* ahead as the handler got.                                                  *)
WriteFails ==
    /\ todo # <<>>
    /\ CutsShort
    /\ proc' = IF proc = "starting" THEN "down" ELSE proc
    /\ Remembers
    /\ UNCHANGED <<disk, seeds, ids, saved>>

(* The process ends or is killed. *)
Crash ==
    /\ proc # "down"
    /\ CutsShort
    /\ proc' = "down"
    /\ self' = 0 /\ index' = NoFiles /\ trusted' = {}
    /\ UNCHANGED <<disk, seeds, ids, saved, approved>>

-----------------------------------------------------------------------------

Next ==
    \/ initKeys
    \/ \E f \in File : registerManifest(f) \/ seed(f)
    \/ \E c \in Chunk : putChunk(c) \/ seedPuts(c)
    \/ \E p \in Contact : trust(p) \/ untrust(p)
    \/ Announces \/ BeginWrite \/ EndWrite \/ WriteFails
    \/ Crash

Spec == Init /\ [][Next]_vars

-----------------------------------------------------------------------------
(* Properties *)

ListFile(val) == [state : {"absent", "torn", "whole"}, val : val]

IsWrite(w) ==
    \/ w.to = "identity" /\ w.val \in 1..MaxSeeds
    \/ w.to = "index" /\ w.val \in Index
    \/ w.to = "trust" /\ w.val \subseteq Contact
    \/ w.to = "chunk" /\ w.val \in Chunk

TypeOK ==
    /\ proc \in {"down", "starting", "up"}
    /\ identity \in ListFile(0..MaxSeeds)
    /\ indexFile \in ListFile(Index)
    /\ trustFile \in ListFile(SUBSET Contact)
    /\ chunkFile \in [Chunk -> {"absent", "torn", "whole"}]
    /\ self \in 0..MaxSeeds /\ index \in Index /\ trusted \subseteq Contact
    /\ \A i \in DOMAIN todo : IsWrite(todo[i])
    /\ seeding \in [of : SUBSET File, left : SUBSET Chunk, refused : SUBSET Chunk]
    /\ filling \in BOOLEAN
    /\ seeds \in 0..MaxSeeds /\ faults \in 0..MaxFaults
    /\ ids \subseteq 1..MaxSeeds /\ saved \subseteq Chunk /\ approved \subseteq Contact
    /\ cut \subseteq {"index", "trust"} /\ clobbered \subseteq Chunk

(* "Le nodeId reste stable entre les redemarrages" (keys.js 2-3): a node that *)
(* once ran under an identity finds it whole on disk ever after, wherever its *)
(* processes were killed, and never runs under another.                       *)
StableIdentity ==
    ids # {} => identity.state = "whole" /\ ids = {identity.val}

(* A chunk that the index lists, in memory or on disk, is whole in its file:  *)
(* a process killed between the two writes of putChunk (chunkStore.js 53-57)  *)
(* leaves a chunk that is not listed.  The exception is a listed chunk that   *)
(* was being written a second time.                                           *)
IndexSound ==
    \A c \in index.chunks \cup indexFile.val.chunks :
        \/ chunkFile[c] = "whole"
        \/ c \in clobbered
        \/ filling /\ Step = WriteChunk(c)

(* What was saved once is not lost by later writes, failures and restarts     *)
(* unless a write of that very list was cut short (chunkStore.js 19-23,       *)
(* trustStore.js 13-14): no MANIFEST, download or killed transfer makes a     *)
(* node forget its chunks, nor the peers its user approved.                   *)
SavedKept ==
    proc = "up" /\ todo = <<>> =>
        /\ "index" \notin cut => saved \subseteq index.chunks
        /\ "trust" \notin cut => approved \subseteq trusted

(* Sharing a file again repairs it: when seed() tells the peers (fileNode.js  *)
(* 70-73), every chunk of the file that it could put is whole, listed and     *)
(* saved, whatever earlier processes left.                                    *)
SeedRepairs ==
    Shared =>
        \A c \in Chunk : FileOf[c] \in seeding.of /\ c \notin seeding.refused =>
            /\ chunkFile[c] = "whole"
            /\ c \in index.chunks \cap indexFile.val.chunks
=============================================================================
