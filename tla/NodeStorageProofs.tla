------------------------- MODULE NodeStorageProofs -------------------------
(***************************************************************************)
(* What a node finds on disk after any sequence of handlers, failed writes *)
(* and kills, for any number of files, chunks, peers, seeds and faults.    *)
(***************************************************************************)
EXTENDS NodeStorage, TLAPS

(* The writes that a handler can have before it.  The list it saves has all  *)
(* that the list in memory has, which is the same once the file is emptied,  *)
(* and every chunk that it adds is whole by then.                            *)
SeedWrite == \E s \in 1..MaxSeeds : todo = <<SaveSeed(s)>>

IndexWrite ==
    \E x \in Index :
        /\ todo = <<SaveIndex(x)>>
        /\ index.chunks \subseteq x.chunks
        /\ \A c \in x.chunks : c \in index.chunks \/ chunkFile[c] = "whole"
        /\ filling => index = x

TrustWrite ==
    \E set \in SUBSET Contact : todo = <<SaveTrust(set)>> /\ (filling => trusted = set)

ListedChunkWrite == \E c \in Chunk : todo = <<WriteChunk(c)>> /\ c \in index.chunks

NewChunkWrite ==
    \E c \in Chunk, x \in Index :
        /\ todo = <<WriteChunk(c), SaveIndex(x)>>
        /\ x.chunks = index.chunks \cup {c}

HandlerInv ==
    \/ proc = "down" /\ todo = <<>> /\ ~filling
    \/ proc = "starting" /\ SeedWrite /\ ids = {}
    \/ proc = "up" /\ todo = <<>> /\ ~filling
    \/ proc = "up" /\ (IndexWrite \/ TrustWrite \/ ListedChunkWrite \/ NewChunkWrite)

IdentityInv ==
    /\ StableIdentity
    /\ identity.state = "whole" => identity.val \in 1..MaxSeeds

Writing(list) == filling /\ Step.to = list

(* What was saved is in memory and on disk, unless the list is being written *)
(* (then the list written has it) or a write of it was cut short.            *)
SavedInv ==
    /\ "index" \notin cut =>
         /\ proc = "up" => saved \subseteq index.chunks
         /\ saved \subseteq indexFile.val.chunks \/ Writing("index")
    /\ "trust" \notin cut =>
         /\ proc = "up" => approved \subseteq trusted
         /\ approved \subseteq trustFile.val \/ Writing("trust")

Saves(c) == todo # <<>> /\ Step.to = "index" /\ c \in Step.val.chunks

(* What seed() has done so far: it has still to put the chunk, could not, is *)
(* writing it, or has written it; and nothing is in memory that is not on    *)
(* disk, but for what is being saved.                                        *)
SeedingInv ==
    /\ proc # "up" => seeding = NoSeeding
    /\ \A c \in Chunk : FileOf[c] \in seeding.of =>
         \/ c \in seeding.left \cup seeding.refused
         \/ todo # <<>> /\ Step = WriteChunk(c)
         \/ chunkFile[c] = "whole" /\ (c \in index.chunks \/ Saves(c))
    /\ seeding # NoSeeding =>
         \/ index.chunks \subseteq indexFile.val.chunks
         \/ todo # <<>> /\ Step.to = "index"

StorageInv ==
    TypeOK /\ HandlerInv /\ IdentityInv /\ IndexSound /\ SavedInv /\ SeedingInv

LEMMA InitStorage == Init => StorageInv
  <1> SUFFICES ASSUME Init PROVE StorageInv
    OBVIOUS
  <1> USE NodeStorageAssumption DEF Init, Absent, NoFiles
  <1>1. TypeOK
    <2>1. [files |-> {}, chunks |-> {}] \in Index
      BY DEF Index
    <2>2. 0 \in 0..MaxSeeds
      OBVIOUS
    <2>3. \A v : \A V : v \in V => [state |-> "absent", val |-> v] \in ListFile(V)
      BY DEF ListFile
    <2>4. /\ identity \in ListFile(0..MaxSeeds) /\ indexFile \in ListFile(Index)
          /\ trustFile \in ListFile(SUBSET Contact)
      BY <2>1, <2>2, <2>3
    <2>5. \A j \in DOMAIN todo : IsWrite(todo[j])
      OBVIOUS
    <2>6. seeding \in [of : SUBSET File, left : SUBSET Chunk, refused : SUBSET Chunk]
      BY DEF NoSeeding
    <2>7. /\ self \in 0..MaxSeeds /\ seeds \in 0..MaxSeeds /\ faults \in 0..MaxFaults
      OBVIOUS
    <2>8. chunkFile \in [Chunk -> {"absent", "torn", "whole"}]
      OBVIOUS
    <2>9. filling \in BOOLEAN /\ proc \in {"down", "starting", "up"} /\ index \in Index
      BY <2>1
    <2> QED
      BY <2>4, <2>5, <2>6, <2>7, <2>8, <2>9 DEF TypeOK
  <1>2. HandlerInv /\ IdentityInv /\ IndexSound
    BY DEF HandlerInv, IdentityInv, StableIdentity, IndexSound
  <1>3. SavedInv /\ SeedingInv
    BY DEF SavedInv, SeedingInv, NoSeeding
  <1> QED
    BY <1>1, <1>2, <1>3 DEF StorageInv

-----------------------------------------------------------------------------
(* The list of writes *)

LEMMA OneWrite ==
    ASSUME NEW w, todo = <<w>>
    PROVE  todo # <<>> /\ Step = w /\ Tail(todo) = <<>>
  BY DEF Step

LEMMA TwoWrites ==
    ASSUME NEW v, NEW w, todo = <<v, w>>
    PROVE  todo # <<>> /\ Step = v /\ Tail(todo) = <<w>>
  BY DEF Step

-----------------------------------------------------------------------------
(* The start of a process *)

LEMMA InitKeysStorage ==
    ASSUME StorageInv, initKeys
    PROVE  StorageInv'
  <1> USE NodeStorageAssumption
  <1>0. proc = "down" /\ todo = <<>> /\ ~filling
    BY DEF StorageInv, HandlerInv, initKeys
  <1>1. CASE identity.state = "whole"
    <2>1. /\ Loads(identity.val)
          /\ UNCHANGED <<todo, seeds, disk, seeding, filling, faults, saved, approved, cut,
                         clobbered>>
      BY <1>1 DEF initKeys
    <2>2. identity.val \in 1..MaxSeeds
      BY <1>1 DEF StorageInv, IdentityInv
    <2>3. TypeOK'
      BY <2>1, <2>2 DEF StorageInv, TypeOK, Loads, ListFile, disk, Index
    <2>4. HandlerInv'
      BY <1>0, <2>1 DEF HandlerInv, Loads
    <2>5. IdentityInv'
      BY <1>1, <2>1 DEF StorageInv, IdentityInv, StableIdentity, Loads, disk
    <2>6. IndexSound'
      BY <1>0, <2>1 DEF StorageInv, IndexSound, Loads, disk
    <2>7. SavedInv'
      BY <1>0, <2>1 DEF StorageInv, SavedInv, Loads, disk, Writing
    <2>8. SeedingInv'
      BY <1>0, <2>1 DEF StorageInv, SeedingInv, NoSeeding
    <2> QED
      BY <2>3, <2>4, <2>5, <2>6, <2>7, <2>8 DEF StorageInv
  <1>2. CASE identity.state # "whole"
    <2>1. /\ seeds' = seeds + 1 /\ seeds < MaxSeeds
          /\ proc' = "starting"
          /\ todo' = <<SaveSeed(seeds + 1)>>
          /\ UNCHANGED <<memory, ids, disk, seeding, filling, faults, saved, approved, cut,
                         clobbered>>
      BY <1>2 DEF initKeys
    <2>2. seeds + 1 \in 1..MaxSeeds
      BY <2>1 DEF StorageInv, TypeOK
    <2>3. TypeOK'
      BY <2>1, <2>2 DEF StorageInv, TypeOK, memory, disk, IsWrite, SaveSeed
    <2>4. HandlerInv'
      BY <1>2, <2>1, <2>2
         DEF StorageInv, HandlerInv, SeedWrite, IdentityInv, StableIdentity
    <2>5. IdentityInv'
      BY <2>1 DEF StorageInv, IdentityInv, StableIdentity, disk
    <2>6. IndexSound'
      BY <1>0, <2>1 DEF StorageInv, IndexSound, memory, disk
    <2>7. SavedInv'
      BY <1>0, <2>1 DEF StorageInv, SavedInv, memory, disk, Writing
    <2>8. SeedingInv'
      BY <1>0, <2>1 DEF StorageInv, SeedingInv, memory, disk, Saves
    <2> QED
      BY <2>3, <2>4, <2>5, <2>6, <2>7, <2>8 DEF StorageInv
  <1> QED
    BY <1>1, <1>2

-----------------------------------------------------------------------------
(* The handlers *)

(* A handler that begins writes nothing yet. *)
LEMMA RunsFacts ==
    ASSUME StorageInv, NEW writes, NEW then, Runs(writes, then),
           \A j \in DOMAIN writes : IsWrite(writes[j]),
           then \in [of : SUBSET File, left : SUBSET Chunk, refused : SUBSET Chunk]
    PROVE  /\ TypeOK' /\ IdentityInv' /\ IndexSound' /\ SavedInv'
           /\ proc = "up" /\ proc' = "up" /\ todo = <<>> /\ ~filling /\ ~filling'
           /\ todo' = writes /\ seeding' = then
           /\ UNCHANGED <<index, indexFile, chunkFile, trusted>>
  <1>1. proc = "up" /\ todo = <<>> /\ todo' = writes /\ seeding' = then
    BY DEF Runs
  <1>2. UNCHANGED <<proc, disk, memory, filling, seeds, faults, history>>
    BY DEF Runs
  <1>3. ~filling
    BY <1>1, OneWrite, TwoWrites
       DEF StorageInv, HandlerInv, IndexWrite, TrustWrite, ListedChunkWrite, NewChunkWrite
  <1>4. TypeOK'
    BY <1>1, <1>2 DEF StorageInv, TypeOK, disk, memory, history, IsWrite
  <1>5. IdentityInv'
    BY <1>2 DEF StorageInv, IdentityInv, StableIdentity, disk, history
  <1>6. IndexSound'
    BY <1>2, <1>3 DEF StorageInv, IndexSound, disk, memory, history
  <1>7. SavedInv'
    BY <1>2, <1>3 DEF StorageInv, SavedInv, Writing, disk, memory, history
  <1> QED
    BY <1>1, <1>2, <1>3, <1>4, <1>5, <1>6, <1>7 DEF disk, memory

LEMMA WithFacts ==
    ASSUME NEW x \in Index, NEW f \in File, NEW cs \in SUBSET Chunk
    PROVE  With(x, f, cs) \in Index /\ With(x, f, cs).chunks = x.chunks \cup cs
  BY DEF With, Index

LEMMA RegisterFacts ==
    ASSUME StorageInv, NEW f \in File
    PROVE  \E x \in Index : /\ Register(index, f) = <<SaveIndex(x)>>
                            /\ x.chunks = index.chunks
                            /\ IsWrite(SaveIndex(x))
  <1>1. index \in Index
    BY DEF StorageInv, TypeOK
  <1>2. With(index, f, {}) \in Index /\ With(index, f, {}).chunks = index.chunks
    BY <1>1, WithFacts
  <1> QED
    BY <1>2 DEF Register, Registered, SaveIndex, IsWrite

LEMMA PutFacts ==
    ASSUME StorageInv, NEW c \in Chunk
    PROVE  /\ IsWrite(WriteChunk(c))
           /\ \/ c \in index.chunks /\ Put(index, c) = <<WriteChunk(c)>>
              \/ \E x \in Index : /\ Put(index, c) = <<WriteChunk(c), SaveIndex(x)>>
                                   /\ x.chunks = index.chunks \cup {c}
                                   /\ IsWrite(SaveIndex(x))
  <1>1. index \in Index /\ FileOf[c] \in File
    BY NodeStorageAssumption DEF StorageInv, TypeOK
  <1>2. /\ With(index, FileOf[c], {c}) \in Index
        /\ With(index, FileOf[c], {c}).chunks = index.chunks \cup {c}
    BY <1>1, WithFacts
  <1>3. IsWrite(WriteChunk(c))
    BY DEF IsWrite, WriteChunk
  <1>4. IsWrite(SaveIndex(With(index, FileOf[c], {c})))
    BY <1>2 DEF IsWrite, SaveIndex
  <1> QED
    BY <1>2, <1>3, <1>4 DEF Put

(* A file is registered, by itself or as the first thing seed() does. *)
LEMMA RegisterStorage ==
    ASSUME StorageInv, NEW f \in File, NEW then, Runs(Register(index, f), then),
           \/ then = NoSeeding
           \/ then = Seeding(f, {c \in Chunk : FileOf[c] = f})
    PROVE  StorageInv'
  <1>1. PICK x \in Index : /\ Register(index, f) = <<SaveIndex(x)>>
                           /\ x.chunks = index.chunks
                           /\ IsWrite(SaveIndex(x))
    BY RegisterFacts
  <1>2. then \in [of : SUBSET File, left : SUBSET Chunk, refused : SUBSET Chunk]
    BY DEF Seeding, NoSeeding
  <1>3. \A j \in DOMAIN Register(index, f) : IsWrite(Register(index, f)[j])
    BY <1>1
  <1>4. /\ TypeOK' /\ IdentityInv' /\ IndexSound' /\ SavedInv'
        /\ proc' = "up" /\ ~filling' /\ todo' = <<SaveIndex(x)>> /\ seeding' = then
        /\ UNCHANGED <<index, indexFile, chunkFile, trusted>>
    BY <1>1, <1>2, <1>3, RunsFacts
  <1>5. HandlerInv'
    BY <1>1, <1>4 DEF HandlerInv, IndexWrite
  <1>6. Step' = SaveIndex(x) /\ todo' # <<>>
    BY <1>4 DEF Step
  <1>7. SeedingInv'
    BY <1>4, <1>6 DEF SeedingInv, Seeding, NoSeeding, SaveIndex
  <1> QED
    BY <1>4, <1>5, <1>7 DEF StorageInv

(* A chunk is put, by itself or by seed(). *)
LEMMA PutStorage ==
    ASSUME StorageInv, NEW c \in Chunk, NEW then, Runs(Put(index, c), then),
           \/ then = NoSeeding
           \/ then = [seeding EXCEPT !.left = @ \ {c}] /\ c \in seeding.left
    PROVE  StorageInv'
  <1>1. /\ IsWrite(WriteChunk(c))
        /\ \/ c \in index.chunks /\ Put(index, c) = <<WriteChunk(c)>>
           \/ \E x \in Index : /\ Put(index, c) = <<WriteChunk(c), SaveIndex(x)>>
                                /\ x.chunks = index.chunks \cup {c}
                                /\ IsWrite(SaveIndex(x))
    BY PutFacts
  <1>2. then \in [of : SUBSET File, left : SUBSET Chunk, refused : SUBSET Chunk]
    BY DEF NoSeeding, StorageInv, TypeOK
  <1>3. \A j \in DOMAIN Put(index, c) : IsWrite(Put(index, c)[j])
    BY <1>1
  <1>4. /\ TypeOK' /\ IdentityInv' /\ IndexSound' /\ SavedInv'
        /\ proc = "up" /\ proc' = "up" /\ todo = <<>> /\ ~filling'
        /\ todo' = Put(index, c) /\ seeding' = then
        /\ UNCHANGED <<index, indexFile, chunkFile, trusted>>
    BY <1>2, <1>3, RunsFacts
  <1>5. HandlerInv'
    BY <1>1, <1>4 DEF HandlerInv, ListedChunkWrite, NewChunkWrite
  <1>6. Step' = WriteChunk(c) /\ todo' # <<>>
    BY <1>1, <1>4 DEF Step
  <1>7. SeedingInv'
    <2>1. CASE then = NoSeeding
      BY <1>4, <2>1 DEF SeedingInv, NoSeeding
    <2>2. CASE then = [seeding EXCEPT !.left = @ \ {c}] /\ c \in seeding.left
      <3>1. /\ then.of = seeding.of /\ then.left = seeding.left \ {c}
            /\ then.refused = seeding.refused /\ seeding # NoSeeding
        BY <2>2 DEF StorageInv, TypeOK, NoSeeding
      <3>2. /\ \A d \in Chunk : FileOf[d] \in seeding.of =>
                  \/ d \in seeding.left \cup seeding.refused
                  \/ (chunkFile[d] = "whole" /\ d \in index.chunks)
            /\ index.chunks \subseteq indexFile.val.chunks
        BY <1>4, <3>1 DEF StorageInv, SeedingInv, Saves
      <3> QED
        BY <1>4, <1>6, <3>1, <3>2 DEF SeedingInv
    <2> QED
      BY <2>1, <2>2
  <1> QED
    BY <1>4, <1>5, <1>7 DEF StorageInv

(* A chunk that putChunk refuses. *)
LEMMA RefusalStorage ==
    ASSUME StorageInv, NEW c \in seeding.left,
           Runs(<<>>, [seeding EXCEPT !.left = @ \ {c}, !.refused = @ \cup {c}])
    PROVE  StorageInv'
  <1> DEFINE then == [seeding EXCEPT !.left = @ \ {c}, !.refused = @ \cup {c}]
  <1>1. /\ seeding # NoSeeding
        /\ then \in [of : SUBSET File, left : SUBSET Chunk, refused : SUBSET Chunk]
        /\ then.of = seeding.of
        /\ then.left \cup then.refused = seeding.left \cup seeding.refused
    <2>1. seeding \in [of : SUBSET File, left : SUBSET Chunk, refused : SUBSET Chunk]
      BY DEF StorageInv, TypeOK
    <2>2. /\ then.of = seeding.of /\ then.left = seeding.left \ {c}
          /\ then.refused = seeding.refused \cup {c}
      BY <2>1
    <2>3. then \in [of : SUBSET File, left : SUBSET Chunk, refused : SUBSET Chunk]
      BY <2>1
    <2> HIDE DEF then
    <2>4. then.left \cup then.refused = seeding.left \cup seeding.refused
      BY <2>2
    <2>5. seeding # NoSeeding
      BY DEF NoSeeding
    <2> QED
      BY <2>2, <2>3, <2>4, <2>5
  <1>2. /\ TypeOK' /\ IdentityInv' /\ IndexSound' /\ SavedInv'
        /\ proc' = "up" /\ todo = <<>> /\ ~filling' /\ todo' = <<>> /\ seeding' = then
        /\ UNCHANGED <<index, indexFile, chunkFile, trusted>>
    <2>1. Runs(<<>>, then)
      OBVIOUS
    <2> HIDE DEF then
    <2> QED
      BY <1>1, <2>1, RunsFacts
  <1> HIDE DEF then
  <1>3. HandlerInv'
    BY <1>2 DEF HandlerInv
  <1>4. SeedingInv'
    BY <1>1, <1>2 DEF StorageInv, SeedingInv, Saves
  <1> QED
    BY <1>2, <1>3, <1>4 DEF StorageInv

LEMMA TrustStorage ==
    ASSUME StorageInv, NEW set \in SUBSET Contact, Handles(<<SaveTrust(set)>>)
    PROVE  StorageInv'
  <1>1. IsWrite(SaveTrust(set))
    BY DEF IsWrite, SaveTrust
  <1>2. NoSeeding \in [of : SUBSET File, left : SUBSET Chunk, refused : SUBSET Chunk]
    BY DEF NoSeeding
  <1>3. /\ TypeOK' /\ IdentityInv' /\ IndexSound' /\ SavedInv'
        /\ proc' = "up" /\ ~filling' /\ todo' = <<SaveTrust(set)>>
        /\ seeding' = NoSeeding
    BY <1>1, <1>2, RunsFacts DEF Handles
  <1>4. HandlerInv'
    BY <1>3 DEF HandlerInv, TrustWrite
  <1>5. SeedingInv'
    BY <1>3 DEF SeedingInv, NoSeeding
  <1> QED
    BY <1>3, <1>4, <1>5 DEF StorageInv

LEMMA AnnouncesStorage ==
    ASSUME StorageInv, Announces
    PROVE  StorageInv'
  <1>1. Runs(<<>>, NoSeeding)
    BY DEF Announces
  <1>2. NoSeeding \in [of : SUBSET File, left : SUBSET Chunk, refused : SUBSET Chunk]
    BY DEF NoSeeding
  <1>3. /\ TypeOK' /\ IdentityInv' /\ IndexSound' /\ SavedInv'
        /\ proc' = "up" /\ ~filling' /\ todo' = <<>> /\ seeding' = NoSeeding
    BY <1>1, <1>2, RunsFacts
  <1>4. HandlerInv' /\ SeedingInv'
    BY <1>3 DEF HandlerInv, SeedingInv, NoSeeding
  <1> QED
    BY <1>3, <1>4 DEF StorageInv
-----------------------------------------------------------------------------
(* The writes *)

LEMMA BeginWriteStorage ==
    ASSUME StorageInv, BeginWrite
    PROVE  StorageInv'
  <1> USE NodeStorageAssumption
  <1>1. CASE proc = "starting" /\ SeedWrite /\ ids = {}
    <2>1. PICK s \in 1..MaxSeeds : todo = <<SaveSeed(s)>>
      BY <1>1 DEF SeedWrite
    <2>2. Step = SaveSeed(s) /\ todo # <<>> /\ Tail(todo) = <<>>
      BY <2>1, OneWrite
    <2>3. Step.to = "identity" /\ Step.val = s
      BY <2>2 DEF SaveSeed
    <2>4. /\ ~filling
          /\ filling' = TRUE
          /\ identity' = Torn(0)
          /\ UNCHANGED <<indexFile, trustFile, chunkFile, index,
                          trusted, approved, self, proc, todo,
                          seeding, seeds, faults, ids, saved, cut,
                          clobbered>>
      BY <1>1, <2>1, <2>2, <2>3 DEF BeginWrite, Remembers
    <2>5. TypeOK'
      BY <2>1, <2>2, <2>4 DEF StorageInv, TypeOK, IsWrite, ListFile, Torn, Index, NoFiles
    <2>6. HandlerInv'
      BY <1>1, <2>1, <2>2, <2>4
         DEF StorageInv, TypeOK, HandlerInv, SeedWrite, IndexWrite, TrustWrite,
             SaveSeed, ListedChunkWrite, NewChunkWrite
    <2>7. IdentityInv'
      BY <1>1, <2>1, <2>2, <2>4 DEF StorageInv, IdentityInv, StableIdentity, Torn, Whole
    <2>8. IndexSound'
      <3>1. \A d \in index.chunks \cup indexFile.val.chunks :
               chunkFile[d] = "whole" \/ d \in clobbered
        BY <2>4 DEF StorageInv, IndexSound
      <3>2. index.chunks \subseteq Chunk /\ chunkFile \in [Chunk -> {"absent", "torn", "whole"}]
        BY DEF StorageInv, TypeOK, Index
      <3>3. Step' = Step
        BY <2>4 DEF Step
      <3>4. index'.chunks \cup indexFile'.val.chunks =
               index.chunks \cup indexFile.val.chunks
        BY <2>4 DEF Torn, NoFiles
      <3> QED
        BY <2>1, <2>2, <2>4, <3>1, <3>2, <3>3, <3>4 DEF IndexSound
    <2>9. SavedInv'
      BY <1>1, <2>1, <2>2, <2>3, <2>4
         DEF StorageInv, TypeOK, SavedInv, Writing, Step, Torn, Whole, NoFiles
    <2>10. SeedingInv'
      BY <1>1, <2>1, <2>2, <2>3, <2>4
         DEF StorageInv, TypeOK, SeedingInv, Saves, Step, WriteChunk, SaveIndex, SaveTrust,
             SaveSeed, Torn, NoFiles, NoSeeding
    <2> QED
      BY <2>5, <2>6, <2>7, <2>8, <2>9, <2>10 DEF StorageInv
  <1>2. CASE proc = "up" /\ IndexWrite
    <2>1. PICK x \in Index : /\ todo = <<SaveIndex(x)>>
                             /\ index.chunks \subseteq x.chunks
                             /\ \A c \in x.chunks : \/ c \in index.chunks
                                                    \/ chunkFile[c] = "whole"
                             /\ filling => index = x
      BY <1>2 DEF IndexWrite
    <2>2. Step = SaveIndex(x) /\ todo # <<>> /\ Tail(todo) = <<>>
      BY <2>1, OneWrite
    <2>3. Step.to = "index" /\ Step.val = x
      BY <2>2 DEF SaveIndex
    <2>4. /\ ~filling
          /\ filling' = TRUE
          /\ indexFile' = Torn(NoFiles)
          /\ index' = x
          /\ UNCHANGED <<identity, trustFile, chunkFile, trusted,
                          approved, self, proc, todo, seeding, seeds,
                          faults, ids, saved, cut, clobbered>>
      BY <1>2, <2>1, <2>2, <2>3 DEF BeginWrite, Remembers
    <2>5. TypeOK'
      BY <2>1, <2>2, <2>4 DEF StorageInv, TypeOK, IsWrite, ListFile, Torn, Index, NoFiles
    <2>6. HandlerInv'
      BY <1>2, <2>1, <2>2, <2>4
         DEF StorageInv, TypeOK, HandlerInv, SeedWrite, IndexWrite, TrustWrite,
             SaveIndex, ListedChunkWrite, NewChunkWrite
    <2>7. IdentityInv'
      BY <1>2, <2>1, <2>2, <2>4 DEF StorageInv, IdentityInv, StableIdentity, Torn, Whole
    <2>8. IndexSound'
      <3>1. \A d \in index.chunks \cup indexFile.val.chunks :
               chunkFile[d] = "whole" \/ d \in clobbered
        BY <2>4 DEF StorageInv, IndexSound
      <3>2. index.chunks \subseteq Chunk /\ chunkFile \in [Chunk -> {"absent", "torn", "whole"}]
        BY DEF StorageInv, TypeOK, Index
      <3>3. Step' = Step
        BY <2>4 DEF Step
      <3>4. index'.chunks \cup indexFile'.val.chunks =
               x.chunks
        BY <2>4 DEF Torn, NoFiles
      <3> QED
        BY <2>1, <2>2, <2>4, <3>1, <3>2, <3>3, <3>4 DEF IndexSound
    <2>9. SavedInv'
      BY <1>2, <2>1, <2>2, <2>3, <2>4
         DEF StorageInv, TypeOK, SavedInv, Writing, Step, Torn, Whole, NoFiles
    <2>10. SeedingInv'
      BY <1>2, <2>1, <2>2, <2>3, <2>4
         DEF StorageInv, TypeOK, SeedingInv, Saves, Step, WriteChunk, SaveIndex, SaveTrust,
             SaveSeed, Torn, NoFiles, NoSeeding
    <2> QED
      BY <2>5, <2>6, <2>7, <2>8, <2>9, <2>10 DEF StorageInv
  <1>3. CASE proc = "up" /\ TrustWrite
    <2>1. PICK ps \in SUBSET Contact : /\ todo = <<SaveTrust(ps)>>
                                       /\ filling => trusted = ps
      BY <1>3 DEF TrustWrite
    <2>2. Step = SaveTrust(ps) /\ todo # <<>> /\ Tail(todo) = <<>>
      BY <2>1, OneWrite
    <2>3. Step.to = "trust" /\ Step.val = ps
      BY <2>2 DEF SaveTrust
    <2>4. /\ ~filling
          /\ filling' = TRUE
          /\ trustFile' = Torn({})
          /\ trusted' = ps
          /\ approved' = approved \cap ps
          /\ UNCHANGED <<identity, indexFile, chunkFile, index,
                          self, proc, todo, seeding, seeds, faults,
                          ids, saved, cut, clobbered>>
      BY <1>3, <2>1, <2>2, <2>3 DEF BeginWrite, Remembers
    <2>5. TypeOK'
      BY <2>1, <2>2, <2>4 DEF StorageInv, TypeOK, IsWrite, ListFile, Torn, Index, NoFiles
    <2>6. HandlerInv'
      BY <1>3, <2>1, <2>2, <2>4
         DEF StorageInv, TypeOK, HandlerInv, SeedWrite, IndexWrite, TrustWrite,
             SaveTrust, ListedChunkWrite, NewChunkWrite
    <2>7. IdentityInv'
      BY <1>3, <2>1, <2>2, <2>4 DEF StorageInv, IdentityInv, StableIdentity, Torn, Whole
    <2>8. IndexSound'
      <3>1. \A d \in index.chunks \cup indexFile.val.chunks :
               chunkFile[d] = "whole" \/ d \in clobbered
        BY <2>4 DEF StorageInv, IndexSound
      <3>2. index.chunks \subseteq Chunk /\ chunkFile \in [Chunk -> {"absent", "torn", "whole"}]
        BY DEF StorageInv, TypeOK, Index
      <3>3. Step' = Step
        BY <2>4 DEF Step
      <3>4. index'.chunks \cup indexFile'.val.chunks =
               index.chunks \cup indexFile.val.chunks
        BY <2>4 DEF Torn, NoFiles
      <3> QED
        BY <2>1, <2>2, <2>4, <3>1, <3>2, <3>3, <3>4 DEF IndexSound
    <2>9. SavedInv'
      BY <1>3, <2>1, <2>2, <2>3, <2>4
         DEF StorageInv, TypeOK, SavedInv, Writing, Step, Torn, Whole, NoFiles
    <2>10. SeedingInv'
      BY <1>3, <2>1, <2>2, <2>3, <2>4
         DEF StorageInv, TypeOK, SeedingInv, Saves, Step, WriteChunk, SaveIndex, SaveTrust,
             SaveSeed, Torn, NoFiles, NoSeeding
    <2> QED
      BY <2>5, <2>6, <2>7, <2>8, <2>9, <2>10 DEF StorageInv
  <1>4. CASE proc = "up" /\ ListedChunkWrite
    <2>1. PICK c \in Chunk : todo = <<WriteChunk(c)>> /\ c \in index.chunks
      BY <1>4 DEF ListedChunkWrite
    <2>2. Step = WriteChunk(c) /\ todo # <<>> /\ Tail(todo) = <<>>
      BY <2>1, OneWrite
    <2>3. Step.to = "chunk" /\ Step.val = c
      BY <2>2 DEF WriteChunk
    <2>4. /\ ~filling
          /\ filling' = TRUE
          /\ chunkFile' = [chunkFile EXCEPT ![c] = "torn"]
          /\ UNCHANGED <<identity, indexFile, trustFile, index,
                          trusted, approved, self, proc, todo,
                          seeding, seeds, faults, ids, saved, cut,
                          clobbered>>
      BY <1>4, <2>1, <2>2, <2>3 DEF BeginWrite, Remembers
    <2>5. TypeOK'
      BY <2>1, <2>2, <2>4 DEF StorageInv, TypeOK, IsWrite, ListFile, Torn, Index, NoFiles
    <2>6. HandlerInv'
      BY <1>4, <2>1, <2>2, <2>4
         DEF StorageInv, TypeOK, HandlerInv, SeedWrite, IndexWrite, TrustWrite,
             WriteChunk, ListedChunkWrite, NewChunkWrite
    <2>7. IdentityInv'
      BY <1>4, <2>1, <2>2, <2>4 DEF StorageInv, IdentityInv, StableIdentity, Torn, Whole
    <2>8. IndexSound'
      <3>1. \A d \in index.chunks \cup indexFile.val.chunks :
               chunkFile[d] = "whole" \/ d \in clobbered
        BY <2>4 DEF StorageInv, IndexSound
      <3>2. index.chunks \subseteq Chunk /\ chunkFile \in [Chunk -> {"absent", "torn", "whole"}]
        BY DEF StorageInv, TypeOK, Index
      <3>3. Step' = Step
        BY <2>4 DEF Step
      <3>4. index'.chunks \cup indexFile'.val.chunks =
               index.chunks \cup indexFile.val.chunks
        BY <2>4 DEF Torn, NoFiles
      <3> QED
        BY <2>1, <2>2, <2>4, <3>1, <3>2, <3>3, <3>4 DEF IndexSound
    <2>9. SavedInv'
      BY <1>4, <2>1, <2>2, <2>3, <2>4
         DEF StorageInv, TypeOK, SavedInv, Writing, Step, Torn, Whole, NoFiles
    <2>10. SeedingInv'
      BY <1>4, <2>1, <2>2, <2>3, <2>4
         DEF StorageInv, TypeOK, SeedingInv, Saves, Step, WriteChunk, SaveIndex, SaveTrust,
             SaveSeed, Torn, NoFiles, NoSeeding
    <2> QED
      BY <2>5, <2>6, <2>7, <2>8, <2>9, <2>10 DEF StorageInv
  <1>5. CASE proc = "up" /\ NewChunkWrite
    <2>1. PICK c \in Chunk, x \in Index : /\ todo = <<WriteChunk(c), SaveIndex(x)>>
                                          /\ x.chunks = index.chunks \cup {c}
      BY <1>5 DEF NewChunkWrite
    <2>2. Step = WriteChunk(c) /\ todo # <<>> /\ Tail(todo) = <<SaveIndex(x)>>
      BY <2>1, TwoWrites
    <2>3. Step.to = "chunk" /\ Step.val = c
      BY <2>2 DEF WriteChunk
    <2>4. /\ ~filling
          /\ filling' = TRUE
          /\ chunkFile' = [chunkFile EXCEPT ![c] = "torn"]
          /\ UNCHANGED <<identity, indexFile, trustFile, index,
                          trusted, approved, self, proc, todo,
                          seeding, seeds, faults, ids, saved, cut,
                          clobbered>>
      BY <1>5, <2>1, <2>2, <2>3 DEF BeginWrite, Remembers
    <2>5. TypeOK'
      BY <2>1, <2>2, <2>4 DEF StorageInv, TypeOK, IsWrite, ListFile, Torn, Index, NoFiles
    <2>6. HandlerInv'
      BY <1>5, <2>1, <2>2, <2>4
         DEF StorageInv, TypeOK, HandlerInv, SeedWrite, IndexWrite, TrustWrite,
             WriteChunk, ListedChunkWrite, NewChunkWrite
    <2>7. IdentityInv'
      BY <1>5, <2>1, <2>2, <2>4 DEF StorageInv, IdentityInv, StableIdentity, Torn, Whole
    <2>8. IndexSound'
      <3>1. \A d \in index.chunks \cup indexFile.val.chunks :
               chunkFile[d] = "whole" \/ d \in clobbered
        BY <2>4 DEF StorageInv, IndexSound
      <3>2. index.chunks \subseteq Chunk /\ chunkFile \in [Chunk -> {"absent", "torn", "whole"}]
        BY DEF StorageInv, TypeOK, Index
      <3>3. Step' = Step
        BY <2>4 DEF Step
      <3>4. index'.chunks \cup indexFile'.val.chunks =
               index.chunks \cup indexFile.val.chunks
        BY <2>4 DEF Torn, NoFiles
      <3> QED
        BY <2>1, <2>2, <2>4, <3>1, <3>2, <3>3, <3>4 DEF IndexSound
    <2>9. SavedInv'
      BY <1>5, <2>1, <2>2, <2>3, <2>4
         DEF StorageInv, TypeOK, SavedInv, Writing, Step, Torn, Whole, NoFiles
    <2>10. SeedingInv'
      BY <1>5, <2>1, <2>2, <2>3, <2>4
         DEF StorageInv, TypeOK, SeedingInv, Saves, Step, WriteChunk, SaveIndex, SaveTrust,
             SaveSeed, Torn, NoFiles, NoSeeding
    <2> QED
      BY <2>5, <2>6, <2>7, <2>8, <2>9, <2>10 DEF StorageInv
  <1> QED
    BY <1>1, <1>2, <1>3, <1>4, <1>5 DEF StorageInv, HandlerInv, BeginWrite

LEMMA EndWriteStorage ==
    ASSUME StorageInv, EndWrite
    PROVE  StorageInv'
  <1> USE NodeStorageAssumption
  <1>1. CASE proc = "starting" /\ SeedWrite /\ ids = {}
    <2>1. PICK s \in 1..MaxSeeds : todo = <<SaveSeed(s)>>
      BY <1>1 DEF SeedWrite
    <2>2. Step = SaveSeed(s) /\ todo # <<>> /\ Tail(todo) = <<>>
      BY <2>1, OneWrite
    <2>3. Step.to = "identity" /\ Step.val = s
      BY <2>2 DEF SaveSeed
    <2>4. /\ filling
          /\ filling' = FALSE
          /\ todo' = <<>>
          /\ identity' = Whole(s)
          /\ proc' = "up"
          /\ self' = s
          /\ index' = indexFile.val
          /\ trusted' = trustFile.val
          /\ ids' = ids \cup {s}
          /\ UNCHANGED <<indexFile, trustFile, chunkFile, approved,
                          seeding, seeds, faults, saved, cut,
                          clobbered>>
      BY <1>1, <2>1, <2>2, <2>3 DEF EndWrite, Loads, memory
    <2>5. TypeOK'
      <3>1. \A j \in DOMAIN todo' : IsWrite(todo'[j])
        BY <2>1, <2>4 DEF IsWrite, SaveIndex
      <3>2. identity' \in ListFile(0..MaxSeeds)
        BY <2>1, <2>4 DEF StorageInv, TypeOK, ListFile, Whole
      <3>3. /\ index' \in Index /\ trusted' \subseteq Contact /\ saved' \subseteq Chunk
            /\ self' \in 0..MaxSeeds /\ ids' \subseteq 1..MaxSeeds
        BY <2>1, <2>4 DEF StorageInv, TypeOK, ListFile, Index
      <3> QED
        BY <2>1, <2>4, <3>1, <3>2, <3>3 DEF StorageInv, TypeOK
    <2>6. HandlerInv'
      BY <1>1, <2>1, <2>2, <2>4
         DEF StorageInv, TypeOK, HandlerInv, SeedWrite, IndexWrite, TrustWrite,
             SaveSeed, ListedChunkWrite, NewChunkWrite
    <2>7. IdentityInv'
      BY <1>1, <2>1, <2>2, <2>4 DEF StorageInv, IdentityInv, StableIdentity, Torn, Whole
    <2>8. IndexSound'
      <3>1. \A d \in index.chunks \cup indexFile.val.chunks :
               chunkFile[d] = "whole" \/ d \in clobbered
        BY <2>2 DEF StorageInv, IndexSound, WriteChunk, SaveSeed
      <3>2. /\ index.chunks \cup indexFile.val.chunks \subseteq Chunk
            /\ chunkFile \in [Chunk -> {"absent", "torn", "whole"}]
        BY DEF StorageInv, TypeOK, Index, ListFile
      <3>3. index'.chunks \cup indexFile'.val.chunks \subseteq
               index.chunks \cup indexFile.val.chunks
        BY <2>1, <2>4 DEF Whole
      <3> QED
        BY <2>1, <2>4, <3>1, <3>2, <3>3 DEF IndexSound
    <2>9. SavedInv'
      BY <1>1, <2>1, <2>2, <2>3, <2>4
         DEF StorageInv, TypeOK, SavedInv, Writing, Step, Torn, Whole, NoFiles
    <2>10. SeedingInv'
      BY <1>1, <2>4 DEF StorageInv, SeedingInv, NoSeeding
    <2> QED
      BY <2>5, <2>6, <2>7, <2>8, <2>9, <2>10 DEF StorageInv
  <1>2. CASE proc = "up" /\ IndexWrite
    <2>1. PICK x \in Index : /\ todo = <<SaveIndex(x)>>
                             /\ index.chunks \subseteq x.chunks
                             /\ \A c \in x.chunks : \/ c \in index.chunks
                                                    \/ chunkFile[c] = "whole"
                             /\ filling => index = x
      BY <1>2 DEF IndexWrite
    <2>2. Step = SaveIndex(x) /\ todo # <<>> /\ Tail(todo) = <<>>
      BY <2>1, OneWrite
    <2>3. Step.to = "index" /\ Step.val = x
      BY <2>2 DEF SaveIndex
    <2>4. /\ filling
          /\ filling' = FALSE
          /\ todo' = <<>>
          /\ indexFile' = Whole(x)
          /\ saved' = saved \cup x.chunks
          /\ UNCHANGED <<identity, trustFile, chunkFile, index,
                          trusted, approved, self, proc, seeding,
                          seeds, faults, ids, cut, clobbered>>
      BY <1>2, <2>1, <2>2, <2>3 DEF EndWrite, Loads, memory
    <2>5. TypeOK'
      <3>1. \A j \in DOMAIN todo' : IsWrite(todo'[j])
        BY <2>1, <2>4 DEF IsWrite, SaveIndex
      <3>2. indexFile' \in ListFile(Index)
        BY <2>1, <2>4 DEF StorageInv, TypeOK, ListFile, Whole
      <3>3. index' \in Index /\ trusted' \subseteq Contact /\ saved' \subseteq Chunk
        BY <2>1, <2>4 DEF StorageInv, TypeOK, ListFile, Index
      <3> QED
        BY <2>1, <2>4, <3>1, <3>2, <3>3 DEF StorageInv, TypeOK
    <2>6. HandlerInv'
      BY <1>2, <2>1, <2>2, <2>4
         DEF StorageInv, TypeOK, HandlerInv, SeedWrite, IndexWrite, TrustWrite,
             SaveIndex, ListedChunkWrite, NewChunkWrite
    <2>7. IdentityInv'
      BY <1>2, <2>1, <2>2, <2>4 DEF StorageInv, IdentityInv, StableIdentity, Torn, Whole
    <2>8. IndexSound'
      <3>1. \A d \in index.chunks \cup indexFile.val.chunks :
               chunkFile[d] = "whole" \/ d \in clobbered
        BY <2>2 DEF StorageInv, IndexSound, WriteChunk, SaveIndex
      <3>2. /\ index.chunks \cup indexFile.val.chunks \subseteq Chunk
            /\ chunkFile \in [Chunk -> {"absent", "torn", "whole"}]
        BY DEF StorageInv, TypeOK, Index, ListFile
      <3>3. index'.chunks \cup indexFile'.val.chunks \subseteq
               index.chunks \cup indexFile.val.chunks
        BY <2>1, <2>4 DEF Whole
      <3> QED
        BY <2>1, <2>4, <3>1, <3>2, <3>3 DEF IndexSound
    <2>9. SavedInv'
      BY <1>2, <2>1, <2>2, <2>3, <2>4
         DEF StorageInv, TypeOK, SavedInv, Writing, Step, Torn, Whole, NoFiles
    <2>10. SeedingInv'
      <3>1. \A d \in Chunk : FileOf[d] \in seeding.of =>
               \/ d \in seeding.left \cup seeding.refused
               \/ (chunkFile[d] = "whole" /\ d \in x.chunks)
        BY <2>1, <2>2, <2>3, <2>4
           DEF StorageInv, SeedingInv, Saves, WriteChunk, SaveIndex
      <3>2. index = x
        BY <2>1, <2>3, <2>4 DEF StorageInv, SeedingInv
      <3> QED
        BY <1>2, <2>1, <2>4, <3>1, <3>2 DEF StorageInv, TypeOK, SeedingInv, Whole
    <2> QED
      BY <2>5, <2>6, <2>7, <2>8, <2>9, <2>10 DEF StorageInv
  <1>3. CASE proc = "up" /\ TrustWrite
    <2>1. PICK ps \in SUBSET Contact : /\ todo = <<SaveTrust(ps)>>
                                       /\ filling => trusted = ps
      BY <1>3 DEF TrustWrite
    <2>2. Step = SaveTrust(ps) /\ todo # <<>> /\ Tail(todo) = <<>>
      BY <2>1, OneWrite
    <2>3. Step.to = "trust" /\ Step.val = ps
      BY <2>2 DEF SaveTrust
    <2>4. /\ filling
          /\ filling' = FALSE
          /\ todo' = <<>>
          /\ trustFile' = Whole(ps)
          /\ approved' = ps
          /\ UNCHANGED <<identity, indexFile, chunkFile, index,
                          trusted, self, proc, seeding, seeds,
                          faults, ids, saved, cut, clobbered>>
      BY <1>3, <2>1, <2>2, <2>3 DEF EndWrite, Loads, memory
    <2>5. TypeOK'
      <3>1. \A j \in DOMAIN todo' : IsWrite(todo'[j])
        BY <2>1, <2>4 DEF IsWrite, SaveIndex
      <3>2. trustFile' \in ListFile(SUBSET Contact)
        BY <2>1, <2>4 DEF StorageInv, TypeOK, ListFile, Whole
      <3>3. index' \in Index /\ trusted' \subseteq Contact /\ saved' \subseteq Chunk
        BY <2>1, <2>4 DEF StorageInv, TypeOK, ListFile, Index
      <3> QED
        BY <2>1, <2>4, <3>1, <3>2, <3>3 DEF StorageInv, TypeOK
    <2>6. HandlerInv'
      BY <1>3, <2>1, <2>2, <2>4
         DEF StorageInv, TypeOK, HandlerInv, SeedWrite, IndexWrite, TrustWrite,
             SaveTrust, ListedChunkWrite, NewChunkWrite
    <2>7. IdentityInv'
      BY <1>3, <2>1, <2>2, <2>4 DEF StorageInv, IdentityInv, StableIdentity, Torn, Whole
    <2>8. IndexSound'
      <3>1. \A d \in index.chunks \cup indexFile.val.chunks :
               chunkFile[d] = "whole" \/ d \in clobbered
        BY <2>2 DEF StorageInv, IndexSound, WriteChunk, SaveTrust
      <3>2. /\ index.chunks \cup indexFile.val.chunks \subseteq Chunk
            /\ chunkFile \in [Chunk -> {"absent", "torn", "whole"}]
        BY DEF StorageInv, TypeOK, Index, ListFile
      <3>3. index'.chunks \cup indexFile'.val.chunks \subseteq
               index.chunks \cup indexFile.val.chunks
        BY <2>1, <2>4 DEF Whole
      <3> QED
        BY <2>1, <2>4, <3>1, <3>2, <3>3 DEF IndexSound
    <2>9. SavedInv'
      BY <1>3, <2>1, <2>2, <2>3, <2>4
         DEF StorageInv, TypeOK, SavedInv, Writing, Step, Torn, Whole, NoFiles
    <2>10. SeedingInv'
      <3>1. \A d \in Chunk : FileOf[d] \in seeding.of =>
               \/ d \in seeding.left \cup seeding.refused
               \/ (chunkFile[d] = "whole" /\ d \in index.chunks)
        BY <2>1, <2>2, <2>3, <2>4
           DEF StorageInv, SeedingInv, Saves, WriteChunk, SaveTrust
      <3>2. seeding # NoSeeding => index.chunks \subseteq indexFile.val.chunks
        BY <2>1, <2>3, <2>4 DEF StorageInv, SeedingInv
      <3> QED
        BY <1>3, <2>1, <2>4, <3>1, <3>2 DEF StorageInv, TypeOK, SeedingInv, Whole
    <2> QED
      BY <2>5, <2>6, <2>7, <2>8, <2>9, <2>10 DEF StorageInv
  <1>4. CASE proc = "up" /\ ListedChunkWrite
    <2>1. PICK c \in Chunk : todo = <<WriteChunk(c)>> /\ c \in index.chunks
      BY <1>4 DEF ListedChunkWrite
    <2>2. Step = WriteChunk(c) /\ todo # <<>> /\ Tail(todo) = <<>>
      BY <2>1, OneWrite
    <2>3. Step.to = "chunk" /\ Step.val = c
      BY <2>2 DEF WriteChunk
    <2>4. /\ filling
          /\ filling' = FALSE
          /\ todo' = <<>>
          /\ chunkFile' = [chunkFile EXCEPT ![c] = "whole"]
          /\ clobbered' = clobbered \ {c}
          /\ UNCHANGED <<identity, indexFile, trustFile, index,
                          trusted, approved, self, proc, seeding,
                          seeds, faults, ids, saved, cut>>
      BY <1>4, <2>1, <2>2, <2>3 DEF EndWrite, Loads, memory
    <2>5. TypeOK'
      <3>1. \A j \in DOMAIN todo' : IsWrite(todo'[j])
        BY <2>1, <2>4 DEF IsWrite, SaveIndex
      <3>2. chunkFile' \in [Chunk -> {"absent", "torn", "whole"}]
        BY <2>1, <2>4 DEF StorageInv, TypeOK, ListFile, Whole
      <3>3. index' \in Index /\ trusted' \subseteq Contact /\ saved' \subseteq Chunk
        BY <2>1, <2>4 DEF StorageInv, TypeOK, ListFile, Index
      <3> QED
        BY <2>1, <2>4, <3>1, <3>2, <3>3 DEF StorageInv, TypeOK
    <2>6. HandlerInv'
      BY <1>4, <2>1, <2>2, <2>4
         DEF StorageInv, TypeOK, HandlerInv, SeedWrite, IndexWrite, TrustWrite,
             WriteChunk, ListedChunkWrite, NewChunkWrite
    <2>7. IdentityInv'
      BY <1>4, <2>1, <2>2, <2>4 DEF StorageInv, IdentityInv, StableIdentity, Torn, Whole
    <2>8. IndexSound'
      <3>1. \A d \in index.chunks \cup indexFile.val.chunks :
               chunkFile[d] = "whole" \/ d \in clobbered \/ d = c
        BY <2>2 DEF StorageInv, IndexSound, WriteChunk
      <3>2. /\ index.chunks \cup indexFile.val.chunks \subseteq Chunk
            /\ chunkFile \in [Chunk -> {"absent", "torn", "whole"}]
        BY DEF StorageInv, TypeOK, Index, ListFile
      <3>3. index'.chunks \cup indexFile'.val.chunks \subseteq
               index.chunks \cup indexFile.val.chunks
        BY <2>1, <2>4 DEF Whole
      <3> QED
        BY <2>1, <2>4, <3>1, <3>2, <3>3 DEF IndexSound
    <2>9. SavedInv'
      BY <1>4, <2>1, <2>2, <2>3, <2>4
         DEF StorageInv, TypeOK, SavedInv, Writing, Step, Torn, Whole, NoFiles
    <2>10. SeedingInv'
      <3>1. \A d \in Chunk : FileOf[d] \in seeding.of =>
               \/ d \in seeding.left \cup seeding.refused
               \/ (d = c \/ (chunkFile[d] = "whole" /\ d \in index.chunks))
        BY <2>1, <2>2, <2>3, <2>4
           DEF StorageInv, SeedingInv, Saves, WriteChunk
      <3>2. seeding # NoSeeding => index.chunks \subseteq indexFile.val.chunks
        BY <2>1, <2>3, <2>4 DEF StorageInv, SeedingInv
      <3> QED
        BY <1>4, <2>1, <2>4, <3>1, <3>2 DEF StorageInv, TypeOK, SeedingInv, Whole
    <2> QED
      BY <2>5, <2>6, <2>7, <2>8, <2>9, <2>10 DEF StorageInv
  <1>5. CASE proc = "up" /\ NewChunkWrite
    <2>1. PICK c \in Chunk, x \in Index : /\ todo = <<WriteChunk(c), SaveIndex(x)>>
                                          /\ x.chunks = index.chunks \cup {c}
      BY <1>5 DEF NewChunkWrite
    <2>2. Step = WriteChunk(c) /\ todo # <<>> /\ Tail(todo) = <<SaveIndex(x)>>
      BY <2>1, TwoWrites
    <2>3. Step.to = "chunk" /\ Step.val = c
      BY <2>2 DEF WriteChunk
    <2>4. /\ filling
          /\ filling' = FALSE
          /\ todo' = <<SaveIndex(x)>>
          /\ chunkFile' = [chunkFile EXCEPT ![c] = "whole"]
          /\ clobbered' = clobbered \ {c}
          /\ UNCHANGED <<identity, indexFile, trustFile, index,
                          trusted, approved, self, proc, seeding,
                          seeds, faults, ids, saved, cut>>
      BY <1>5, <2>1, <2>2, <2>3 DEF EndWrite, Loads, memory
    <2>5. TypeOK'
      <3>1. \A j \in DOMAIN todo' : IsWrite(todo'[j])
        BY <2>1, <2>4 DEF IsWrite, SaveIndex
      <3>2. chunkFile' \in [Chunk -> {"absent", "torn", "whole"}]
        BY <2>1, <2>4 DEF StorageInv, TypeOK, ListFile, Whole
      <3>3. index' \in Index /\ trusted' \subseteq Contact /\ saved' \subseteq Chunk
        BY <2>1, <2>4 DEF StorageInv, TypeOK, ListFile, Index
      <3> QED
        BY <2>1, <2>4, <3>1, <3>2, <3>3 DEF StorageInv, TypeOK
    <2>6. HandlerInv'
      BY <1>5, <2>1, <2>2, <2>4
         DEF StorageInv, TypeOK, HandlerInv, SeedWrite, IndexWrite, TrustWrite,
             WriteChunk, ListedChunkWrite, NewChunkWrite
    <2>7. IdentityInv'
      BY <1>5, <2>1, <2>2, <2>4 DEF StorageInv, IdentityInv, StableIdentity, Torn, Whole
    <2>8. IndexSound'
      <3>1. \A d \in index.chunks \cup indexFile.val.chunks :
               chunkFile[d] = "whole" \/ d \in clobbered \/ d = c
        BY <2>2 DEF StorageInv, IndexSound, WriteChunk
      <3>2. /\ index.chunks \cup indexFile.val.chunks \subseteq Chunk
            /\ chunkFile \in [Chunk -> {"absent", "torn", "whole"}]
        BY DEF StorageInv, TypeOK, Index, ListFile
      <3>3. index'.chunks \cup indexFile'.val.chunks \subseteq
               index.chunks \cup indexFile.val.chunks
        BY <2>1, <2>4 DEF Whole
      <3> QED
        BY <2>1, <2>4, <3>1, <3>2, <3>3 DEF IndexSound
    <2>9. SavedInv'
      BY <1>5, <2>1, <2>2, <2>3, <2>4
         DEF StorageInv, TypeOK, SavedInv, Writing, Step, Torn, Whole, NoFiles
    <2>10. SeedingInv'
      BY <1>5, <2>1, <2>2, <2>3, <2>4
         DEF StorageInv, TypeOK, SeedingInv, Saves, Step, WriteChunk, SaveIndex, SaveTrust,
             SaveSeed, Torn, NoFiles, NoSeeding
    <2> QED
      BY <2>5, <2>6, <2>7, <2>8, <2>9, <2>10 DEF StorageInv
  <1> QED
    BY <1>1, <1>2, <1>3, <1>4, <1>5 DEF StorageInv, HandlerInv, EndWrite

(* The handler ends where a write failed or the process was killed. *)
LEMMA CutsShortFacts ==
    ASSUME StorageInv, CutsShort, UNCHANGED disk
    PROVE  /\ faults' \in 0..MaxFaults
           /\ cut' \subseteq {"index", "trust"} /\ clobbered' \subseteq Chunk
           /\ todo' = <<>> /\ seeding' = NoSeeding /\ ~filling' /\ filling' \in BOOLEAN
           /\ cut \subseteq cut'
           /\ Writing("index") => "index" \in cut'
           /\ Writing("trust") => "trust" \in cut'
           /\ \A c \in index.chunks \cup indexFile.val.chunks :
                chunkFile[c] = "whole" \/ c \in clobbered'
  <1> USE NodeStorageAssumption
  <1>1. faults' \in 0..MaxFaults
    BY DEF CutsShort, StorageInv, TypeOK
  <1>2. /\ cut' \subseteq {"index", "trust"} /\ cut \subseteq cut'
        /\ Writing("index") => "index" \in cut'
        /\ Writing("trust") => "trust" \in cut'
    BY DEF CutsShort, StorageInv, TypeOK, Writing
  <1>3. /\ index.chunks \subseteq Chunk /\ indexFile.val.chunks \subseteq Chunk
        /\ clobbered \subseteq Chunk
    BY DEF StorageInv, TypeOK, Index, ListFile
  <1>4. clobbered' \subseteq Chunk
    BY <1>3 DEF CutsShort
  <1>5. ASSUME NEW c \in index.chunks \cup indexFile.val.chunks
        PROVE  chunkFile[c] = "whole" \/ c \in clobbered'
    <2>1. CASE filling /\ Step = WriteChunk(c)
      BY <2>1 DEF CutsShort, WriteChunk
    <2>2. CASE ~(filling /\ Step = WriteChunk(c))
      BY <2>2 DEF CutsShort, StorageInv, IndexSound
    <2> QED
      BY <2>1, <2>2
  <1> QED
    BY <1>1, <1>2, <1>4, <1>5 DEF CutsShort

LEMMA CrashStorage ==
    ASSUME StorageInv, Crash
    PROVE  StorageInv'
  <1> USE NodeStorageAssumption
  <1>1. /\ proc' = "down" /\ self' = 0 /\ index' = NoFiles /\ trusted' = {}
        /\ UNCHANGED <<disk, seeds, ids, saved, approved>>
        /\ CutsShort
    BY DEF Crash
  <1>2. /\ faults' \in 0..MaxFaults
        /\ cut' \subseteq {"index", "trust"} /\ clobbered' \subseteq Chunk
        /\ todo' = <<>> /\ seeding' = NoSeeding /\ ~filling' /\ filling' \in BOOLEAN
        /\ cut \subseteq cut'
        /\ Writing("index") => "index" \in cut'
        /\ Writing("trust") => "trust" \in cut'
        /\ \A c \in index.chunks \cup indexFile.val.chunks :
             chunkFile[c] = "whole" \/ c \in clobbered'
    BY <1>1, CutsShortFacts
  <1>3. TypeOK'
    <2>1. /\ \A j \in DOMAIN todo' : IsWrite(todo'[j])
          /\ seeding' \in [of : SUBSET File, left : SUBSET Chunk, refused : SUBSET Chunk]
          /\ index' \in Index /\ self' \in 0..MaxSeeds
      BY <1>1, <1>2 DEF NoSeeding, NoFiles, Index
    <2> QED
      BY <1>1, <1>2, <2>1 DEF StorageInv, TypeOK, disk
  <1>4. HandlerInv' /\ SeedingInv'
    BY <1>1, <1>2 DEF HandlerInv, SeedingInv, NoSeeding
  <1>5. IdentityInv'
    BY <1>1 DEF StorageInv, IdentityInv, StableIdentity, disk
  <1>6. IndexSound'
    BY <1>1, <1>2 DEF IndexSound, disk, NoFiles
  <1>7. SavedInv'
    BY <1>1, <1>2 DEF StorageInv, SavedInv, disk
  <1> QED
    BY <1>3, <1>4, <1>5, <1>6, <1>7 DEF StorageInv

LEMMA WriteFailsStorage ==
    ASSUME StorageInv, WriteFails
    PROVE  StorageInv'
  <1> USE NodeStorageAssumption
  <1>1. /\ todo # <<>> /\ CutsShort /\ Remembers
        /\ proc' = IF proc = "starting" THEN "down" ELSE proc
        /\ UNCHANGED <<disk, seeds, ids, saved>>
    BY DEF WriteFails
  <1>2. /\ faults' \in 0..MaxFaults
        /\ cut' \subseteq {"index", "trust"} /\ clobbered' \subseteq Chunk
        /\ todo' = <<>> /\ seeding' = NoSeeding /\ ~filling' /\ filling' \in BOOLEAN
        /\ cut \subseteq cut'
        /\ Writing("index") => "index" \in cut'
        /\ Writing("trust") => "trust" \in cut'
        /\ \A c \in index.chunks \cup indexFile.val.chunks :
             chunkFile[c] = "whole" \/ c \in clobbered'
    BY <1>1, CutsShortFacts
  <1>3. /\ index' \in Index /\ index.chunks \subseteq index'.chunks
        /\ \A c \in index'.chunks : c \in index.chunks \/ chunkFile[c] = "whole"
        /\ trusted' \subseteq Contact /\ approved' \subseteq approved
        /\ approved \subseteq trusted => approved' \subseteq trusted'
    <2>1. index \in Index /\ trusted \subseteq Contact
      BY DEF StorageInv, TypeOK
    <2>2. CASE IndexWrite
      <3>1. PICK x \in Index : /\ todo = <<SaveIndex(x)>>
                               /\ index.chunks \subseteq x.chunks
                               /\ \A c \in x.chunks : \/ c \in index.chunks
                                                      \/ chunkFile[c] = "whole"
        BY <2>2 DEF IndexWrite
      <3>2. Step = SaveIndex(x)
        BY <3>1, OneWrite
      <3>3. index' = x /\ UNCHANGED <<trusted, approved>>
        BY <1>1, <3>2 DEF Remembers, SaveIndex
      <3> QED
        BY <2>1, <3>1, <3>3
    <2>3. CASE TrustWrite
      <3>1. PICK ps \in SUBSET Contact : todo = <<SaveTrust(ps)>>
        BY <2>3 DEF TrustWrite
      <3>2. Step = SaveTrust(ps)
        BY <3>1, OneWrite
      <3>3. index' = index /\ trusted' = ps /\ approved' = approved \cap ps
        BY <1>1, <3>2 DEF Remembers, SaveTrust
      <3> QED
        BY <2>1, <3>3
    <2>4. CASE SeedWrite \/ ListedChunkWrite \/ NewChunkWrite
      <3>1. Step.to \in {"identity", "chunk"}
        BY <2>4, OneWrite, TwoWrites
           DEF SeedWrite, ListedChunkWrite, NewChunkWrite, SaveSeed, WriteChunk
      <3>2. UNCHANGED <<index, trusted, approved>>
        BY <1>1, <3>1 DEF Remembers
      <3> QED
        BY <2>1, <3>2
    <2> QED
      BY <1>1, <2>2, <2>3, <2>4 DEF StorageInv, HandlerInv
  <1>4. TypeOK'
    <2>1. /\ \A j \in DOMAIN todo' : IsWrite(todo'[j])
          /\ seeding' \in [of : SUBSET File, left : SUBSET Chunk, refused : SUBSET Chunk]
      BY <1>2 DEF NoSeeding
    <2> QED
      BY <1>1, <1>2, <1>3, <2>1 DEF StorageInv, TypeOK, disk, Remembers
  <1>5. HandlerInv' /\ SeedingInv'
    BY <1>1, <1>2 DEF StorageInv, TypeOK, HandlerInv, SeedingInv, NoSeeding
  <1>6. IdentityInv'
    BY <1>1 DEF StorageInv, IdentityInv, StableIdentity, disk
  <1>7. IndexSound'
    BY <1>1, <1>2, <1>3 DEF IndexSound, disk
  <1>8. SavedInv'
    BY <1>1, <1>2, <1>3 DEF StorageInv, SavedInv, disk
  <1> QED
    BY <1>4, <1>5, <1>6, <1>7, <1>8 DEF StorageInv

-----------------------------------------------------------------------------

LEMMA StutterStorage ==
    ASSUME StorageInv, UNCHANGED vars
    PROVE  StorageInv'
  <1> USE DEF vars, disk, memory, history
  <1>1. TypeOK'
    BY DEF StorageInv, TypeOK, IsWrite
  <1>2. HandlerInv'
    BY DEF StorageInv, HandlerInv, SeedWrite, IndexWrite, TrustWrite, ListedChunkWrite,
           NewChunkWrite
  <1>3. IdentityInv' /\ IndexSound'
    BY DEF StorageInv, IdentityInv, StableIdentity, IndexSound, Step
  <1>4. SavedInv' /\ SeedingInv'
    BY DEF StorageInv, SavedInv, SeedingInv, Writing, Saves, Step
  <1> QED
    BY <1>1, <1>2, <1>3, <1>4 DEF StorageInv

LEMMA NextStorage == StorageInv /\ [Next]_vars => StorageInv'
  <1> SUFFICES ASSUME StorageInv, [Next]_vars PROVE StorageInv'
    OBVIOUS
  <1>1. ASSUME NEW f \in File, registerManifest(f) PROVE StorageInv'
    BY <1>1, RegisterStorage DEF registerManifest, Handles
  <1>2. ASSUME NEW f \in File, seed(f) PROVE StorageInv'
    BY <1>2, RegisterStorage DEF seed
  <1>3. ASSUME NEW c \in Chunk, putChunk(c) PROVE StorageInv'
    BY <1>3, PutStorage DEF putChunk, Handles
  <1>4. ASSUME NEW c \in Chunk, seedPuts(c) PROVE StorageInv'
    BY <1>4, PutStorage, RefusalStorage DEF seedPuts
  <1>5. ASSUME NEW p \in Contact, trust(p) \/ untrust(p) PROVE StorageInv'
    <2>1. trusted \cup {p} \in SUBSET Contact /\ trusted \ {p} \in SUBSET Contact
      BY DEF StorageInv, TypeOK
    <2> QED
      BY <1>5, <2>1, TrustStorage DEF trust, untrust
  <1> QED
    BY <1>1, <1>2, <1>3, <1>4, <1>5, InitKeysStorage, AnnouncesStorage, BeginWriteStorage,
       EndWriteStorage, WriteFailsStorage, CrashStorage, StutterStorage DEF Next

-----------------------------------------------------------------------------
(* The inductive invariant holds in every reachable state. *)
THEOREM StorageInvariant == Spec => []StorageInv
  <1> QED
    BY InitStorage, NextStorage, PTL DEF Spec

(* Disk, memory and the writes under way keep their types; in particular a   *)
(* node never runs under a seed that was not generated (keys.js 13-29).      *)
THEOREM StorageTypes == Spec => []TypeOK
  <1>1. StorageInv => TypeOK
    BY DEF StorageInv
  <1> QED
    BY <1>1, StorageInvariant, PTL

(* A node that once ran keeps its identity over all restarts, wherever it    *)
(* was killed.                                                               *)
THEOREM IdentityStable == Spec => []StableIdentity
  <1>1. StorageInv => StableIdentity
    BY DEF StorageInv, IdentityInv
  <1> QED
    BY <1>1, StorageInvariant, PTL

(* A chunk that the index lists, in memory or on disk, is whole in its file, *)
(* but for those that were cut short while written again.                    *)
THEOREM IndexIsSound == Spec => []IndexSound
  <1>1. StorageInv => IndexSound
    BY DEF StorageInv
  <1> QED
    BY <1>1, StorageInvariant, PTL

(* What was saved to its end is not lost unless a write of that list was cut *)
(* short.                                                                    *)
THEOREM SavedIsKept == Spec => []SavedKept
  <1>1. StorageInv => SavedKept
    BY DEF StorageInv, SavedInv, SavedKept
  <1> QED
    BY <1>1, StorageInvariant, PTL

(* When seed() announces a file, all of its chunks are whole, listed and     *)
(* saved, whatever earlier processes left of them, but those whose data no   *)
(* longer has the hash of the manifest.                                      *)
THEOREM SeedingRepairs == Spec => []SeedRepairs
  <1>1. ASSUME StorageInv PROVE SeedRepairs
    <2> SUFFICES ASSUME Shared, NEW c \in Chunk, FileOf[c] \in seeding.of,
                        c \notin seeding.refused
                 PROVE  /\ chunkFile[c] = "whole"
                        /\ c \in index.chunks \cap indexFile.val.chunks
      BY DEF SeedRepairs
    <2> QED
      BY <1>1 DEF StorageInv, SeedingInv, Shared, Saves
  <1> QED
    BY <1>1, StorageInvariant, PTL
=============================================================================
