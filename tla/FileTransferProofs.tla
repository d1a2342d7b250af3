------------------------- MODULE FileTransferProofs -------------------------
(***************************************************************************)
(* The swarm transfer for any number of nodes, chunks, sessions, downloads *)
(* and failures, and any number of parallel requests.                      *)
(***************************************************************************)
EXTENDS FileTransfer, FunctionTheorems, FiniteSetTheorems, SequenceTheorems,
        WellFoundedInduction, TLAPS

-----------------------------------------------------------------------------
(* Numbers and finite sets *)

(* A set of numbers that is not empty has a least one. *)
LEMMA LeastNumber ==
    ASSUME NEW T \in SUBSET Nat, T # {}
    PROVE  \E x \in T : \A y \in T : x <= y
  <1> DEFINE F == {0..t : t \in T}
  <1>1. IsWellFoundedOn(StrictSubsetOrdering(Nat), FiniteSubsetsOf(Nat))
    BY FS_StrictSubsetOrderingWellFounded
  <1>2. F \subseteq FiniteSubsetsOf(Nat)
    <2>1. ASSUME NEW t \in T PROVE 0..t \in FiniteSubsetsOf(Nat)
      <3>1. IsFiniteSet(0..t) /\ 0..t \subseteq Nat
        BY FS_Interval
      <3> QED
        BY <3>1 DEF FiniteSubsetsOf
    <2> QED
      BY <2>1
  <1>3. PICK X \in F : \A Y \in F : <<Y, X>> \notin StrictSubsetOrdering(Nat)
    <2>1. F # {}
      OBVIOUS
    <2> HIDE DEF F
    <2> QED
      BY <1>1, <1>2, <2>1, WFMin
  <1>4. PICK x \in T : X = 0..x
    OBVIOUS
  <1>5. ASSUME NEW y \in T, y < x
        PROVE  FALSE
    <2>1. 0..y \in F /\ 0..y \subseteq 0..x /\ 0..y # 0..x
      BY <1>5
    <2>2. <<0..y, X>> \in StrictSubsetOrdering(Nat)
      BY <1>4, <2>1 DEF StrictSubsetOrdering
    <2> QED
      BY <1>3, <2>1, <2>2
  <1> QED
    BY <1>5

(* A function to the numbers up to N takes a greatest value on a set that is *)
(* not empty.                                                                *)
LEMMA GreatestRank ==
    ASSUME NEW S, S # {}, NEW N \in Nat, NEW r, \A c \in S : r[c] \in 1..N
    PROVE  \E c \in S : \A b \in S : r[b] <= r[c]
  <1> DEFINE T == {N - r[c] : c \in S}
  <1>1. T \in SUBSET Nat /\ T # {}
    OBVIOUS
  <1>2. PICK x \in T : \A y \in T : x <= y
    BY <1>1, LeastNumber
  <1>3. PICK c \in S : x = N - r[c]
    OBVIOUS
  <1>4. ASSUME NEW b \in S PROVE r[b] <= r[c]
    <2>1. N - r[c] <= N - r[b]
      BY <1>2, <1>3
    <2> QED
      BY <2>1
  <1> QED
    BY <1>4

(* ByRank(S, rank) lists the elements of S. *)
LEMMA ByRankFacts ==
    ASSUME NEW S, IsFiniteSet(S), NEW r, \A c \in S : r[c] \in Nat,
           \A b, c \in S : b # c => r[b] # r[c]
    PROVE  ByRank(S, r) \in Seq(S)
  <1> DEFINE upTo(c) == {b \in S : r[b] <= r[c]}
             g == [c \in S |-> Cardinality(upTo(c))]
             N == Cardinality(S)
  <1>1. N \in Nat /\ IsFiniteSet(1..N) /\ Cardinality(1..N) = N
    BY FS_CardinalityType, FS_Interval
  <1>2. ASSUME NEW c \in S PROVE Cardinality(upTo(c)) \in 1..N
    <2>1. upTo(c) \in SUBSET S /\ c \in upTo(c)
      OBVIOUS
    <2>2. IsFiniteSet(upTo(c)) /\ Cardinality(upTo(c)) <= N
      BY <2>1, FS_Subset
    <2>3. Cardinality(upTo(c)) \in Nat /\ Cardinality(upTo(c)) # 0
      BY <2>1, <2>2, FS_CardinalityType, FS_EmptySet
    <2> QED
      BY <1>1, <2>2, <2>3
  <1>3. ASSUME NEW b \in S, NEW c \in S, r[b] < r[c]
        PROVE  Cardinality(upTo(b)) # Cardinality(upTo(c))
    <2>1. upTo(c) \in SUBSET S /\ upTo(b) \in SUBSET upTo(c)
      BY <1>3
    <2>2. c \in upTo(c) /\ c \notin upTo(b)
      BY <1>3
    <2>3. IsFiniteSet(upTo(c))
      BY <2>1, FS_Subset
    <2> HIDE DEF upTo
    <2> QED
      BY <2>1, <2>2, <2>3, FS_Subset
  <1>4. g \in Injection(S, 1..N)
    <2>1. g \in [S -> 1..N]
      BY <1>2
    <2>2. ASSUME NEW b \in S, NEW c \in S, g[b] = g[c] PROVE b = c
      <3>1. Cardinality(upTo(b)) = Cardinality(upTo(c))
        BY <2>2
      <3>2. ~(r[b] < r[c]) /\ ~(r[c] < r[b])
        BY <1>3, <3>1
      <3> QED
        BY <3>2
    <2> HIDE DEF g
    <2> QED
      BY <2>1, <2>2, Fun_IsInj
  <1>5. \A i \in 1..N : \E c \in S : g[c] = i
    <2>1. g \in Surjection(S, 1..N)
      BY <1>1, <1>4, FS_Injection
    <2> HIDE DEF g, N
    <2> QED
      BY <2>1, Fun_SurjectionProperties
  <1>6. ASSUME NEW i \in 1..N PROVE ByRank(S, r)[i] \in S
    <2>1. ByRank(S, r)[i] = CHOOSE c \in S : Cardinality(upTo(c)) = i
      BY <1>6 DEF ByRank
    <2>2. \E c \in S : Cardinality(upTo(c)) = i
      BY <1>5
    <2> HIDE DEF upTo
    <2> QED
      BY <2>1, <2>2
  <1>7. ByRank(S, r) = [i \in 1..N |-> CHOOSE c \in S : Cardinality(upTo(c)) = i]
    BY DEF ByRank
  <1> HIDE DEF N, upTo
  <1>8. ByRank(S, r) \in [1..N -> S]
    BY <1>6, <1>7
  <1> QED
    BY <1>1, <1>8

-----------------------------------------------------------------------------
(* One scheduling pass *)

Flight == [Chunk -> Node \cup {NoPeer}]

(* What InFlightSound says of a request table fl, in the state after a step. *)
SoundFlight(n, fl) ==
    /\ Cardinality(Busy(fl)) <= Parallel
    /\ \A c \in Busy(fl) : c \in need'[n] /\ fl[c] \in PeersForChunk(n, c)

(* What NeverIdle says of it. *)
FullFlight(n, fl) ==
    Cardinality(Busy(fl)) < Parallel =>
        \A c \in need'[n] \ Busy(fl) : PeersForChunk(n, c) = {}

LEMMA LeastLoadedFacts ==
    ASSUME NEW n \in Node, sessions'[n] \in Seq(Node),
           NEW peers, peers # {}, peers \subseteq Attached(n)',
           NEW load, \A q \in peers : load[q] \in Nat
    PROVE  LeastLoaded(n, peers, load) \in peers
  <1> DEFINE s == sessions'[n]
             T == {load[q] : q \in peers}
             best == {i \in DOMAIN s : /\ s[i] \in peers
                                       /\ \A q \in peers : load[s[i]] <= load[q]}
  <1>1. PICK q \in peers : \A p \in peers : load[q] <= load[p]
    <2>1. T \in SUBSET Nat /\ T # {}
      OBVIOUS
    <2>2. PICK x \in T : \A y \in T : x <= y
      BY <2>1, LeastNumber
    <2> QED
      BY <2>2
  <1>2. PICK i \in DOMAIN s : s[i] = q
    BY <1>1 DEF Attached
  <1>3. best \in SUBSET Nat /\ best # {}
    <2>1. DOMAIN s = 1..Len(s) /\ Len(s) \in Nat
      BY LenProperties
    <2> QED
      BY <1>1, <1>2, <2>1
  <1>4. \E j \in best : \A k \in best : j <= k
    <2> HIDE DEF best
    <2> QED
      BY <1>3, LeastNumber
  <1>5. LeastLoaded(n, peers, load) = s[CHOOSE j \in best : \A k \in best : j <= k]
    BY DEF LeastLoaded
  <1>6. \A j \in best : s[j] \in peers
    OBVIOUS
  <1> HIDE DEF best, s
  <1> QED
    BY <1>4, <1>5, <1>6

LEMMA FiniteParts ==
    ASSUME NEW S \in SUBSET Chunk
    PROVE  IsFiniteSet(S) /\ Cardinality(S) \in Nat
  BY FileTransferAssumption, FS_Subset, FS_CardinalityType

LEMMA ParallelIsNumber == Parallel \in Nat
  BY FileTransferAssumption

(* The candidates are needed, not in flight, and announced by somebody; their *)
(* ranks are distinct numbers.                                                *)
LEMMA RankFacts ==
    ASSUME NEW n \in Node, need'[n] \in SUBSET Chunk,
           NEW fl \in Flight, NEW rank \in RarestFirst(n, fl)
    PROVE  /\ DOMAIN rank = Candidates(n, fl)
           /\ DOMAIN rank \in SUBSET Chunk
           /\ \A c \in DOMAIN rank : c \in need'[n] /\ fl[c] = NoPeer
           /\ \A c \in DOMAIN rank : rank[c] \in 1..Cardinality(Chunk)
           /\ \A b, c \in DOMAIN rank : b # c => rank[b] # rank[c]
  <1>1. /\ rank \in [Candidates(n, fl) -> 1..Cardinality(Candidates(n, fl))]
        /\ \A b, c \in Candidates(n, fl) : b # c => rank[b] # rank[c]
    BY DEF RarestFirst
  <1>2. /\ Candidates(n, fl) \in SUBSET Chunk
        /\ \A c \in Candidates(n, fl) : c \in need'[n] /\ fl[c] = NoPeer
    BY DEF Candidates, Busy
  <1>3. /\ Cardinality(Candidates(n, fl)) \in Nat
        /\ Cardinality(Chunk) \in Nat
        /\ Cardinality(Candidates(n, fl)) <= Cardinality(Chunk)
    BY <1>2, FiniteParts, FileTransferAssumption, FS_Subset
  <1> QED
    BY <1>1, <1>2, <1>3

(* The loop over the candidates asks each chunk of a peer that can serve it, *)
(* keeps to Parallel requests, and leaves a chunk out only when nobody can   *)
(* serve it or Parallel requests are under way.                              *)
LEMMA AssignsFacts ==
    ASSUME NEW n \in Node, sessions'[n] \in Seq(Node),
           have'[n] \in [Node -> SUBSET Chunk], need'[n] \in SUBSET Chunk,
           NEW fl \in Flight, NEW fl2 \in Flight, NEW rank \in RarestFirst(n, fl),
           SoundFlight(n, fl), Assigns(n, fl, rank, fl2)
    PROVE  /\ SoundFlight(n, fl2)
           /\ FullFlight(n, fl2)
           /\ \A c \in DOMAIN rank : fl2[c] # NoPeer => fl2[c] \in PeersForChunk(n, c)
  <1> DEFINE C == DOMAIN rank
             B == Busy(fl)
             New == {c \in C : fl2[c] # NoPeer}
             before(c) == {b \in C : rank[b] < rank[c] /\ fl2[b] # NoPeer}
             load(c) == [q \in Node |-> Cardinality({b \in B : fl[b] = q})
                                        + Cardinality({b \in before(c) : fl2[b] = q})]
  <1>1. /\ C \in SUBSET Chunk
        /\ \A c \in C : c \in need'[n] /\ fl[c] = NoPeer
        /\ \A c \in C : rank[c] \in 1..Cardinality(Chunk)
        /\ \A b, c \in C : b # c => rank[b] # rank[c]
    BY RankFacts
  <1>2. /\ B \in SUBSET Chunk /\ New \in SUBSET Chunk
        /\ \A c \in C : before(c) \in SUBSET Chunk
    BY <1>1 DEF Busy
  <1>3. /\ Cardinality(B) \in Nat /\ Cardinality(New) \in Nat
        /\ IsFiniteSet(B) /\ IsFiniteSet(New)
    BY <1>2, FiniteParts
  <1>4. \A c \in C : Cardinality(before(c)) \in Nat /\ IsFiniteSet(before(c))
    BY <1>2, FiniteParts
  <1>5. ASSUME NEW c \in C
        PROVE  \/ /\ fl2[c] = NoPeer
                  /\ \/ Cardinality(B) + Cardinality(before(c)) >= Parallel
                     \/ PeersForChunk(n, c) = {}
               \/ /\ fl2[c] \in PeersForChunk(n, c)
                  /\ Cardinality(B) + Cardinality(before(c)) < Parallel
    <2>1. c \in Chunk
      BY <1>1, <1>5
    <2>2. fl2[c] = IF Cardinality(B) + Cardinality(before(c)) >= Parallel
                      \/ PeersForChunk(n, c) = {}
                   THEN NoPeer ELSE LeastLoaded(n, PeersForChunk(n, c), load(c))
      BY <1>5, <2>1 DEF Assigns
    <2>3. \A q \in Node : load(c)[q] \in Nat
      <3>1. ASSUME NEW q \in Node
            PROVE  /\ Cardinality({b \in B : fl[b] = q}) \in Nat
                   /\ Cardinality({b \in before(c) : fl2[b] = q}) \in Nat
        <4>1. /\ {b \in B : fl[b] = q} \in SUBSET Chunk
              /\ {b \in before(c) : fl2[b] = q} \in SUBSET Chunk
          BY <1>2, <1>5
        <4> QED
          BY <4>1, FiniteParts
      <3> HIDE DEF B, before
      <3> QED
        BY <3>1
    <2>4. PeersForChunk(n, c) \subseteq Attached(n)' /\ PeersForChunk(n, c) \subseteq Node
      BY DEF PeersForChunk
    <2>5. PeersForChunk(n, c) # {} =>
             LeastLoaded(n, PeersForChunk(n, c), load(c)) \in PeersForChunk(n, c)
      <3> HIDE DEF load
      <3> QED
        BY <2>3, <2>4, LeastLoadedFacts
    <2>6. Cardinality(B) + Cardinality(before(c)) \in Nat /\ Parallel \in Nat
      <3>1. Cardinality(B) \in Nat /\ Cardinality(before(c)) \in Nat
        BY <1>3, <1>4
      <3> HIDE DEF B, before
      <3> QED
        BY <3>1, ParallelIsNumber
    <2> HIDE DEF before, load, B
    <2> QED
      BY <2>2, <2>5, <2>6
  <1>6. \A c \in Chunk \ C : fl2[c] = fl[c]
    BY DEF Assigns
  <1>7. Busy(fl2) = B \cup New /\ B \cap New = {}
    BY <1>1, <1>6 DEF Busy
  <1>8. Cardinality(Busy(fl2)) = Cardinality(B) + Cardinality(New)
    <2>1. Cardinality(B \cap New) = 0
      BY <1>7, FS_EmptySet
    <2> HIDE DEF B, New
    <2>2. Cardinality(B \cup New) = Cardinality(B) + Cardinality(New) - Cardinality(B \cap New)
      BY <1>3, FS_Union
    <2> QED
      BY <1>3, <1>7, <2>1, <2>2
  <1>9. Cardinality(Busy(fl2)) <= Parallel
    <2>1. CASE New = {}
      <3>1. Cardinality(New) = 0
        BY <2>1, FS_EmptySet
      <3>2. Cardinality(B) <= Parallel
        BY DEF SoundFlight
      <3> HIDE DEF New, B
      <3> QED
        BY <1>3, <1>8, <3>1, <3>2
    <2>2. CASE New # {}
      <3>1. PICK c \in New : \A b \in New : rank[b] <= rank[c]
        <4>1. \A c \in New : rank[c] \in 1..Cardinality(Chunk)
          BY <1>1
        <4>2. Cardinality(Chunk) \in Nat
          BY FiniteParts
        <4> HIDE DEF New
        <4> QED
          BY <2>2, <4>1, <4>2, GreatestRank
      <3>2. New = before(c) \cup {c} /\ c \notin before(c)
        <4>1. \A b \in New : b # c => rank[b] < rank[c]
          BY <1>1, <3>1
        <4>2. c \notin before(c)
          BY <1>1, <3>1
        <4> QED
          BY <3>1, <4>1, <4>2
      <3>3. Cardinality(New) = Cardinality(before(c)) + 1
        <4>1. IsFiniteSet(before(c))
          BY <1>4
        <4> HIDE DEF New, before
        <4> QED
          BY <3>2, <4>1, FS_AddElement
      <3>4. Cardinality(B) + Cardinality(before(c)) < Parallel
        BY <1>5, <3>1
      <3>5. Cardinality(before(c)) \in Nat /\ Parallel \in Nat
        BY <1>4, ParallelIsNumber
      <3> HIDE DEF New, B, before
      <3> QED
        BY <1>3, <1>8, <3>3, <3>4, <3>5
    <2> QED
      BY <2>1, <2>2
  <1>10. \A c \in Busy(fl2) : c \in need'[n] /\ fl2[c] \in PeersForChunk(n, c)
    <2>1. \A c \in New : c \in need'[n] /\ fl2[c] \in PeersForChunk(n, c)
      BY <1>1, <1>5
    <2>2. \A c \in B : c \in need'[n] /\ fl2[c] \in PeersForChunk(n, c)
      BY <1>1, <1>6 DEF SoundFlight, Busy
    <2> QED
      BY <1>7, <2>1, <2>2
  <1>11. FullFlight(n, fl2)
    <2> SUFFICES ASSUME Cardinality(Busy(fl2)) < Parallel,
                        NEW c \in need'[n] \ Busy(fl2), PeersForChunk(n, c) # {}
                 PROVE  FALSE
      BY DEF FullFlight
    <2>1. c \in Chunk /\ fl2[c] = NoPeer /\ c \notin B
      BY <1>7 DEF Busy
    <2>2. PICK q \in Node : c \in have'[n][q]
      BY DEF PeersForChunk
    <2>3. Count(n, c) > 0
      <3> DEFINE H == {p \in Node : c \in have'[n][p]}
      <3>1. H # {} /\ H \in SUBSET Node
        BY <2>2
      <3>2. IsFiniteSet(H) /\ Cardinality(H) \in Nat
        <4> HIDE DEF H
        <4> QED
          BY <3>1, FileTransferAssumption, FS_Subset, FS_CardinalityType
      <3>3. Cardinality(H) # 0
        BY <3>1, <3>2, FS_EmptySet
      <3> QED
        BY <3>2, <3>3 DEF Count
    <2>4. c \in C
      <3>1. C = Candidates(n, fl)
        BY RankFacts
      <3> QED
        BY <2>1, <2>3, <3>1 DEF Candidates
    <2>5. Cardinality(B) + Cardinality(before(c)) >= Parallel
      <3>1. NoPeer \notin PeersForChunk(n, c)
        BY FileTransferAssumption DEF PeersForChunk
      <3> QED
        BY <1>5, <2>1, <2>4, <3>1
    <2>6. Cardinality(before(c)) <= Cardinality(New)
      <3>1. before(c) \in SUBSET New
        OBVIOUS
      <3> HIDE DEF before, New
      <3> QED
        BY <1>3, <3>1, FS_Subset
    <2>7. Cardinality(before(c)) \in Nat /\ Parallel \in Nat
      BY <1>4, <2>4, ParallelIsNumber
    <2> HIDE DEF B, New, before
    <2> QED
      BY <1>3, <1>8, <2>5, <2>6, <2>7
  <1>12. \A c \in C : fl2[c] # NoPeer => fl2[c] \in PeersForChunk(n, c)
    BY <1>5
  <1> QED
    BY <1>9, <1>10, <1>11, <1>12 DEF SoundFlight

-----------------------------------------------------------------------------
(* Sequences and channels *)

LEMMA RangeConcat ==
    ASSUME NEW S, NEW s \in Seq(S), NEW t \in Seq(S)
    PROVE  s \o t \in Seq(S) /\ Range(s \o t) \subseteq Range(s) \cup Range(t)
  <1>1. /\ s \o t \in Seq(S) /\ Len(s \o t) = Len(s) + Len(t)
        /\ \A i \in 1..Len(s) + Len(t) :
              (s \o t)[i] = IF i <= Len(s) THEN s[i] ELSE t[i - Len(s)]
    BY ConcatProperties
  <1>2. /\ DOMAIN s = 1..Len(s) /\ DOMAIN t = 1..Len(t)
        /\ DOMAIN (s \o t) = 1..Len(s \o t)
        /\ Len(s) \in Nat /\ Len(t) \in Nat
    BY <1>1, LenProperties
  <1>3. ASSUME NEW i \in DOMAIN (s \o t) PROVE (s \o t)[i] \in Range(s) \cup Range(t)
    <2>1. i \in 1..Len(s) + Len(t)
      BY <1>1, <1>2
    <2>2. CASE i <= Len(s)
      <3>1. i \in DOMAIN s /\ (s \o t)[i] = s[i]
        BY <1>1, <1>2, <2>1, <2>2
      <3> QED
        BY <3>1 DEF Range
    <2>3. CASE ~(i <= Len(s))
      <3>1. i - Len(s) \in DOMAIN t /\ (s \o t)[i] = t[i - Len(s)]
        BY <1>1, <1>2, <2>1, <2>3
      <3> QED
        BY <3>1 DEF Range
    <2> QED
      BY <2>2, <2>3
  <1> QED
    BY <1>1, <1>3 DEF Range

LEMMA RangeTail ==
    ASSUME NEW S, NEW s \in Seq(S), s # <<>>
    PROVE  /\ Head(s) \in Range(s) /\ Head(s) \in S
           /\ Tail(s) \in Seq(S) /\ Range(Tail(s)) \subseteq Range(s)
  <1>1. /\ Len(s) \in Nat \ {0} /\ DOMAIN s = 1..Len(s) /\ Head(s) = s[1]
    BY LenProperties, EmptySeq
  <1>2. /\ Tail(s) \in Seq(S) /\ Len(Tail(s)) = Len(s) - 1
        /\ \A i \in 1..Len(Tail(s)) : Tail(s)[i] = s[i + 1]
        /\ DOMAIN Tail(s) = 1..Len(Tail(s)) /\ Head(s) \in S
    BY HeadTailProperties, LenProperties
  <1>3. ASSUME NEW i \in DOMAIN Tail(s) PROVE Tail(s)[i] \in Range(s)
    <2>1. i + 1 \in DOMAIN s /\ Tail(s)[i] = s[i + 1]
      BY <1>1, <1>2
    <2> QED
      BY <2>1 DEF Range
  <1>4. Head(s) \in Range(s)
    <2>1. 1 \in DOMAIN s
      BY <1>1
    <2> QED
      BY <1>1, <2>1 DEF Range
  <1> QED
    BY <1>2, <1>3, <1>4 DEF Range

(* Deleting m from the attached sessions keeps the others. *)
LEMMA WithoutFacts ==
    ASSUME NEW s \in Seq(Node), NEW m \in Range(s)
    PROVE  /\ Without(s, m) \in Seq(Node)
           /\ \A q \in Range(s) : q # m => q \in Range(Without(s, m))
  <1> DEFINE k == CHOOSE i \in DOMAIN s : s[i] = m
             a == SubSeq(s, 1, k - 1)
             b == SubSeq(s, k + 1, Len(s))
  <1>1. /\ k \in DOMAIN s /\ s[k] = m
        /\ DOMAIN s = 1..Len(s) /\ Len(s) \in Nat
        /\ \A i \in 1..Len(s) : s[i] \in Node
    BY LenProperties DEF Range
  <1>2. Without(s, m) = a \o b
    BY DEF Without, RemoveAt
  <1> HIDE DEF k
  <1>3. /\ a \in Seq(Node) /\ Len(a) = k - 1
        /\ \A i \in 1..k - 1 : a[i] = s[i]
    <2>1. /\ k - 1 \in Int /\ \A i \in 1..k - 1 : s[i] \in Node
      BY <1>1
    <2>2. /\ SubSeq(s, 1, k - 1) \in Seq(Node)
          /\ Len(SubSeq(s, 1, k - 1)) = IF 1 <= k - 1 THEN (k - 1) - 1 + 1 ELSE 0
          /\ \A i \in 1..(k - 1) - 1 + 1 : SubSeq(s, 1, k - 1)[i] = s[1 + i - 1]
      BY <2>1, SubSeqProperties
    <2> QED
      BY <1>1, <2>2
  <1>4. /\ b \in Seq(Node) /\ Len(b) = Len(s) - k
        /\ \A i \in 1..Len(s) - k : b[i] = s[k + i]
    <2>1. /\ k + 1 \in Int /\ Len(s) \in Int
          /\ \A i \in k + 1..Len(s) : s[i] \in Node
      BY <1>1
    <2>2. /\ b \in Seq(Node)
          /\ Len(b) = IF k + 1 <= Len(s) THEN Len(s) - (k + 1) + 1 ELSE 0
          /\ \A i \in 1..Len(s) - (k + 1) + 1 : b[i] = s[(k + 1) + i - 1]
      BY <2>1, SubSeqProperties
    <2>3. ASSUME NEW i \in 1..Len(s) - k PROVE b[i] = s[k + i]
      <3>1. i \in 1..Len(s) - (k + 1) + 1 /\ (k + 1) + i - 1 = k + i
        BY <1>1
      <3> QED
        BY <2>2, <3>1
    <2> HIDE DEF b
    <2> QED
      BY <1>1, <2>2, <2>3
  <1> HIDE DEF a, b
  <1>5. /\ a \o b \in Seq(Node) /\ Len(a \o b) = Len(a) + Len(b)
        /\ DOMAIN (a \o b) = 1..Len(a \o b)
        /\ \A i \in 1..Len(a) + Len(b) :
              (a \o b)[i] = IF i <= Len(a) THEN a[i] ELSE b[i - Len(a)]
    BY <1>3, <1>4, ConcatProperties, LenProperties
  <1>6. ASSUME NEW i \in DOMAIN s, s[i] # m
        PROVE  \E j \in DOMAIN (a \o b) : (a \o b)[j] = s[i]
    <2>1. CASE i < k
      <3>1. i \in DOMAIN (a \o b) /\ (a \o b)[i] = s[i]
        BY <1>1, <1>3, <1>4, <1>5, <2>1
      <3> QED
        BY <3>1
    <2>2. CASE i > k
      <3>1. i - 1 \in DOMAIN (a \o b) /\ (a \o b)[i - 1] = b[i - k]
        BY <1>1, <1>3, <1>4, <1>5, <2>2
      <3>2. b[i - k] = s[i]
        <4>1. i - k \in 1..Len(s) - k /\ k + (i - k) = i
          BY <1>1, <2>2
        <4> QED
          BY <1>4, <4>1
      <3> QED
        BY <3>1, <3>2
    <2> QED
      BY <1>1, <1>6, <2>1, <2>2
  <1>7. ASSUME NEW q \in Range(s), q # m PROVE q \in Range(Without(s, m))
    <2>1. PICK i \in DOMAIN s : s[i] = q
      BY DEF Range
    <2>2. PICK j \in DOMAIN (a \o b) : (a \o b)[j] = s[i]
      BY <1>6, <1>7, <2>1
    <2>3. q \in Range(a \o b)
      BY <2>1, <2>2 DEF Range
    <2> QED
      BY <1>2, <2>3
  <1>8. Without(s, m) \in Seq(Node)
    BY <1>2, <1>5
  <1> QED
    BY <1>7, <1>8

Channels == [Node \X Node -> Seq(Message)]

Sends == [Node -> Seq(Message)]

LEMMA EmitFacts ==
    ASSUME NEW n \in Node, NEW ch \in Channels, NEW out \in Sends, Emit(n, ch, out)
    PROVE  /\ chan' \in Channels
           /\ \A p, q \in Node :
                 Range(chan'[<<p, q>>]) \subseteq
                     Range(ch[<<p, q>>])
                     \cup (IF p = n /\ {p, q} \in live THEN Range(out[q]) ELSE {})
  <1> USE DEF Channels, Sends
  <1>1. \A p, q \in Node :
           chan'[<<p, q>>] = IF p = n /\ {p, q} \in live
                             THEN ch[<<p, q>>] \o out[q] ELSE ch[<<p, q>>]
    BY DEF Emit
  <1>2. \A p, q \in Node :
           /\ ch[<<p, q>>] \o out[q] \in Seq(Message)
           /\ Range(ch[<<p, q>>] \o out[q]) \subseteq Range(ch[<<p, q>>]) \cup Range(out[q])
    BY RangeConcat
  <1>3. chan' \in Channels
    <2>1. chan' = [l \in Node \X Node |-> chan'[l]]
      BY DEF Emit
    <2>2. \A p, q \in Node : chan'[<<p, q>>] \in Seq(Message)
      BY <1>1, <1>2
    <2> QED
      BY <2>1, <2>2
  <1> QED
    BY <1>1, <1>2, <1>3

LEMMA ClearedFacts ==
    ASSUME NEW ch \in Channels, NEW links
    PROVE  /\ Cleared(ch, links) \in Channels
           /\ \A p, q \in Node :
                 /\ Range(Cleared(ch, links)[<<p, q>>]) \subseteq Range(ch[<<p, q>>])
                 /\ {p, q} \in links => Range(Cleared(ch, links)[<<p, q>>]) = {}
  <1>1. \A p, q \in Node : Cleared(ch, links)[<<p, q>>] \in {<<>>, ch[<<p, q>>]}
    BY DEF Cleared
  <1>2. \A p, q \in Node : ch[<<p, q>>] \in Seq(Message)
    BY DEF Channels
  <1>3. <<>> \in Seq(Message) /\ Range(<<>>) = {}
    BY DEF Range
  <1>4. Cleared(ch, links) = [l \in Node \X Node |-> Cleared(ch, links)[l]]
    BY DEF Cleared
  <1>5. \A p, q \in Node : Cleared(ch, links)[<<p, q>>] \in Seq(Message)
    BY <1>1, <1>2, <1>3
  <1>6. Cleared(ch, links) \in Channels
    <2> DEFINE C == Cleared(ch, links)
    <2> HIDE DEF C
    <2>1. C = [l \in Node \X Node |-> C[l]] /\ \A p, q \in Node : C[<<p, q>>] \in Seq(Message)
      BY <1>4, <1>5 DEF C
    <2>2. ASSUME NEW l \in Node \X Node PROVE C[l] \in Seq(Message)
      <3>1. PICK p \in Node, q \in Node : l = <<p, q>>
        OBVIOUS
      <3> QED
        BY <2>1, <3>1
    <2>3. C \in [Node \X Node -> Seq(Message)]
      BY <2>1, <2>2
    <2> QED
      BY <2>3 DEF C, Channels
  <1>7. \A p, q \in Node : Range(Cleared(ch, links)[<<p, q>>]) \subseteq Range(ch[<<p, q>>])
    BY <1>1, <1>3
  <1>8. \A p, q \in Node : {p, q} \in links => Cleared(ch, links)[<<p, q>>] = <<>>
    BY DEF Cleared
  <1> QED
    BY <1>3, <1>6, <1>7, <1>8

(* The requests of a pass go to peers that announced the chunk. *)
LEMMA RequestsFacts ==
    ASSUME NEW n \in Node, NEW rank, NEW fl2 \in Flight,
           DOMAIN rank \in SUBSET Chunk,
           \A c \in DOMAIN rank : rank[c] \in 1..Cardinality(Chunk),
           \A b, c \in DOMAIN rank : b # c => rank[b] # rank[c],
           \A c \in DOMAIN rank : fl2[c] # NoPeer => fl2[c] \in PeersForChunk(n, c)
    PROVE  /\ Requests(fl2, rank) \in Sends
           /\ \A q \in Node : Range(Requests(fl2, rank)[q])
                                 \subseteq {encChunkReq(c) : c \in have'[n][q]}
  <1>1. ASSUME NEW q \in Node
        PROVE  /\ Requests(fl2, rank)[q] \in Seq(Message)
               /\ Range(Requests(fl2, rank)[q]) \subseteq {encChunkReq(c) : c \in have'[n][q]}
    <2> DEFINE S == {c \in DOMAIN rank : fl2[c] = q}
               s == ByRank(S, rank)
               R == [i \in 1..Len(s) |-> encChunkReq(s[i])]
    <2>1. S \in SUBSET Chunk /\ \A c \in S : c \in have'[n][q]
      BY FileTransferAssumption DEF PeersForChunk
    <2>2. s \in Seq(S)
      <3>1. IsFiniteSet(S)
        BY <2>1, FiniteParts
      <3>2. Cardinality(Chunk) \in Nat
        BY FiniteParts
      <3>3. /\ \A c \in S : rank[c] \in Nat
            /\ \A b, c \in S : b # c => rank[b] # rank[c]
        BY <3>2
      <3> HIDE DEF S
      <3> QED
        BY <3>1, <3>3, ByRankFacts
    <2>3. Requests(fl2, rank)[q] = R
      BY DEF Requests
    <2> HIDE DEF s, S
    <2>4. Len(s) \in Nat /\ \A i \in 1..Len(s) : s[i] \in S
      BY <2>2, LenProperties
    <2>5. ASSUME NEW i \in 1..Len(s)
          PROVE  encChunkReq(s[i]) \in Message
      BY <2>1, <2>4 DEF encChunkReq, Msg, Message
    <2>6. R \in [1..Len(s) -> Message]
      BY <2>5
    <2>7. R \in Seq(Message)
      BY <2>4, <2>6
    <2>8. Range(R) \subseteq {encChunkReq(c) : c \in have'[n][q]}
      BY <2>1, <2>4 DEF Range
    <2> QED
      BY <2>3, <2>7, <2>8
  <1>2. Requests(fl2, rank) = [q \in Node |-> Requests(fl2, rank)[q]]
    BY DEF Requests
  <1> QED
    BY <1>1, <1>2 DEF Sends

(* The end of a handler: the request table it leaves, and where the messages *)
(* on the channels come from.                                                *)
LEMMA ScheduleFacts ==
    ASSUME NEW n \in Node, inFlight \in [Node -> Flight],
           sessions'[n] \in Seq(Node), have'[n] \in [Node -> SUBSET Chunk],
           need'[n] \in SUBSET Chunk,
           NEW ch \in Channels, NEW first \in Sends, NEW fl \in Flight,
           active'[n] => SoundFlight(n, fl),
           Schedule(n, ch, first, fl)
    PROVE  /\ inFlight' \in [Node -> Flight]
           /\ \A k \in Node \ {n} : inFlight'[k] = inFlight[k]
           /\ IF active'[n]
              THEN SoundFlight(n, inFlight'[n]) /\ FullFlight(n, inFlight'[n])
              ELSE inFlight'[n] = Idle
           /\ chan' \in Channels
           /\ \A p, q \in Node :
                 Range(chan'[<<p, q>>]) \subseteq
                     Range(ch[<<p, q>>])
                     \cup (IF p = n /\ {p, q} \in live
                           THEN Range(first[q]) \cup {encChunkReq(c) : c \in have'[n][q]}
                           ELSE {})
  <1>1. CASE ~active'[n]
    <2>1. inFlight' = [inFlight EXCEPT ![n] = Idle] /\ Emit(n, ch, first)
      BY <1>1 DEF Schedule
    <2>2. Idle \in Flight
      BY DEF Idle, Flight
    <2>3. /\ inFlight' \in [Node -> Flight] /\ inFlight'[n] = Idle
          /\ \A k \in Node \ {n} : inFlight'[k] = inFlight[k]
      BY <2>1, <2>2
    <2>4. /\ chan' \in Channels
          /\ \A p, q \in Node :
                 Range(chan'[<<p, q>>]) \subseteq
                     Range(ch[<<p, q>>])
                     \cup (IF p = n /\ {p, q} \in live THEN Range(first[q]) ELSE {})
      BY <2>1, EmitFacts
    <2> QED
      BY <1>1, <2>3, <2>4
  <1>2. CASE active'[n]
    <2>1. PICK rank \in RarestFirst(n, fl), fl2 \in Flight :
              /\ Assigns(n, fl, rank, fl2)
              /\ inFlight' = [inFlight EXCEPT ![n] = fl2]
              /\ Emit(n, ch, [q \in Node |-> first[q] \o Requests(fl2, rank)[q]])
      BY <1>2 DEF Schedule, Flight
    <2>2. /\ SoundFlight(n, fl2) /\ FullFlight(n, fl2)
          /\ \A c \in DOMAIN rank : fl2[c] # NoPeer => fl2[c] \in PeersForChunk(n, c)
      BY <1>2, <2>1, AssignsFacts
    <2>3. /\ inFlight' \in [Node -> Flight] /\ inFlight'[n] = fl2
          /\ \A k \in Node \ {n} : inFlight'[k] = inFlight[k]
      BY <2>1
    <2>4. /\ DOMAIN rank \in SUBSET Chunk
          /\ \A c \in DOMAIN rank : rank[c] \in 1..Cardinality(Chunk)
          /\ \A b, c \in DOMAIN rank : b # c => rank[b] # rank[c]
      BY RankFacts
    <2> DEFINE rq == Requests(fl2, rank)
               out == [q \in Node |-> first[q] \o rq[q]]
    <2>5. /\ rq \in Sends
          /\ \A q \in Node : Range(rq[q]) \subseteq {encChunkReq(c) : c \in have'[n][q]}
      BY <2>2, <2>4, RequestsFacts
    <2> HIDE DEF rq
    <2>6. \A q \in Node : /\ first[q] \o rq[q] \in Seq(Message)
                          /\ Range(first[q] \o rq[q]) \subseteq Range(first[q]) \cup Range(rq[q])
      BY <2>5, RangeConcat DEF Sends
    <2>7. out \in Sends
      BY <2>6 DEF Sends
    <2>8. Emit(n, ch, out)
      BY <2>1 DEF rq
    <2>9. \A q \in Node : Range(out[q]) \subseteq
                             Range(first[q]) \cup {encChunkReq(c) : c \in have'[n][q]}
      BY <2>5, <2>6
    <2> HIDE DEF out
    <2>10. /\ chan' \in Channels
           /\ \A p, q \in Node :
                 Range(chan'[<<p, q>>]) \subseteq
                     Range(ch[<<p, q>>])
                     \cup (IF p = n /\ {p, q} \in live THEN Range(out[q]) ELSE {})
      BY <2>7, <2>8, EmitFacts
    <2>11. \A p, q \in Node :
                 Range(chan'[<<p, q>>]) \subseteq
                     Range(ch[<<p, q>>])
                     \cup (IF p = n /\ {p, q} \in live
                           THEN Range(first[q]) \cup {encChunkReq(c) : c \in have'[n][q]}
                           ELSE {})
      <3> SUFFICES ASSUME NEW p \in Node, NEW q \in Node, NEW f \in Range(chan'[<<p, q>>]),
                          f \notin Range(ch[<<p, q>>])
                   PROVE  /\ p = n /\ {p, q} \in live
                          /\ f \in Range(first[q]) \cup {encChunkReq(c) : c \in have'[n][q]}
        OBVIOUS
      <3>1. p = n /\ {p, q} \in live /\ f \in Range(out[q])
        BY <2>10
      <3> QED
        BY <2>9, <3>1
    <2> QED
      BY <1>2, <2>2, <2>3, <2>10, <2>11
  <1> QED
    BY <1>1, <1>2

-----------------------------------------------------------------------------
(* The inductive invariant *)

Sources(n, c) == {q \in Attached(n) : c \in have[n][q] /\ q \notin bad[n][c]}

(* The request table of n: empty without a download; with one, every chunk   *)
(* in it is missing and asked of a source of it, at most Parallel are, and a *)
(* missing chunk that has a source is left out only when Parallel are.       *)
TableOK(n) ==
    IF active[n]
    THEN /\ Cardinality(Busy(inFlight[n])) <= Parallel
         /\ \A c \in Busy(inFlight[n]) : c \in need[n] /\ inFlight[n][c] \in Sources(n, c)
         /\ Cardinality(Busy(inFlight[n])) < Parallel =>
               \A c \in need[n] \ Busy(inFlight[n]) : Sources(n, c) = {}
    ELSE inFlight[n] = Idle

FlightInv == \A n \in Node : TableOK(n)

(* What n knows of m: only what m stores, while they are connected, and      *)
(* nothing without a session.                                                *)
KnownInv ==
    \A n, m \in Node : /\ {n, m} \in live => have[n][m] \subseteq store[m]
                       /\ m \notin Attached(n) => have[n][m] = {}

(* A message f on the way from n to m. *)
MessageOK(n, m, f) ==
    /\ f.t = "CHUNK_REQ" => f.chunks \subseteq store[m]
    /\ f.t \in {"HAVE", "HAVE_PIECE"} => f.chunks \subseteq store[n]
    /\ f.t = "CHUNK_DATA" => f.chunks # {}

(* Nothing is on the way between nodes that are not connected, so that what  *)
(* a process lost with its index is in no message.                           *)
ChannelInv ==
    \A n, m \in Node : \A f \in Range(chan[<<n, m>>]) :
        {n, m} \in live /\ MessageOK(n, m, f)

(* A download lists what its store lacks; chunks are damaged only by what    *)
(* was on the disk at the start.                                             *)
DiskInv ==
    \A n \in Node : /\ active[n] => Chunk \ store[n] \subseteq need[n]
                    /\ damaged[n] \subseteq Damaged[n]
                    /\ outcome[n] = "failed" => Damaged[n] # {}

TransferInv == TypeOK /\ FlightInv /\ KnownInv /\ ChannelInv /\ DiskInv

(* TypeOK without the channels and the request tables. *)
RestTypes ==
    /\ live \subseteq Link
    /\ sessions \in [Node -> Seq(Node)]
    /\ have \in [Node -> [Node -> SUBSET Chunk]]
    /\ manifest \in [Node -> BOOLEAN]
    /\ index \in [Node -> BOOLEAN]
    /\ store \in [Node -> SUBSET Chunk]
    /\ damaged \in [Node -> SUBSET Chunk]
    /\ active \in [Node -> BOOLEAN]
    /\ need \in [Node -> SUBSET Chunk]
    /\ bad \in [Node -> [Chunk -> SUBSET Node]]
    /\ outcome \in [Node -> {"none", "match", "failed"}]
    /\ downloads \in [Node -> Nat] /\ timeouts \in [Node -> Nat]
    /\ breaks \in Nat /\ restarts \in Nat

LEMMA TypeParts ==
    /\ TypeOK <=> RestTypes /\ chan \in Channels /\ inFlight \in [Node -> Flight]
    /\ TypeOK' <=> RestTypes' /\ chan' \in Channels /\ inFlight' \in [Node -> Flight]
  BY DEF TypeOK, RestTypes, Channels, Flight

-----------------------------------------------------------------------------
(* What the steps have in common *)

(* A step of n leaves the peers and the download of the others alone. *)
Elsewhere(n) ==
    \A k \in Node \ {n} : /\ sessions'[k] = sessions[k] /\ have'[k] = have[k]
                          /\ active'[k] = active[k] /\ need'[k] = need[k]
                          /\ bad'[k] = bad[k]

LEMMA KeptTable ==
    ASSUME NEW k \in Node, TableOK(k),
           sessions'[k] = sessions[k], have'[k] = have[k], active'[k] = active[k],
           need'[k] = need[k], bad'[k] = bad[k], inFlight'[k] = inFlight[k]
    PROVE  TableOK(k)'
  BY DEF TableOK, Sources, Attached, Idle, Busy

LEMMA KeptTables ==
    ASSUME FlightInv, UNCHANGED <<peerVars, downVars, inFlight>>
    PROVE  FlightInv'
  BY KeptTable DEF FlightInv, peerVars, downVars

(* Messages sent stay true while the stores grow and the links hold. *)
LEMMA ChannelStep ==
    ASSUME ChannelInv, \A k \in Node : store[k] \subseteq store'[k],
           \A p, q \in Node : \A f \in Range(chan'[<<p, q>>]) :
              /\ f \in Range(chan[<<p, q>>]) \/ ({p, q} \in live /\ MessageOK(p, q, f)')
              /\ {p, q} \in live => {p, q} \in live'
    PROVE  ChannelInv'
  <1>1. ASSUME NEW p \in Node, NEW q \in Node, NEW f \in Range(chan[<<p, q>>])
        PROVE  {p, q} \in live /\ MessageOK(p, q, f)'
    <2>1. {p, q} \in live /\ MessageOK(p, q, f)
      BY DEF ChannelInv
    <2>2. store[p] \subseteq store'[p] /\ store[q] \subseteq store'[q]
      OBVIOUS
    <2> QED
      BY <2>1, <2>2 DEF MessageOK
  <1> QED
    BY <1>1 DEF ChannelInv

LEMMA PeersAreSources ==
    ASSUME NEW n \in Node, sessions'[n] \in Seq(Node)
    PROVE  \A c : PeersForChunk(n, c) = Sources(n, c)'
  <1>1. Attached(n)' \subseteq Node
    BY LenProperties DEF Attached
  <1> QED
    BY <1>1 DEF PeersForChunk, Sources

(* A handler of n that ends with a scheduling pass keeps the invariant. *)
LEMMA ScheduledStep ==
    ASSUME TransferInv, NEW n \in Node, NEW ch \in Channels, NEW first \in Sends,
           NEW fl \in Flight,
           RestTypes', Elsewhere(n), KnownInv', DiskInv', UNCHANGED live,
           \A k \in Node : store[k] \subseteq store'[k],
           active'[n] => SoundFlight(n, fl),
           \A p, q \in Node : Range(ch[<<p, q>>]) \subseteq Range(chan[<<p, q>>]),
           \A q \in Node : \A f \in Range(first[q]) : MessageOK(n, q, f)',
           Schedule(n, ch, first, fl)
    PROVE  TransferInv'
  <1>1. /\ sessions'[n] \in Seq(Node) /\ have'[n] \in [Node -> SUBSET Chunk]
        /\ need'[n] \in SUBSET Chunk
    BY DEF RestTypes
  <1>2. inFlight \in [Node -> Flight]
    BY TypeParts DEF TransferInv
  <1>3. /\ inFlight' \in [Node -> Flight]
        /\ \A k \in Node \ {n} : inFlight'[k] = inFlight[k]
        /\ IF active'[n]
           THEN SoundFlight(n, inFlight'[n]) /\ FullFlight(n, inFlight'[n])
           ELSE inFlight'[n] = Idle
        /\ chan' \in Channels
        /\ \A p, q \in Node :
              Range(chan'[<<p, q>>]) \subseteq
                  Range(ch[<<p, q>>])
                  \cup (IF p = n /\ {p, q} \in live
                        THEN Range(first[q]) \cup {encChunkReq(c) : c \in have'[n][q]}
                        ELSE {})
    BY <1>1, <1>2, ScheduleFacts
  <1>4. TypeOK'
    BY <1>3, TypeParts
  <1>5. FlightInv'
    <2>1. TableOK(n)'
      <3>1. \A c : PeersForChunk(n, c) = Sources(n, c)'
        BY <1>1, PeersAreSources
      <3>2. CASE active'[n]
        BY <1>3, <3>1, <3>2 DEF TableOK, SoundFlight, FullFlight, Busy
      <3>3. CASE ~active'[n]
        BY <1>3, <3>3 DEF TableOK, Idle
      <3> QED
        BY <3>2, <3>3
    <2>2. ASSUME NEW k \in Node, k # n PROVE TableOK(k)'
      <3>1. TableOK(k)
        BY DEF TransferInv, FlightInv
      <3> QED
        BY <1>3, <2>2, <3>1, KeptTable DEF Elsewhere
    <2> QED
      BY <2>1, <2>2 DEF FlightInv
  <1>6. ChannelInv'
    <2>1. ASSUME NEW q \in Node, NEW c \in have'[n][q], {n, q} \in live
          PROVE  MessageOK(n, q, encChunkReq(c))'
      <3>1. c \in store'[q]
        BY <2>1 DEF KnownInv
      <3> QED
        BY <3>1 DEF MessageOK, encChunkReq, Msg
    <2>2. ASSUME NEW p \in Node, NEW q \in Node, NEW f \in Range(chan'[<<p, q>>]),
                 f \notin Range(chan[<<p, q>>])
          PROVE  {p, q} \in live /\ MessageOK(p, q, f)'
      <3>1. f \notin Range(ch[<<p, q>>])
        BY <2>2
      <3>2. /\ p = n /\ {p, q} \in live
            /\ f \in Range(first[q]) \cup {encChunkReq(c) : c \in have'[n][q]}
        BY <1>3, <3>1
      <3> QED
        BY <2>1, <3>2
    <2> QED
      BY <2>2, ChannelStep DEF TransferInv
  <1> QED
    BY <1>4, <1>5, <1>6 DEF TransferInv

LEMMA NothingFacts ==
    Nothing \in Sends /\ \A q \in Node : Range(Nothing[q]) = {}
  BY DEF Nothing, Sends, Range

(* The message a handler of n takes off the channel from m. *)
LEMMA ReceivesFacts ==
    ASSUME chan \in Channels, NEW n \in Node, NEW m \in Node, chan[<<m, n>>] # <<>>
    PROVE  /\ Head1(m, n) \in Message /\ Head1(m, n) \in Range(chan[<<m, n>>])
           /\ Rest(m, n) \in Channels
           /\ \A p, q \in Node : Range(Rest(m, n)[<<p, q>>]) \subseteq Range(chan[<<p, q>>])
  <1>1. chan[<<m, n>>] \in Seq(Message) /\ <<m, n>> \in Node \X Node
    BY DEF Channels
  <1>2. /\ Head1(m, n) \in Message /\ Head1(m, n) \in Range(chan[<<m, n>>])
        /\ Tail(chan[<<m, n>>]) \in Seq(Message)
        /\ Range(Tail(chan[<<m, n>>])) \subseteq Range(chan[<<m, n>>])
    BY <1>1, RangeTail DEF Head1
  <1>3. Rest(m, n) \in Channels
    BY <1>1, <1>2 DEF Rest, Channels
  <1>4. \A p, q \in Node : Rest(m, n)[<<p, q>>] = IF <<p, q>> = <<m, n>>
                                                  THEN Tail(chan[<<m, n>>])
                                                  ELSE chan[<<p, q>>]
    BY <1>1 DEF Rest, Channels
  <1> QED
    BY <1>2, <1>3, <1>4

(* Requests left after some were freed. *)
LEMMA FreedFlight ==
    ASSUME TransferInv, NEW n \in Node, active[n], sessions'[n] \in Seq(Node),
           NEW fl \in Flight, \A c \in Chunk : fl[c] \in {inFlight[n][c], NoPeer},
           \A c \in Busy(fl) : /\ c \in need[n] => c \in need'[n]
                               /\ fl[c] \in Sources(n, c) => fl[c] \in Sources(n, c)'
    PROVE  SoundFlight(n, fl)
  <1>1. /\ Cardinality(Busy(inFlight[n])) <= Parallel
        /\ \A c \in Busy(inFlight[n]) : c \in need[n] /\ inFlight[n][c] \in Sources(n, c)
    BY DEF TransferInv, FlightInv, TableOK
  <1>2. Busy(fl) \in SUBSET Busy(inFlight[n]) /\ \A c \in Busy(fl) : fl[c] = inFlight[n][c]
    BY DEF Busy
  <1>3. Cardinality(Busy(fl)) <= Parallel
    <2>1. Busy(inFlight[n]) \in SUBSET Chunk /\ Busy(fl) \in SUBSET Chunk
      BY DEF Busy
    <2>2. /\ Cardinality(Busy(fl)) <= Cardinality(Busy(inFlight[n]))
          /\ Cardinality(Busy(fl)) \in Nat /\ Cardinality(Busy(inFlight[n])) \in Nat
      BY <1>2, <2>1, FiniteParts, FS_Subset
    <2> QED
      BY <1>1, <2>2, ParallelIsNumber
  <1>4. \A c \in Busy(fl) : c \in need'[n] /\ fl[c] \in Sources(n, c)'
    BY <1>1, <1>2
  <1>5. \A c : PeersForChunk(n, c) = Sources(n, c)'
    BY PeersAreSources
  <1> QED
    BY <1>3, <1>4, <1>5 DEF SoundFlight

-----------------------------------------------------------------------------
(* One lemma per action *)

LEMMA StartInv == ASSUME Init PROVE TransferInv
  <1>1. TypeOK
    BY FileTransferAssumption DEF Init, TypeOK, Idle
  <1>2. FlightInv
    BY DEF Init, FlightInv, TableOK
  <1>3. KnownInv /\ ChannelInv
    BY DEF Init, KnownInv, ChannelInv, Range
  <1>4. DiskInv
    BY DEF Init, DiskInv
  <1> QED
    BY <1>1, <1>2, <1>3, <1>4 DEF TransferInv

LEMMA TickKeepsInv ==
    ASSUME TransferInv, NEW n \in Node, tick(n)
    PROVE  TransferInv'
  <1>1. /\ chan \in Channels /\ inFlight[n] \in Flight /\ RestTypes
    BY TypeParts DEF TransferInv
  <1>2. /\ active[n]
        /\ UNCHANGED <<live, peerVars, manifest, diskVars, downVars, outcome, countVars>>
        /\ Schedule(n, chan, Nothing, inFlight[n])
    BY DEF tick
  <1> USE <1>2 DEF peerVars, diskVars, downVars, countVars
  <1>3. RestTypes'
    BY <1>1 DEF RestTypes
  <1>4. Elsewhere(n) /\ \A k \in Node : store[k] \subseteq store'[k]
    BY DEF Elsewhere
  <1>5. KnownInv'
    BY DEF TransferInv, KnownInv, Attached
  <1>6. DiskInv'
    BY DEF TransferInv, DiskInv
  <1>7. SoundFlight(n, inFlight[n])
    <2>1. \A c : Sources(n, c)' = Sources(n, c)
      BY DEF Sources, Attached
    <2>2. sessions'[n] \in Seq(Node)
      BY <1>3 DEF RestTypes
    <2> QED
      BY <1>1, <2>1, <2>2, FreedFlight
  <1> QED
    BY <1>1, <1>3, <1>4, <1>5, <1>6, <1>7, NothingFacts, ScheduledStep

LEMMA OnTimeoutKeepsInv ==
    ASSUME TransferInv, NEW n \in Node, NEW c \in Chunk, onTimeout(n, c)
    PROVE  TransferInv'
  <1> DEFINE fl == [inFlight[n] EXCEPT ![c] = NoPeer]
  <1>1. /\ chan \in Channels /\ inFlight[n] \in Flight /\ RestTypes
    BY TypeParts DEF TransferInv
  <1>2. /\ active[n]
        /\ timeouts' = [timeouts EXCEPT ![n] = @ + 1]
        /\ UNCHANGED <<live, peerVars, manifest, diskVars, downVars, outcome, downloads,
                       breaks, restarts>>
        /\ Schedule(n, chan, Nothing, fl)
    BY DEF onTimeout
  <1> USE <1>2 DEF peerVars, diskVars, downVars, countVars
  <1>3. RestTypes'
    BY <1>1 DEF RestTypes
  <1>4. Elsewhere(n) /\ \A k \in Node : store[k] \subseteq store'[k]
    BY DEF Elsewhere
  <1>5. KnownInv'
    BY DEF TransferInv, KnownInv, Attached
  <1>6. DiskInv'
    BY DEF TransferInv, DiskInv
  <1>7. fl \in Flight /\ \A x \in Chunk : fl[x] \in {inFlight[n][x], NoPeer}
    BY <1>1 DEF Flight
  <1> HIDE DEF fl
  <1>8. SoundFlight(n, fl)
    <2>1. \A x : Sources(n, x)' = Sources(n, x)
      BY DEF Sources, Attached
    <2>2. sessions'[n] \in Seq(Node)
      BY <1>3 DEF RestTypes
    <2> QED
      BY <1>7, <2>1, <2>2, FreedFlight
  <1> QED
    BY <1>1, <1>3, <1>4, <1>5, <1>6, <1>7, <1>8, NothingFacts, ScheduledStep

LEMMA OnCloseKeepsInv ==
    ASSUME TransferInv, NEW n \in Node, NEW m \in Node, onClose(n, m)
    PROVE  TransferInv'
  <1> DEFINE fl == [c \in Chunk |-> IF inFlight[n][c] = m THEN NoPeer ELSE inFlight[n][c]]
  <1>1. /\ chan \in Channels /\ inFlight[n] \in Flight /\ RestTypes
    BY TypeParts DEF TransferInv
  <1>2. /\ m \in Attached(n)
        /\ sessions' = [sessions EXCEPT ![n] = Without(@, m)]
        /\ have' = [have EXCEPT ![n][m] = {}]
        /\ bad' = [bad EXCEPT ![n] = [c \in Chunk |-> @[c] \ {m}]]
        /\ UNCHANGED <<live, manifest, diskVars, active, need, outcome, countVars>>
        /\ Schedule(n, chan, Nothing, fl)
    BY DEF onClose
  <1> USE DEF diskVars, countVars
  <1>3. /\ Without(sessions[n], m) \in Seq(Node)
        /\ \A q \in Attached(n) : q # m => q \in Range(Without(sessions[n], m))
    <2>1. sessions[n] \in Seq(Node) /\ Attached(n) = Range(sessions[n])
      BY <1>1 DEF RestTypes, Attached, Range
    <2> QED
      BY <1>2, <2>1, WithoutFacts
  <1>4. RestTypes'
    BY <1>1, <1>2, <1>3 DEF RestTypes
  <1>5. Elsewhere(n) /\ \A k \in Node : store[k] \subseteq store'[k]
    BY <1>1, <1>2 DEF Elsewhere, RestTypes
  <1>6. \A q \in Attached(n) : q # m => q \in Attached(n)'
    <2>1. sessions'[n] = Without(sessions[n], m)
      BY <1>1, <1>2 DEF RestTypes
    <2>2. Attached(n)' = Range(Without(sessions[n], m))
      BY <2>1 DEF Attached, Range
    <2> QED
      BY <1>3, <2>2
  <1>7. /\ \A q \in Node : have'[n][q] = IF q = m THEN {} ELSE have[n][q]
        /\ \A c \in Chunk : bad'[n][c] = bad[n][c] \ {m}
    BY <1>1, <1>2 DEF RestTypes
  <1>8. KnownInv'
    <2>1. \A q \in Node : /\ {n, q} \in live' => have'[n][q] \subseteq store'[q]
                          /\ q \notin Attached(n)' => have'[n][q] = {}
      BY <1>2, <1>6, <1>7 DEF TransferInv, KnownInv
    <2>2. ASSUME NEW k \in Node \ {n}, NEW q \in Node
          PROVE  /\ {k, q} \in live' => have'[k][q] \subseteq store'[q]
                 /\ q \notin Attached(k)' => have'[k][q] = {}
      BY <1>2, <1>5 DEF TransferInv, KnownInv, Elsewhere, Attached
    <2> QED
      BY <2>1, <2>2 DEF KnownInv
  <1>9. DiskInv'
    BY <1>2 DEF TransferInv, DiskInv
  <1>10. /\ fl \in Flight
         /\ \A x \in Chunk : /\ fl[x] \in {inFlight[n][x], NoPeer}
                             /\ fl[x] # m \/ fl[x] = NoPeer
    BY <1>1 DEF Flight
  <1>11. active'[n] => SoundFlight(n, fl)
    <2>1. sessions'[n] \in Seq(Node) /\ Attached(n) \subseteq Node
      BY <1>1, <1>4, LenProperties DEF RestTypes, Attached
    <2>2. \A c \in Chunk : \A q \in Sources(n, c) : q # m => q \in Sources(n, c)'
      BY <1>6, <1>7, <2>1 DEF Sources
    <2>3. need'[n] = need[n] /\ active'[n] = active[n]
      BY <1>2
    <2>4. \A c \in Busy(fl) : c \in Chunk /\ fl[c] # m
      BY <1>10 DEF Busy
    <2> HIDE DEF fl
    <2> QED
      BY <1>10, <2>1, <2>2, <2>3, <2>4, FreedFlight
  <1> HIDE DEF fl
  <1> QED
    BY <1>1, <1>2, <1>4, <1>5, <1>8, <1>9, <1>10, <1>11, NothingFacts, ScheduledStep

(* A peer announced chunks: HAVE and HAVE_PIECE. *)
LEMMA LearnsKeepsInv ==
    ASSUME TransferInv, NEW n \in Node, NEW m \in Node, NEW cs \in SUBSET store[m],
           m \in Attached(n), chan[<<m, n>>] # <<>>,
           have' = [have EXCEPT ![n][m] = @ \cup cs],
           UNCHANGED <<live, sessions, manifest, diskVars, downVars, outcome, countVars>>,
           Schedule(n, Rest(m, n), Nothing, inFlight[n])
    PROVE  TransferInv'
  <1>1. /\ chan \in Channels /\ inFlight[n] \in Flight /\ RestTypes
    BY TypeParts DEF TransferInv
  <1> USE DEF diskVars, downVars, countVars
  <1>2. cs \in SUBSET Chunk
    BY <1>1 DEF RestTypes
  <1>3. RestTypes'
    BY <1>1, <1>2 DEF RestTypes
  <1>4. Elsewhere(n) /\ \A k \in Node : store[k] \subseteq store'[k]
    BY <1>1 DEF Elsewhere, RestTypes
  <1>5. \A k, q \in Node : have'[k][q] = IF k = n /\ q = m THEN have[n][m] \cup cs
                                         ELSE have[k][q]
    BY <1>1 DEF RestTypes
  <1>6. \A k : Attached(k)' = Attached(k)
    BY DEF Attached
  <1>7. KnownInv'
    BY <1>5, <1>6 DEF TransferInv, KnownInv
  <1>8. DiskInv'
    BY DEF TransferInv, DiskInv
  <1>9. active'[n] => SoundFlight(n, inFlight[n])
    <2>1. sessions'[n] \in Seq(Node) /\ Attached(n) \subseteq Node
      BY <1>1, <1>3, LenProperties DEF RestTypes, Attached
    <2>2. \A c : \A q \in Sources(n, c) : q \in Sources(n, c)'
      BY <1>5, <1>6, <2>1 DEF Sources
    <2> QED
      BY <1>1, <2>1, <2>2, FreedFlight
  <1>10. /\ Rest(m, n) \in Channels
         /\ \A p, q \in Node : Range(Rest(m, n)[<<p, q>>]) \subseteq Range(chan[<<p, q>>])
    BY <1>1, ReceivesFacts
  <1> QED
    BY <1>1, <1>3, <1>4, <1>7, <1>8, <1>9, <1>10, NothingFacts, ScheduledStep

LEMMA ToAllFacts ==
    ASSUME NEW n \in Node, NEW msgs \in Seq(Message)
    PROVE  /\ ToAll(n, msgs) \in Sends
           /\ \A q \in Node : Range(ToAll(n, msgs)[q]) \subseteq Range(msgs)
  <1>1. <<>> \in Seq(Message) /\ Range(<<>>) = {}
    BY DEF Range
  <1>2. \A q \in Node : ToAll(n, msgs)[q] \in {<<>>, msgs}
    BY DEF ToAll
  <1>3. ToAll(n, msgs) \in Sends
    BY <1>1 DEF ToAll, Sends
  <1> QED
    BY <1>1, <1>2, <1>3

LEMMA ToFacts ==
    ASSUME NEW m \in Node, NEW msgs \in Seq(Message)
    PROVE  /\ To(m, msgs) \in Sends
           /\ \A q \in Node : \A f \in Range(To(m, msgs)[q]) : q = m /\ f \in Range(msgs)
  <1>1. <<>> \in Seq(Message) /\ Range(<<>>) = {}
    BY DEF Range
  <1>2. \A q \in Node : To(m, msgs)[q] = IF q = m THEN msgs ELSE <<>>
    BY DEF To
  <1>3. To(m, msgs) \in Sends
    BY <1>1 DEF To, Sends
  <1> QED
    BY <1>1, <1>2, <1>3

LEMMA RangeOne ==
    ASSUME NEW f \in Message
    PROVE  <<f>> \in Seq(Message) /\ Range(<<f>>) = {f}
  BY DEF Range

LEMMA RecvHavePieceKeepsInv ==
    ASSUME TransferInv, NEW n \in Node, NEW m \in Node, recvHavePiece(n, m)
    PROVE  TransferInv'
  <1>1. chan \in Channels
    BY TypeParts DEF TransferInv
  <1>2. m \in Attached(n) /\ chan[<<m, n>>] # <<>> /\ Head1(m, n).t = "HAVE_PIECE"
    BY DEF recvHavePiece, Receives
  <1>3. Head1(m, n) \in Range(chan[<<m, n>>])
    BY <1>1, <1>2, ReceivesFacts
  <1>4. Head1(m, n).chunks \in SUBSET store[m]
    BY <1>2, <1>3 DEF TransferInv, ChannelInv, MessageOK
  <1> QED
    BY <1>2, <1>4, LearnsKeepsInv DEF recvHavePiece

(* The data of a CHUNK_DATA message is a chunk of the file. *)
LEMMA DataFacts ==
    ASSUME TransferInv, NEW n \in Node, NEW m \in Node, Receives(m, n, "CHUNK_DATA")
    PROVE  (CHOOSE x \in Head1(m, n).chunks : TRUE) \in Chunk
  <1>1. chan \in Channels
    BY TypeParts DEF TransferInv
  <1>2. chan[<<m, n>>] # <<>> /\ Head1(m, n).t = "CHUNK_DATA"
    BY DEF Receives
  <1>3. Head1(m, n) \in Range(chan[<<m, n>>]) /\ Head1(m, n) \in Message
    BY <1>1, <1>2, ReceivesFacts
  <1>4. Head1(m, n).chunks # {}
    BY <1>2, <1>3 DEF TransferInv, ChannelInv, MessageOK
  <1>5. Head1(m, n).chunks \subseteq Chunk
    BY <1>3 DEF Message
  <1> QED
    BY <1>4, <1>5

LEMMA RecvBadDataKeepsInv ==
    ASSUME TransferInv, NEW n \in Node, NEW m \in Node, recvBadData(n, m)
    PROVE  TransferInv'
  <1> DEFINE c == CHOOSE x \in Head1(m, n).chunks : TRUE
             fl == [inFlight[n] EXCEPT ![c] = NoPeer]
  <1>1. /\ chan \in Channels /\ inFlight[n] \in Flight /\ RestTypes
    BY TypeParts DEF TransferInv
  <1>2. /\ Receives(m, n, "CHUNK_DATA") /\ active[n]
        /\ bad' = [bad EXCEPT ![n][c] = @ \cup {m}]
        /\ UNCHANGED <<live, peerVars, manifest, diskVars, active, need, outcome, countVars>>
        /\ Schedule(n, Rest(m, n), Nothing, fl)
    BY DEF recvBadData
  <1>3. c \in Chunk
    BY <1>2, DataFacts
  <1> HIDE DEF c
  <1> USE DEF peerVars, diskVars, countVars
  <1>4. RestTypes'
    BY <1>1, <1>2, <1>3 DEF RestTypes
  <1>5. Elsewhere(n) /\ \A k \in Node : store[k] \subseteq store'[k]
    BY <1>1, <1>2, <1>3 DEF Elsewhere, RestTypes
  <1>6. KnownInv'
    BY <1>2 DEF TransferInv, KnownInv, Attached
  <1>7. DiskInv'
    BY <1>2 DEF TransferInv, DiskInv
  <1>8. fl \in Flight /\ fl[c] = NoPeer /\ \A x \in Chunk : fl[x] \in {inFlight[n][x], NoPeer}
    BY <1>1, <1>3 DEF Flight
  <1>9. SoundFlight(n, fl)
    <2>1. sessions'[n] \in Seq(Node)
      BY <1>4 DEF RestTypes
    <2>2. \A x \in Chunk \ {c} : bad'[n][x] = bad[n][x]
      BY <1>1, <1>2, <1>3 DEF RestTypes
    <2>3. \A x \in Chunk \ {c} : Sources(n, x)' = Sources(n, x)
      BY <1>2, <2>2 DEF Sources, Attached
    <2>4. \A x \in Busy(fl) : x \in Chunk \ {c}
      BY <1>8 DEF Busy
    <2> HIDE DEF fl
    <2> QED
      BY <1>2, <1>8, <2>1, <2>3, <2>4, FreedFlight
  <1>10. /\ Rest(m, n) \in Channels
         /\ \A p, q \in Node : Range(Rest(m, n)[<<p, q>>]) \subseteq Range(chan[<<p, q>>])
    BY <1>1, <1>2, ReceivesFacts DEF Receives
  <1> HIDE DEF fl
  <1> QED
    BY <1>1, <1>2, <1>4, <1>5, <1>6, <1>7, <1>8, <1>9, <1>10, NothingFacts, ScheduledStep

LEMMA RecvGoodDataKeepsInv ==
    ASSUME TransferInv, NEW n \in Node, NEW m \in Node, recvGoodData(n, m)
    PROVE  TransferInv'
  <1> DEFINE c == CHOOSE x \in Head1(m, n).chunks : TRUE
             fl == [inFlight[n] EXCEPT ![c] = NoPeer]
             first == ToAll(n, <<encHavePiece(c)>>)
  <1>1. /\ chan \in Channels /\ inFlight[n] \in Flight /\ RestTypes
    BY TypeParts DEF TransferInv
  <1>2. /\ Receives(m, n, "CHUNK_DATA") /\ active[n]
        /\ store' = [store EXCEPT ![n] = @ \cup {c}]
        /\ damaged' = [damaged EXCEPT ![n] = @ \ {c}]
        /\ need' = [need EXCEPT ![n] = @ \ {c}]
        /\ active' = [active EXCEPT ![n] = need'[n] # {}]
        /\ UNCHANGED <<live, peerVars, manifest, index, countVars>>
        /\ bad' = [bad EXCEPT ![n] = [x \in Chunk |-> IF need'[n] = {} THEN {} ELSE @[x]]]
        /\ outcome' = [outcome EXCEPT ![n] = IF need'[n] = {} THEN assemble(n) ELSE @]
        /\ Schedule(n, Rest(m, n), first, fl)
    BY DEF recvGoodData, putChunk
  <1>3. c \in Chunk
    BY <1>2, DataFacts
  <1> HIDE DEF c
  <1> USE DEF peerVars, countVars
  <1>4. /\ \A k \in Node : store'[k] = IF k = n THEN store[n] \cup {c} ELSE store[k]
        /\ \A k \in Node : damaged'[k] = IF k = n THEN damaged[n] \ {c} ELSE damaged[k]
        /\ need'[n] = need[n] \ {c}
        /\ active'[n] = (need'[n] # {})
        /\ outcome'[n] = IF need'[n] = {} THEN assemble(n) ELSE outcome[n]
        /\ \A k \in Node \ {n} : outcome'[k] = outcome[k]
    BY <1>1, <1>2 DEF RestTypes
  <1>5. RestTypes'
    <2>1. assemble(n) \in {"match", "failed"}
      BY DEF assemble
    <2> QED
      BY <1>1, <1>2, <1>3, <2>1 DEF RestTypes
  <1>6. Elsewhere(n)
    BY <1>1, <1>2 DEF Elsewhere, RestTypes
  <1>7. \A k \in Node : store[k] \subseteq store'[k]
    BY <1>4
  <1>8. KnownInv'
    BY <1>2, <1>7 DEF TransferInv, KnownInv, Attached
  <1>9. DiskInv'
    <2>1. \A k \in Node : damaged'[k] \subseteq Damaged[k]
      BY <1>4 DEF TransferInv, DiskInv
    <2>2. Chunk \ store'[n] \subseteq need'[n]
      BY <1>2, <1>4 DEF TransferInv, DiskInv
    <2>3. outcome'[n] = "failed" => Damaged[n] # {}
      <3>1. store'[n] \subseteq Chunk
        BY <1>5 DEF RestTypes
      <3>2. CASE need'[n] = {} /\ assemble(n) = "failed"
        <4>1. store'[n] = Chunk
          BY <2>2, <3>1, <3>2
        <4>2. damaged'[n] # {}
          BY <3>2, <4>1 DEF assemble
        <4> QED
          BY <2>1, <4>2
      <3>3. CASE need'[n] # {}
        BY <1>4, <3>3 DEF TransferInv, DiskInv
      <3> QED
        BY <1>4, <3>2, <3>3
    <2>4. \A k \in Node \ {n} : /\ active'[k] => Chunk \ store'[k] \subseteq need'[k]
                                /\ outcome'[k] = "failed" => Damaged[k] # {}
      BY <1>4, <1>6 DEF TransferInv, DiskInv, Elsewhere
    <2> QED
      BY <2>1, <2>2, <2>3, <2>4 DEF DiskInv
  <1>10. fl \in Flight /\ fl[c] = NoPeer /\ \A x \in Chunk : fl[x] \in {inFlight[n][x], NoPeer}
    BY <1>1, <1>3 DEF Flight
  <1>11. active'[n] => SoundFlight(n, fl)
    <2> SUFFICES ASSUME active'[n] PROVE SoundFlight(n, fl)
      OBVIOUS
    <2>1. sessions'[n] \in Seq(Node)
      BY <1>5 DEF RestTypes
    <2>2. \A x \in Chunk : bad'[n][x] = bad[n][x]
      BY <1>1, <1>2, <1>4 DEF RestTypes
    <2>3. \A x \in Chunk : Sources(n, x)' = Sources(n, x)
      BY <1>2, <2>2 DEF Sources, Attached
    <2>4. \A x \in Busy(fl) : x \in Chunk /\ x # c
      BY <1>10 DEF Busy
    <2> HIDE DEF fl
    <2> QED
      BY <1>2, <1>4, <1>10, <2>1, <2>3, <2>4, FreedFlight
  <1>12. /\ Rest(m, n) \in Channels
         /\ \A p, q \in Node : Range(Rest(m, n)[<<p, q>>]) \subseteq Range(chan[<<p, q>>])
    BY <1>1, <1>2, ReceivesFacts DEF Receives
  <1>13. first \in Sends /\ \A q \in Node : \A f \in Range(first[q]) : MessageOK(n, q, f)'
    <2>1. /\ encHavePiece(c) \in Message
          /\ \A q \in Node : \A f : f = encHavePiece(c) => MessageOK(n, q, f)'
      BY <1>3, <1>4 DEF encHavePiece, Msg, Message, MessageOK
    <2>2. <<encHavePiece(c)>> \in Seq(Message) /\ Range(<<encHavePiece(c)>>) = {encHavePiece(c)}
      BY <2>1, RangeOne
    <2>3. /\ first \in Sends
          /\ \A q \in Node : Range(first[q]) \subseteq Range(<<encHavePiece(c)>>)
      BY <2>2, ToAllFacts
    <2> QED
      BY <2>1, <2>2, <2>3
  <1> HIDE DEF fl, first
  <1> QED
    BY <1>2, <1>5, <1>6, <1>7, <1>8, <1>9, <1>10, <1>11, <1>12, <1>13, ScheduledStep

LEMMA DownloadKeepsInv ==
    ASSUME TransferInv, NEW n \in Node, download(n)
    PROVE  TransferInv'
  <1> DEFINE missing == Chunk \ store[n]
             first == ToAll(n, <<encHave(store[n])>>)
  <1>1. /\ chan \in Channels /\ RestTypes
    BY TypeParts DEF TransferInv
  <1>2. /\ downloads' = [downloads EXCEPT ![n] = @ + 1]
        /\ manifest' = [manifest EXCEPT ![n] = TRUE]
        /\ index' = [index EXCEPT ![n] = TRUE]
        /\ active' = [active EXCEPT ![n] = missing # {}]
        /\ need' = [need EXCEPT ![n] = missing]
        /\ bad' = [bad EXCEPT ![n] = [c \in Chunk |-> {}]]
        /\ UNCHANGED <<live, peerVars, store, damaged, timeouts, breaks, restarts>>
        /\ outcome' = [outcome EXCEPT ![n] = IF missing = {} THEN assemble(n) ELSE "none"]
        /\ Schedule(n, chan, first, Idle)
    BY DEF download
  <1> USE DEF peerVars
  <1>3. RestTypes'
    <2>1. assemble(n) \in {"match", "failed"}
      BY DEF assemble
    <2> QED
      BY <1>1, <1>2, <2>1 DEF RestTypes
  <1>4. Elsewhere(n) /\ \A k \in Node : store[k] \subseteq store'[k]
    BY <1>1, <1>2 DEF Elsewhere, RestTypes
  <1>5. KnownInv'
    BY <1>2 DEF TransferInv, KnownInv, Attached
  <1>6. DiskInv'
    <2>1. \A k \in Node : damaged'[k] \subseteq Damaged[k]
      BY <1>2 DEF TransferInv, DiskInv
    <2>2. /\ Chunk \ store'[n] \subseteq need'[n]
          /\ outcome'[n] = IF missing = {} THEN assemble(n) ELSE "none"
      BY <1>1, <1>2 DEF RestTypes
    <2>3. outcome'[n] = "failed" => Damaged[n] # {}
      <3>1. store[n] \subseteq Chunk /\ store' = store
        BY <1>1, <1>2 DEF RestTypes
      <3>2. CASE missing = {}
        BY <2>1, <2>2, <3>1, <3>2 DEF assemble
      <3>3. CASE missing # {}
        BY <2>2, <3>3
      <3> QED
        BY <3>2, <3>3
    <2>4. \A k \in Node \ {n} : /\ active'[k] => Chunk \ store'[k] \subseteq need'[k]
                                /\ outcome'[k] = "failed" => Damaged[k] # {}
      BY <1>1, <1>2 DEF TransferInv, DiskInv, RestTypes
    <2> QED
      BY <2>1, <2>2, <2>3, <2>4 DEF DiskInv
  <1>7. Idle \in Flight /\ SoundFlight(n, Idle)
    <2>1. Idle \in Flight /\ Busy(Idle) = {}
      BY DEF Idle, Flight, Busy
    <2>2. Cardinality(Busy(Idle)) = 0
      BY <2>1, FS_EmptySet
    <2> QED
      BY <2>1, <2>2, ParallelIsNumber DEF SoundFlight
  <1>8. first \in Sends /\ \A q \in Node : \A f \in Range(first[q]) : MessageOK(n, q, f)'
    <2>1. encHave(store[n]) \in Message
      BY <1>1 DEF encHave, Msg, Message, RestTypes
    <2>2. \A q \in Node : \A f : f = encHave(store[n]) => MessageOK(n, q, f)'
      BY <1>2 DEF encHave, Msg, MessageOK
    <2>3. <<encHave(store[n])>> \in Seq(Message) /\ Range(<<encHave(store[n])>>) = {encHave(store[n])}
      BY <2>1, RangeOne
    <2>4. /\ first \in Sends
          /\ \A q \in Node : Range(first[q]) \subseteq Range(<<encHave(store[n])>>)
      BY <2>3, ToAllFacts
    <2> QED
      BY <2>2, <2>3, <2>4
  <1> HIDE DEF first
  <1> QED
    BY <1>1, <1>2, <1>3, <1>4, <1>5, <1>6, <1>7, <1>8, ScheduledStep

(* A step that leaves peers and downloads alone keeps the invariant when its *)
(* new messages are true.                                                    *)
LEMMA SteadyStep ==
    ASSUME TransferInv, RestTypes', chan' \in Channels,
           UNCHANGED <<peerVars, downVars, inFlight>>,
           \A k \in Node : store[k] \subseteq store'[k],
           \A k \in Node : damaged'[k] \subseteq damaged[k],
           UNCHANGED outcome,
           \A p, q \in Node : {p, q} \in live' => {p, q} \in live \/ have[p][q] = {},
           \A p, q \in Node : \A f \in Range(chan'[<<p, q>>]) :
              /\ f \in Range(chan[<<p, q>>]) \/ ({p, q} \in live /\ MessageOK(p, q, f)')
              /\ {p, q} \in live => {p, q} \in live'
    PROVE  TransferInv'
  <1> USE DEF peerVars, downVars
  <1>1. TypeOK'
    <2>1. inFlight' \in [Node -> Flight]
      BY TypeParts DEF TransferInv
    <2> QED
      BY <2>1, TypeParts
  <1>2. FlightInv'
    BY KeptTables DEF TransferInv
  <1>3. KnownInv'
    <2>1. UNCHANGED have /\ \A k : Attached(k)' = Attached(k)
      BY DEF Attached
    <2>2. ASSUME NEW k \in Node, NEW q \in Node
          PROVE  /\ {k, q} \in live' => have[k][q] \subseteq store'[q]
                 /\ q \notin Attached(k) => have[k][q] = {}
      <3>1. /\ {k, q} \in live => have[k][q] \subseteq store[q]
            /\ q \notin Attached(k) => have[k][q] = {}
        BY DEF TransferInv, KnownInv
      <3>2. store[q] \subseteq store'[q]
        OBVIOUS
      <3>3. {k, q} \in live' => {k, q} \in live \/ have[k][q] = {}
        OBVIOUS
      <3> QED
        BY <3>1, <3>2, <3>3
    <2> QED
      BY <2>1, <2>2 DEF KnownInv
  <1>4. ChannelInv'
    BY ChannelStep DEF TransferInv
  <1>5. DiskInv'
    BY DEF TransferInv, DiskInv
  <1> QED
    BY <1>1, <1>2, <1>3, <1>4, <1>5 DEF TransferInv

(* The steps that only change the links and drop or consume messages. *)
LEMMA QuietStep ==
    ASSUME TransferInv, live' \subseteq Link, chan' \in Channels,
           manifest' \in [Node -> BOOLEAN], index' \in [Node -> BOOLEAN],
           breaks' \in Nat,
           UNCHANGED <<peerVars, store, damaged, downVars, inFlight, outcome,
                       downloads, timeouts, restarts>>,
           \A p, q \in Node : {p, q} \in live' => {p, q} \in live \/ have[p][q] = {},
           \A p, q \in Node : \A f \in Range(chan'[<<p, q>>]) :
              /\ f \in Range(chan[<<p, q>>])
              /\ {p, q} \in live => {p, q} \in live'
    PROVE  TransferInv'
  <1>1. RestTypes
    BY TypeParts DEF TransferInv
  <1>2. RestTypes'
    BY <1>1 DEF RestTypes, peerVars, downVars
  <1> QED
    BY <1>2, SteadyStep

LEMMA ConnectKeepsInv ==
    ASSUME TransferInv, NEW n \in Node, NEW m \in Node, Connect(m, n) \/ Break(m, n)
    PROVE  TransferInv'
  <1>1. chan \in Channels /\ RestTypes
    BY TypeParts DEF TransferInv
  <1>2. CASE Connect(m, n)
    <2>1. /\ live' = live \cup {{m, n}} /\ {m, n} \in Link
          /\ m \notin Attached(n) /\ n \notin Attached(m)
          /\ UNCHANGED <<chan, peerVars, manifest, index, store, damaged, downVars,
                         inFlight, outcome, downloads, timeouts, breaks, restarts>>
      BY <1>2 DEF Connect, diskVars, countVars
    <2>2. /\ live' \subseteq Link /\ chan' \in Channels
          /\ manifest' \in [Node -> BOOLEAN] /\ index' \in [Node -> BOOLEAN]
          /\ breaks' \in Nat
      BY <1>1, <2>1 DEF RestTypes
    <2>3. \A p, q \in Node : {p, q} \in live' => {p, q} \in live \/ have[p][q] = {}
      <3>1. have[m][n] = {} /\ have[n][m] = {}
        BY <2>1 DEF TransferInv, KnownInv
      <3> QED
        BY <2>1, <3>1
    <2> QED
      BY <2>1, <2>2, <2>3, QuietStep
  <1>3. CASE Break(m, n)
    <2>1. /\ live' = live \ {{m, n}} /\ breaks' = breaks + 1
          /\ chan' = Cleared(chan, {{m, n}})
          /\ UNCHANGED <<peerVars, manifest, index, store, damaged, downVars,
                         inFlight, outcome, downloads, timeouts, restarts>>
      BY <1>3 DEF Break, diskVars, countVars
    <2>2. /\ live' \subseteq Link
          /\ manifest' \in [Node -> BOOLEAN] /\ index' \in [Node -> BOOLEAN]
          /\ breaks' \in Nat
      BY <1>1, <2>1 DEF RestTypes
    <2>3. /\ chan' \in Channels
          /\ \A p, q \in Node : \A f \in Range(chan'[<<p, q>>]) :
                /\ f \in Range(chan[<<p, q>>])
                /\ {p, q} \in live => {p, q} \in live'
      BY <1>1, <2>1, ClearedFacts
    <2> QED
      BY <2>1, <2>2, <2>3, QuietStep
  <1> QED
    BY <1>2, <1>3

LEMMA RecvManifestKeepsInv ==
    ASSUME TransferInv, NEW n \in Node, NEW m \in Node,
           recvManifest(n, m) \/ dropData(n, m)
    PROVE  TransferInv'
  <1>1. chan \in Channels /\ RestTypes
    BY TypeParts DEF TransferInv
  <1>2. /\ chan[<<m, n>>] # <<>> /\ chan' = Rest(m, n)
        /\ manifest' \in {manifest, [manifest EXCEPT ![n] = TRUE]}
        /\ index' \in {index, [index EXCEPT ![n] = TRUE]}
        /\ UNCHANGED <<live, peerVars, store, damaged, downVars, inFlight, outcome,
                       downloads, timeouts, breaks, restarts>>
    BY DEF recvManifest, dropData, Receives, diskVars, countVars
  <1>3. /\ live' \subseteq Link /\ breaks' \in Nat
        /\ manifest' \in [Node -> BOOLEAN] /\ index' \in [Node -> BOOLEAN]
    BY <1>1, <1>2 DEF RestTypes
  <1>4. /\ chan' \in Channels
        /\ \A p, q \in Node : Range(chan'[<<p, q>>]) \subseteq Range(chan[<<p, q>>])
    BY <1>1, <1>2, ReceivesFacts
  <1> QED
    BY <1>2, <1>3, <1>4, QuietStep

LEMMA RecvHaveKeepsInv ==
    ASSUME TransferInv, NEW n \in Node, NEW m \in Node, recvHave(n, m)
    PROVE  TransferInv'
  <1>1. chan \in Channels /\ RestTypes
    BY TypeParts DEF TransferInv
  <1>2. m \in Attached(n) /\ chan[<<m, n>>] # <<>> /\ Head1(m, n).t = "HAVE"
    BY DEF recvHave, Receives
  <1>3. Head1(m, n) \in Range(chan[<<m, n>>])
    BY <1>1, <1>2, ReceivesFacts
  <1>4. Head1(m, n).chunks \in SUBSET store[m]
    BY <1>2, <1>3 DEF TransferInv, ChannelInv, MessageOK
  <1>5. CASE manifest[n] \/ index[n]
    <2>1. have' = [have EXCEPT ![n][m] = @ \cup Head1(m, n).chunks]
      BY <1>5 DEF recvHave
    <2>2. /\ UNCHANGED <<live, sessions, manifest, diskVars, downVars, outcome, countVars>>
          /\ Schedule(n, Rest(m, n), Nothing, inFlight[n])
      BY <1>5 DEF recvHave
    <2> QED
      BY <1>2, <1>4, <2>1, <2>2, LearnsKeepsInv
  <1>6. CASE ~(manifest[n] \/ index[n])
    <2>1. /\ chan' = Rest(m, n) /\ UNCHANGED inFlight
          /\ UNCHANGED <<live, sessions, manifest, index, store, damaged, downVars, outcome,
                         downloads, timeouts, breaks, restarts>>
      BY <1>6 DEF recvHave, diskVars, countVars
    <2>2. have' = have
      BY <1>1, <1>6 DEF recvHave, RestTypes
    <2>3. /\ live' \subseteq Link /\ breaks' \in Nat
          /\ manifest' \in [Node -> BOOLEAN] /\ index' \in [Node -> BOOLEAN]
      BY <1>1, <2>1 DEF RestTypes
    <2>4. /\ chan' \in Channels
          /\ \A p, q \in Node : Range(chan'[<<p, q>>]) \subseteq Range(chan[<<p, q>>])
      BY <1>1, <1>2, <2>1, ReceivesFacts
    <2> QED
      BY <2>1, <2>2, <2>3, <2>4, QuietStep DEF peerVars
  <1> QED
    BY <1>5, <1>6

LEMMA SeedKeepsInv ==
    ASSUME TransferInv, NEW n \in Node, seed(n)
    PROVE  TransferInv'
  <1> DEFINE msgs == <<encManifest, encHave(Chunk)>>
             out == ToAll(n, msgs)
  <1>1. chan \in Channels /\ RestTypes
    BY TypeParts DEF TransferInv
  <1>2. /\ manifest' = [manifest EXCEPT ![n] = TRUE]
        /\ index' = [index EXCEPT ![n] = TRUE]
        /\ store' = [store EXCEPT ![n] = Chunk]
        /\ damaged' = [damaged EXCEPT ![n] = {}]
        /\ Emit(n, chan, out)
        /\ UNCHANGED <<live, peerVars, downVars, inFlight, outcome, countVars>>
    BY DEF seed
  <1>3. RestTypes'
    BY <1>1, <1>2 DEF RestTypes, peerVars, downVars, countVars
  <1>4. /\ \A k \in Node : store[k] \subseteq store'[k]
        /\ \A k \in Node : damaged'[k] \subseteq damaged[k]
        /\ store'[n] = Chunk
    BY <1>1, <1>2 DEF RestTypes
  <1>5. /\ encManifest \in Message /\ encHave(Chunk) \in Message
        /\ \A q \in Node : MessageOK(n, q, encManifest)' /\ MessageOK(n, q, encHave(Chunk))'
    BY <1>4 DEF encManifest, encHave, Msg, Message, MessageOK
  <1>6. msgs \in Seq(Message) /\ Range(msgs) \subseteq {encManifest, encHave(Chunk)}
    BY <1>5 DEF Range
  <1> HIDE DEF msgs
  <1>7. out \in Sends /\ \A q \in Node : Range(out[q]) \subseteq Range(msgs)
    BY <1>6, ToAllFacts
  <1> HIDE DEF out
  <1>8. /\ chan' \in Channels
        /\ \A p, q \in Node : Range(chan'[<<p, q>>]) \subseteq
              Range(chan[<<p, q>>]) \cup (IF p = n /\ {p, q} \in live THEN Range(out[q]) ELSE {})
    BY <1>1, <1>2, <1>7, EmitFacts
  <1>9. \A p, q \in Node : \A f \in Range(chan'[<<p, q>>]) :
           f \in Range(chan[<<p, q>>]) \/ ({p, q} \in live /\ MessageOK(p, q, f)')
    BY <1>5, <1>6, <1>7, <1>8
  <1> QED
    BY <1>2, <1>3, <1>4, <1>8, <1>9, SteadyStep

LEMMA ChunkDataFacts ==
    ASSUME NEW c \in Chunk, NEW ok \in BOOLEAN, NEW n, NEW m
    PROVE  /\ encChunkData(c, ok) \in Message
           /\ \A f : f = encChunkData(c, ok) => MessageOK(n, m, f)'
  BY DEF encChunkData, Msg, Message, MessageOK

LEMMA ServeChunkKeepsInv ==
    ASSUME TransferInv, NEW n \in Node, NEW m \in Node, serveChunk(n, m)
    PROVE  TransferInv'
  <1> DEFINE c == CHOOSE x \in Head1(m, n).chunks : TRUE
             msgs == IF c \in store[n] THEN <<encChunkData(c, c \notin damaged[n])>> ELSE <<>>
             out == To(m, msgs)
  <1>1. chan \in Channels /\ RestTypes
    BY TypeParts DEF TransferInv
  <1>2. /\ chan[<<m, n>>] # <<>>
        /\ \/ Emit(n, Rest(m, n), out) /\ live' = live
           \/ live' = live \ {{m, n}} /\ chan' = Cleared(chan, {{m, n}})
        /\ UNCHANGED <<peerVars, manifest, diskVars, downVars, inFlight, outcome, countVars>>
    BY DEF serveChunk, Receives
  <1> HIDE DEF c
  <1>3. RestTypes'
    BY <1>1, <1>2 DEF RestTypes, peerVars, downVars, diskVars, countVars
  <1>4. CASE live' = live \ {{m, n}} /\ chan' = Cleared(chan, {{m, n}})
    <2>1. /\ chan' \in Channels
          /\ \A p, q \in Node : \A f \in Range(chan'[<<p, q>>]) :
                /\ f \in Range(chan[<<p, q>>])
                /\ {p, q} \in live => {p, q} \in live'
      BY <1>1, <1>4, ClearedFacts
    <2> QED
      BY <1>2, <1>3, <1>4, <2>1, SteadyStep DEF diskVars
  <1>5. CASE Emit(n, Rest(m, n), out) /\ live' = live
    <2>1. ASSUME c \in store[n]
          PROVE  /\ encChunkData(c, c \notin damaged[n]) \in Message
                 /\ \A f : f = encChunkData(c, c \notin damaged[n]) => MessageOK(n, m, f)'
      <3>1. c \in Chunk
        BY <1>1, <2>1 DEF RestTypes
      <3>2. (c \notin damaged[n]) \in BOOLEAN
        OBVIOUS
      <3> QED
        BY <3>1, <3>2, ChunkDataFacts
    <2>2. msgs \in Seq(Message) /\ \A f \in Range(msgs) : MessageOK(n, m, f)'
      <3>1. CASE c \in store[n]
        BY <2>1, <3>1, RangeOne
      <3>2. CASE c \notin store[n]
        BY <3>2 DEF Range
      <3> QED
        BY <3>1, <3>2
    <2> HIDE DEF msgs
    <2>3. /\ out \in Sends
          /\ \A q \in Node : \A f \in Range(out[q]) : q = m /\ f \in Range(msgs)
      BY <2>2, ToFacts
    <2> HIDE DEF out
    <2>4. /\ Rest(m, n) \in Channels
          /\ \A p, q \in Node : Range(Rest(m, n)[<<p, q>>]) \subseteq Range(chan[<<p, q>>])
      BY <1>1, <1>2, ReceivesFacts
    <2>5. /\ chan' \in Channels
          /\ \A p, q \in Node : Range(chan'[<<p, q>>]) \subseteq
                Range(Rest(m, n)[<<p, q>>])
                \cup (IF p = n /\ {p, q} \in live THEN Range(out[q]) ELSE {})
      BY <1>5, <2>3, <2>4, EmitFacts
    <2>6. ASSUME NEW p \in Node, NEW q \in Node, NEW f \in Range(chan'[<<p, q>>]),
                 f \notin Range(chan[<<p, q>>])
          PROVE  {p, q} \in live /\ MessageOK(p, q, f)'
      <3>1. f \notin Range(Rest(m, n)[<<p, q>>])
        BY <2>4, <2>6
      <3>2. p = n /\ {p, q} \in live /\ f \in Range(out[q])
        BY <2>5, <3>1
      <3> QED
        BY <2>2, <2>3, <3>2
    <2> QED
      BY <1>2, <1>3, <1>5, <2>5, <2>6, SteadyStep DEF diskVars
  <1> QED
    BY <1>2, <1>4, <1>5

LEMMA AttachSessionKeepsInv ==
    ASSUME TransferInv, NEW n \in Node, NEW m \in Node, attachSession(n, m)
    PROVE  TransferInv'
  <1> DEFINE a == IF index[n] /\ manifest[n] THEN <<encManifest>> ELSE <<>>
             b == IF index[n] THEN <<encHave(store[n])>> ELSE <<>>
             out == To(m, a \o b)
  <1>1. chan \in Channels /\ RestTypes /\ inFlight \in [Node -> Flight]
    BY TypeParts DEF TransferInv
  <1>2. /\ m \notin Attached(n)
        /\ sessions' = [sessions EXCEPT ![n] = Append(@, m)]
        /\ Emit(n, chan, out)
        /\ UNCHANGED <<live, have, manifest, diskVars, downVars, inFlight, outcome, countVars>>
    BY DEF attachSession
  <1> USE DEF diskVars, downVars, countVars
  <1>3. /\ sessions[n] \in Seq(Node) /\ Append(sessions[n], m) \in Seq(Node)
        /\ sessions'[n] = Append(sessions[n], m)
    BY <1>1, <1>2 DEF RestTypes
  <1>4. RestTypes'
    BY <1>1, <1>2, <1>3 DEF RestTypes
  <1>5. Attached(n)' = Attached(n) \cup {m}
    <2> DEFINE s == sessions[n]
    <2>1. /\ s \in Seq(Node) /\ Len(s) \in Nat /\ DOMAIN s = 1..Len(s)
          /\ Append(s, m) \in Seq(Node) /\ Len(Append(s, m)) = Len(s) + 1
          /\ DOMAIN Append(s, m) = 1..Len(s) + 1
          /\ \A i \in 1..Len(s) : Append(s, m)[i] = s[i]
          /\ Append(s, m)[Len(s) + 1] = m
      BY <1>3, LenProperties, AppendProperties
    <2> HIDE DEF s
    <2>2. \A i \in 1..Len(s) + 1 : i \in 1..Len(s) \/ i = Len(s) + 1
      BY <2>1
    <2>3. \A i \in 1..Len(s) : i \in 1..Len(s) + 1
      BY <2>1
    <2>4. Len(s) + 1 \in 1..Len(s) + 1
      BY <2>1
    <2>5. {Append(s, m)[i] : i \in DOMAIN Append(s, m)} = {s[i] : i \in DOMAIN s} \cup {m}
      BY <2>1, <2>2, <2>3, <2>4
    <2> QED
      BY <1>3, <2>5 DEF Attached, s
  <1>6. \A k \in Node \ {n} : sessions'[k] = sessions[k]
    BY <1>1, <1>2 DEF RestTypes
  <1>7. have[n][m] = {}
    BY <1>2 DEF TransferInv, KnownInv
  <1>8. FlightInv'
    <2>1. \A c : Sources(n, c)' = Sources(n, c)
      BY <1>2, <1>5, <1>7 DEF Sources
    <2>2. TableOK(n) /\ UNCHANGED <<active, need, inFlight>>
      BY <1>2 DEF TransferInv, FlightInv
    <2>3. TableOK(n)'
      BY <2>1, <2>2 DEF TableOK, Idle, Busy
    <2>4. ASSUME NEW k \in Node, k # n PROVE TableOK(k)'
      BY <1>2, <1>6, <2>4, KeptTable DEF TransferInv, FlightInv
    <2> QED
      BY <2>3, <2>4 DEF FlightInv
  <1>9. KnownInv'
    <2>1. \A k \in Node : Attached(k) \subseteq Attached(k)'
      <3>1. \A k \in Node \ {n} : Attached(k)' = Attached(k)
        BY <1>6 DEF Attached
      <3> QED
        BY <1>5, <3>1
    <2> QED
      BY <1>2, <2>1 DEF TransferInv, KnownInv
  <1>10. DiskInv'
    BY <1>2 DEF TransferInv, DiskInv
  <1>11. out \in Sends /\ \A q \in Node : \A f \in Range(out[q]) : MessageOK(n, q, f)'
    <2>1. encManifest \in Message /\ encHave(store[n]) \in Message
      BY <1>1 DEF encManifest, encHave, Msg, Message, RestTypes
    <2>2. <<>> \in Seq(Message) /\ Range(<<>>) = {}
      BY DEF Range
    <2>3. a \in Seq(Message) /\ Range(a) \subseteq {encManifest}
      BY <2>1, <2>2, RangeOne
    <2>4. b \in Seq(Message) /\ Range(b) \subseteq {encHave(store[n])}
      BY <2>1, <2>2, RangeOne
    <2>5. \A q \in Node : \A f : f \in {encManifest, encHave(store[n])} => MessageOK(n, q, f)'
      BY <1>2 DEF encManifest, encHave, Msg, MessageOK
    <2> HIDE DEF a, b
    <2>6. /\ a \o b \in Seq(Message)
          /\ Range(a \o b) \subseteq {encManifest, encHave(store[n])}
      BY <2>3, <2>4, RangeConcat
    <2>7. out \in Sends /\ \A q \in Node : \A f \in Range(out[q]) : f \in Range(a \o b)
      BY <2>6, ToFacts
    <2> QED
      BY <2>5, <2>6, <2>7
  <1> HIDE DEF out
  <1>12. /\ chan' \in Channels
         /\ \A p, q \in Node : Range(chan'[<<p, q>>]) \subseteq
               Range(chan[<<p, q>>]) \cup (IF p = n /\ {p, q} \in live THEN Range(out[q]) ELSE {})
    BY <1>1, <1>2, <1>11, EmitFacts
  <1>13. TypeOK'
    BY <1>1, <1>2, <1>4, <1>12, TypeParts
  <1>14. ChannelInv'
    <2>1. \A k \in Node : store[k] \subseteq store'[k]
      BY <1>2
    <2>2. \A p, q \in Node : \A f \in Range(chan'[<<p, q>>]) :
             f \in Range(chan[<<p, q>>]) \/ ({p, q} \in live /\ MessageOK(p, q, f)')
      <3> SUFFICES ASSUME NEW p \in Node, NEW q \in Node, NEW f \in Range(chan'[<<p, q>>]),
                          f \notin Range(chan[<<p, q>>])
                   PROVE  {p, q} \in live /\ MessageOK(p, q, f)'
        OBVIOUS
      <3>1. p = n /\ {p, q} \in live /\ f \in Range(out[q])
        BY <1>12
      <3> QED
        BY <1>11, <3>1
    <2>3. live' = live
      BY <1>2
    <2> QED
      BY <2>1, <2>2, <2>3, ChannelStep DEF TransferInv
  <1> QED
    BY <1>8, <1>9, <1>10, <1>13, <1>14 DEF TransferInv

LEMMA RestartKeepsInv ==
    ASSUME TransferInv, NEW n \in Node, Restart(n)
    PROVE  TransferInv'
  <1> DEFINE lost == {l \in live : n \in l}
  <1>1. chan \in Channels /\ RestTypes /\ inFlight \in [Node -> Flight]
    BY TypeParts DEF TransferInv
  <1>2. /\ restarts' = restarts + 1
        /\ live' = live \ lost
        /\ chan' = Cleared(chan, lost)
        /\ sessions' = [sessions EXCEPT ![n] = <<>>]
        /\ have' = [have EXCEPT ![n] = [m \in Node |-> {}]]
        /\ manifest' = [manifest EXCEPT ![n] = FALSE]
        /\ active' = [active EXCEPT ![n] = FALSE]
        /\ need' = [need EXCEPT ![n] = {}]
        /\ inFlight' = [inFlight EXCEPT ![n] = Idle]
        /\ bad' = [bad EXCEPT ![n] = [c \in Chunk |-> {}]]
        /\ outcome' = [outcome EXCEPT ![n] = "none"]
        /\ \/ UNCHANGED <<index, store, damaged>>
           \/ /\ index' = [index EXCEPT ![n] = FALSE]
              /\ store' = [store EXCEPT ![n] = {}]
              /\ damaged' = [damaged EXCEPT ![n] = {}]
        /\ UNCHANGED <<downloads, timeouts, breaks>>
    BY DEF Restart, diskVars
  <1>3. RestTypes'
    <2>1. /\ index' \in [Node -> BOOLEAN] /\ store' \in [Node -> SUBSET Chunk]
          /\ damaged' \in [Node -> SUBSET Chunk]
      BY <1>1, <1>2 DEF RestTypes
    <2>2. /\ sessions' \in [Node -> Seq(Node)]
          /\ have' \in [Node -> [Node -> SUBSET Chunk]]
          /\ bad' \in [Node -> [Chunk -> SUBSET Node]]
      BY <1>1, <1>2 DEF RestTypes
    <2> QED
      BY <1>1, <1>2, <2>1, <2>2 DEF RestTypes
  <1>4. inFlight' \in [Node -> Flight] /\ inFlight'[n] = Idle
    <2>1. Idle \in Flight
      BY DEF Idle, Flight
    <2> QED
      BY <1>1, <1>2, <2>1
  <1>5. /\ chan' \in Channels
        /\ \A p, q \in Node : \A f \in Range(chan'[<<p, q>>]) :
              f \in Range(chan[<<p, q>>]) /\ {p, q} \notin lost
    BY <1>1, <1>2, ClearedFacts
  <1>6. Elsewhere(n) /\ \A k \in Node \ {n} : inFlight'[k] = inFlight[k]
    BY <1>1, <1>2 DEF Elsewhere, RestTypes
  <1>7. ~active'[n] /\ \A q \in Node : have'[n][q] = {}
    BY <1>1, <1>2 DEF RestTypes
  <1>8. FlightInv'
    <2>1. TableOK(n)'
      BY <1>4, <1>7 DEF TableOK, Idle
    <2>2. ASSUME NEW k \in Node, k # n PROVE TableOK(k)'
      BY <1>6, <2>2, KeptTable DEF TransferInv, FlightInv, Elsewhere
    <2> QED
      BY <2>1, <2>2 DEF FlightInv
  <1>9. /\ \A k \in Node \ {n} : store'[k] = store[k]
        /\ \A k \in Node : damaged'[k] \subseteq damaged[k]
    BY <1>1, <1>2 DEF RestTypes
  <1>10. KnownInv'
    <2>1. ASSUME NEW k \in Node, k # n, NEW q \in Node
          PROVE  /\ {k, q} \in live' => have'[k][q] \subseteq store'[q]
                 /\ q \notin Attached(k)' => have'[k][q] = {}
      <3>1. {k, q} \in live' => {k, q} \in live /\ q # n
        BY <1>2
      <3> QED
        BY <1>6, <1>9, <2>1, <3>1 DEF TransferInv, KnownInv, Elsewhere, Attached
    <2> QED
      BY <1>7, <2>1 DEF KnownInv
  <1>11. ChannelInv'
    <2> SUFFICES ASSUME NEW p \in Node, NEW q \in Node, NEW f \in Range(chan'[<<p, q>>])
                 PROVE  {p, q} \in live' /\ MessageOK(p, q, f)'
      BY DEF ChannelInv
    <2>1. /\ {p, q} \in live /\ {p, q} \notin lost
          /\ MessageOK(p, q, f)
      BY <1>5 DEF TransferInv, ChannelInv
    <2>2. {p, q} \in live' /\ p # n /\ q # n
      BY <1>2, <2>1
    <2> QED
      BY <1>9, <2>1, <2>2 DEF MessageOK
  <1>12. DiskInv'
    BY <1>1, <1>2, <1>7, <1>9 DEF TransferInv, DiskInv, RestTypes
  <1> QED
    BY <1>3, <1>4, <1>5, <1>8, <1>10, <1>11, <1>12, TypeParts DEF TransferInv

LEMMA IdleKeepsInv == ASSUME TransferInv, UNCHANGED vars PROVE TransferInv'
  <1>1. chan \in Channels /\ RestTypes
    BY TypeParts DEF TransferInv
  <1>2. RestTypes' /\ chan' \in Channels
    BY <1>1 DEF vars, RestTypes
  <1> QED
    BY <1>2, SteadyStep DEF vars, peerVars, downVars

LEMMA NextKeepsInv == ASSUME TransferInv, [Next]_vars PROVE TransferInv'
  <1>1. CASE UNCHANGED vars
    BY <1>1, IdleKeepsInv
  <1>2. CASE Next
    <2>1. PICK n \in Node :
            \/ seed(n) \/ download(n) \/ tick(n) \/ Restart(n)
            \/ \E c \in Chunk : onTimeout(n, c)
            \/ \E m \in Node :
                 \/ Connect(m, n) \/ Break(m, n)
                 \/ attachSession(n, m) \/ onClose(n, m)
                 \/ Receive(n, m)
      BY <1>2 DEF Next
    <2>2. CASE seed(n) \/ download(n) \/ tick(n) \/ Restart(n)
      BY <2>2, SeedKeepsInv, DownloadKeepsInv, TickKeepsInv, RestartKeepsInv
    <2>3. CASE \E c \in Chunk : onTimeout(n, c)
      BY <2>3, OnTimeoutKeepsInv
    <2>4. CASE \E m \in Node : Connect(m, n) \/ Break(m, n) \/ attachSession(n, m)
                               \/ onClose(n, m)
      BY <2>4, ConnectKeepsInv, AttachSessionKeepsInv, OnCloseKeepsInv
    <2>5. CASE \E m \in Node : Receive(n, m)
      <3>1. PICK m \in Node : Receive(n, m)
        BY <2>5
      <3> QED
        BY <3>1, RecvManifestKeepsInv, RecvHaveKeepsInv, RecvHavePieceKeepsInv,
           ServeChunkKeepsInv, RecvBadDataKeepsInv, RecvGoodDataKeepsInv DEF Receive
    <2> QED
      BY <2>1, <2>2, <2>3, <2>4, <2>5
  <1> QED
    BY <1>1, <1>2

-----------------------------------------------------------------------------
(* Theorems *)

(* TransferInv holds in every reachable state of a swarm of any size. *)
THEOREM TransferInvariant == Spec => []TransferInv
  <1>1. Init => TransferInv
    BY StartInv
  <1>2. TransferInv /\ [Next]_vars => TransferInv'
    BY NextKeepsInv
  <1> QED
    BY <1>1, <1>2, PTL DEF Spec

(* The state of every FileNode, chunk store and channel has its type. *)
THEOREM TransferTypes == Spec => []TypeOK
  <1>1. TransferInv => TypeOK
    BY DEF TransferInv
  <1> QED
    BY <1>1, TransferInvariant, PTL

(* _schedule and the handlers that free requests (fileNode.js 160-254) never *)
(* leave a request to a peer that is gone, never announced the chunk or sent *)
(* it corrupted, nor more than Parallel, for any number of peers and chunks. *)
THEOREM RequestsSound == Spec => []InFlightSound
  <1>1. ASSUME TransferInv PROVE InFlightSound
    <2> SUFFICES ASSUME NEW n \in Node
                 PROVE  /\ Cardinality(Busy(inFlight[n])) <= Parallel
                        /\ \A c \in Busy(inFlight[n]) :
                              /\ active[n] /\ c \in need[n]
                              /\ inFlight[n][c] \in Attached(n)
                              /\ c \in have[n][inFlight[n][c]]
                              /\ inFlight[n][c] \notin bad[n][c]
      BY DEF InFlightSound
    <2>1. TableOK(n)
      BY <1>1 DEF TransferInv, FlightInv
    <2>2. CASE active[n]
      BY <2>1, <2>2 DEF TableOK, Sources
    <2>3. CASE ~active[n]
      <3>1. Busy(inFlight[n]) = {}
        BY <2>1, <2>3 DEF TableOK, Busy, Idle
      <3>2. Cardinality(Busy(inFlight[n])) = 0
        BY <3>1, FS_EmptySet
      <3> QED
        BY <3>1, <3>2, ParallelIsNumber
    <2> QED
      BY <2>2, <2>3
  <1> QED
    BY <1>1, TransferInvariant, PTL

(* Every handler that frees a request, learns of a source or loses one runs  *)
(* the scheduling pass: the 400 ms interval (fileNode.js 144) never finds    *)
(* work, for any number of peers, chunks and parallel requests.              *)
THEOREM TableNeverIdle == Spec => []NeverIdle
  <1>1. ASSUME TransferInv PROVE NeverIdle
    <2> SUFFICES ASSUME NEW n \in Node, active[n],
                        Cardinality(Busy(inFlight[n])) < Parallel,
                        NEW c \in need[n] \ Busy(inFlight[n]), NEW q \in Attached(n),
                        c \in have[n][q]
                 PROVE  q \in bad[n][c]
      BY DEF NeverIdle
    <2>1. Sources(n, c) = {}
      BY <1>1 DEF TransferInv, FlightInv, TableOK
    <2> QED
      BY <2>1 DEF Sources
  <1> QED
    BY <1>1, TransferInvariant, PTL

(* Between nodes that run this code a CHUNK_REQ always finds its chunk, even *)
(* across restarts that lose what a node had announced: dropping             *)
(* ACK_NOT_FOUND (fileNode.js 103-104) is harmless.                          *)
THEOREM RequestsAreServable == Spec => []RequestsServable
  <1>1. ASSUME TransferInv PROVE RequestsServable
    <2> SUFFICES ASSUME NEW n \in Node, NEW m \in Node
                 PROVE  /\ {n, m} \in live => have[n][m] \subseteq store[m]
                        /\ \A i \in DOMAIN chan[<<n, m>>] :
                              /\ chan[<<n, m>>][i].t = "CHUNK_REQ" =>
                                    chan[<<n, m>>][i].chunks \subseteq store[m]
                              /\ chan[<<n, m>>][i].t \in {"HAVE", "HAVE_PIECE"} =>
                                    chan[<<n, m>>][i].chunks \subseteq store[n]
      BY DEF RequestsServable
    <2>1. {n, m} \in live => have[n][m] \subseteq store[m]
      BY <1>1 DEF TransferInv, KnownInv
    <2>2. \A i \in DOMAIN chan[<<n, m>>] : MessageOK(n, m, chan[<<n, m>>][i])
      BY <1>1 DEF TransferInv, ChannelInv, Range
    <2> QED
      BY <2>1, <2>2 DEF MessageOK
  <1> QED
    BY <1>1, TransferInvariant, PTL

(* Damaged sources cost retries, never content: a download ends with another *)
(* file only when the node's own disk was damaged (fileNode.js 213-265).     *)
THEOREM DownloadsIntact == Spec => []DownloadIntact
  <1>1. TransferInv => DownloadIntact
    BY DEF TransferInv, DiskInv, DownloadIntact
  <1> QED
    BY <1>1, TransferInvariant, PTL
=============================================================================
