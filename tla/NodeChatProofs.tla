--------------------------- MODULE NodeChatProofs ---------------------------
(***************************************************************************)
(* What the chat screen shows and how far a thread can grow, for any       *)
(* number of peers, texts, requests under way and failures.                *)
(***************************************************************************)
EXTENDS NodeChat, FiniteSetTheorems, SequenceTheorems, TLAPS

ThreadEntry == [dir : {"in", "out", "ai"}, n : 1..MaxTexts, ask : BOOLEAN]
Question == [n : 1..MaxTexts, peer : Peer]
Request == [route : {"/msg", "/ask"}, n : 1..MaxTexts, peer : Peer, ask : BOOLEAN]
Fetch == [state : {"asked", "answered"}, of : Peer, alive : BOOLEAN, len : 0..(2 * MaxTexts)]

NodeTypes ==
    /\ noAi \in BOOLEAN
    /\ sessions \subseteq Peer /\ older \subseteq Twice
    /\ threads \in [Peer -> Seq(ThreadEntry)]
    /\ asks \subseteq Question /\ IsFiniteSet(asks)
    /\ posts \subseteq Request /\ IsFiniteSet(posts)
    /\ texts \in 0..MaxTexts /\ breaks \in 0..MaxBreaks

AppTypes ==
    /\ polls \subseteq Fetch
    /\ mounted \in BOOLEAN
    /\ peers \subseteq Peer
    /\ peer \in Peer \cup {NoPeer}
    /\ shown \in Copy(Peer) \cup {NoThread}

(* A text can still become two entries while its POST is under way, and one  *)
(* while its question is: no thread outgrows two entries for each text.      *)
Growth(p) == Len(threads[p]) + 2 * Cardinality(posts) + Cardinality(asks)

CountInv == \A p \in Peer : Growth(p) <= 2 * texts

(* The requests of the effect that is alive are for the peer selected. *)
AliveInv == \A r \in polls : r.alive => r.of = peer

ChatInv == NodeTypes /\ AppTypes /\ CountInv /\ AliveInv

LEMMA InitChat == Init => ChatInv
  <1> SUFFICES ASSUME Init PROVE ChatInv
    OBVIOUS
  <1>1. IsFiniteSet({}) /\ Cardinality({}) = 0
    BY FS_EmptySet
  <1>2. <<>> \in Seq(ThreadEntry) /\ Len(<<>>) = 0
    OBVIOUS
  <1>3. NodeTypes
    BY <1>1, <1>2, NodeChatAssumption DEF Init, NodeTypes
  <1>4. AppTypes /\ AliveInv
    BY DEF Init, AppTypes, AliveInv
  <1>5. CountInv
    BY <1>1, <1>2 DEF Init, CountInv, Growth
  <1> QED BY <1>3, <1>4, <1>5 DEF ChatInv

LEMMA Counts ==
  ASSUME NodeTypes
  PROVE  /\ Cardinality(posts) \in Nat /\ Cardinality(asks) \in Nat
         /\ texts \in Nat /\ texts <= MaxTexts /\ MaxTexts \in Nat
         /\ \A p \in Peer : threads[p] \in Seq(ThreadEntry) /\ Len(threads[p]) \in Nat
  BY FS_CardinalityType, NodeChatAssumption DEF NodeTypes

LEMMA EntryTypes ==
  \A n \in 1..MaxTexts :
      /\ Reply(n) \in ThreadEntry
      /\ \A dir \in {"in", "out"}, ask \in BOOLEAN : Entry(dir, n, ask) \in ThreadEntry
  BY DEF Reply, Entry, ThreadEntry

-----------------------------------------------------------------------------
(* Threads *)

LEMMA AddOne ==
  ASSUME NEW S, NEW x, IsFiniteSet(S)
  PROVE  /\ IsFiniteSet(S \cup {x})
         /\ Cardinality(S) \in Nat /\ Cardinality(S \cup {x}) \in Nat
         /\ Cardinality(S \cup {x}) <= Cardinality(S) + 1
  <1>1. Cardinality(S) \in Nat
    BY FS_CardinalityType
  <1>2. /\ IsFiniteSet(S \cup {x})
        /\ Cardinality(S \cup {x}) = IF x \in S THEN Cardinality(S) ELSE Cardinality(S) + 1
    BY FS_AddElement
  <1> QED BY <1>1, <1>2

(* What is appended is in the thread of p alone. *)
LEMMA SaysFacts ==
  ASSUME NodeTypes, NEW p \in Peer, NEW entries \in Seq(ThreadEntry), Says(p, entries)
  PROVE  /\ threads' \in [Peer -> Seq(ThreadEntry)]
         /\ Len(threads'[p]) = Len(threads[p]) + Len(entries)
         /\ \A q \in Peer : q # p => threads'[q] = threads[q]
  <1>1. threads \in [Peer -> Seq(ThreadEntry)]
    BY DEF NodeTypes
  <1>2. threads[p] \in Seq(ThreadEntry)
    BY <1>1
  <1>3. /\ threads[p] \o entries \in Seq(ThreadEntry)
        /\ Len(threads[p] \o entries) = Len(threads[p]) + Len(entries)
    BY <1>2, ConcatProperties
  <1>4. threads' = [threads EXCEPT ![p] = threads[p] \o entries]
    BY DEF Says
  <1>5. threads' \in [Peer -> Seq(ThreadEntry)]
    BY <1>1, <1>3, <1>4
  <1>6. /\ Len(threads'[p]) = Len(threads[p]) + Len(entries)
        /\ \A q \in Peer : q # p => threads'[q] = threads[q]
    BY <1>1, <1>3, <1>4
  <1> QED BY <1>5, <1>6

(* Of a thread and the questions under way, at most k more. *)
GrowsBy(k) ==
    \A q \in Peer : Len(threads'[q]) + Cardinality(asks') <=
                       Len(threads[q]) + Cardinality(asks) + k

LEMMA AskStep ==
  ASSUME NodeTypes, NEW p \in Peer, NEW n \in 1..MaxTexts,
         NEW entries \in Seq(ThreadEntry), askAI(p, n, entries)
  PROVE  /\ threads' \in [Peer -> Seq(ThreadEntry)]
         /\ asks' \subseteq Question /\ IsFiniteSet(asks')
         /\ GrowsBy(Len(entries) + 1)
  <1>0. Len(entries) \in Nat
    OBVIOUS
  <1>1. CASE noAi /\ Says(p, entries \o <<Reply(n)>>) /\ UNCHANGED asks
    <2>1. <<Reply(n)>> \in Seq(ThreadEntry) /\ Len(<<Reply(n)>>) = 1
      BY EntryTypes
    <2>2. /\ entries \o <<Reply(n)>> \in Seq(ThreadEntry)
          /\ Len(entries \o <<Reply(n)>>) = Len(entries) + 1
      BY <2>1, ConcatProperties
    <2> DEFINE more == entries \o <<Reply(n)>>
    <2> HIDE DEF more
    <2>3. more \in Seq(ThreadEntry) /\ Len(more) = Len(entries) + 1 /\ Says(p, more)
      BY <1>1, <2>2 DEF more
    <2>4. /\ threads' \in [Peer -> Seq(ThreadEntry)]
          /\ Len(threads'[p]) = Len(threads[p]) + Len(more)
          /\ \A q \in Peer : q # p => threads'[q] = threads[q]
      BY <2>3, SaysFacts
    <2>5. GrowsBy(Len(entries) + 1)
      <3>1. Cardinality(asks') = Cardinality(asks) /\ Cardinality(asks) \in Nat
        BY <1>1, Counts
      <3>2. ASSUME NEW q \in Peer
            PROVE  /\ Len(threads[q]) \in Nat
                   /\ Len(threads'[q]) = Len(threads[q]) + (Len(entries) + 1)
                        \/ Len(threads'[q]) = Len(threads[q])
        BY <1>0, <2>3, <2>4, <3>2, Counts
      <3>3. ASSUME NEW q \in Peer
            PROVE  Len(threads'[q]) + Cardinality(asks') <=
                      Len(threads[q]) + Cardinality(asks) + (Len(entries) + 1)
        <4> DEFINE k == Len(entries)
                   c == Cardinality(asks)
                   l == Len(threads[q])
                   m == Len(threads'[q])
        <4>1. /\ k \in Nat /\ c \in Nat /\ l \in Nat
              /\ m = l + (k + 1) \/ m = l
          BY <1>0, <3>1, <3>2
        <4> HIDE DEF k, c, l, m
        <4>2. m + c <= l + c + (k + 1)
          BY <4>1
        <4> QED BY <3>1, <4>2 DEF k, c, l, m
      <3> QED BY <3>3 DEF GrowsBy
    <2> QED BY <1>1, <2>4, <2>5 DEF NodeTypes
  <1>2. CASE ~noAi /\ Says(p, entries) /\ asks' = asks \cup {[n |-> n, peer |-> p]}
    <2>1. /\ threads' \in [Peer -> Seq(ThreadEntry)]
          /\ Len(threads'[p]) = Len(threads[p]) + Len(entries)
          /\ \A q \in Peer : q # p => threads'[q] = threads[q]
      BY <1>2, SaysFacts
    <2>2. asks' \subseteq Question
      BY <1>2 DEF NodeTypes, Question
    <2>3. IsFiniteSet(asks') /\ Cardinality(asks') \in Nat
          /\ Cardinality(asks) \in Nat /\ Cardinality(asks') <= Cardinality(asks) + 1
      <3>1. IsFiniteSet(asks)
        BY DEF NodeTypes
      <3> QED BY <1>2, <3>1, AddOne
    <2>4. GrowsBy(Len(entries) + 1)
      <3>1. ASSUME NEW q \in Peer
            PROVE  /\ Len(threads[q]) \in Nat
                   /\ Len(threads'[q]) = Len(threads[q]) + Len(entries)
                        \/ Len(threads'[q]) = Len(threads[q])
        BY <1>0, <2>1, <3>1, Counts
      <3>2. ASSUME NEW q \in Peer
            PROVE  Len(threads'[q]) + Cardinality(asks') <=
                      Len(threads[q]) + Cardinality(asks) + (Len(entries) + 1)
        BY <1>0, <2>3, <3>1
      <3> QED BY <3>2 DEF GrowsBy
    <2> QED BY <2>1, <2>2, <2>3, <2>4
  <1> QED BY <1>1, <1>2 DEF askAI

LEMMA ChatsStep ==
  ASSUME NodeTypes, NEW p \in Peer, NEW e \in ThreadEntry, Chats(p, e)
  PROVE  /\ threads' \in [Peer -> Seq(ThreadEntry)]
         /\ asks' \subseteq Question /\ IsFiniteSet(asks')
         /\ GrowsBy(2)
  <1>1. <<e>> \in Seq(ThreadEntry) /\ Len(<<e>>) = 1
    OBVIOUS
  <1>2. CASE e.ask /\ askAI(p, e.n, <<e>>)
    <2>1. e.n \in 1..MaxTexts
      BY DEF ThreadEntry
    <2>2. /\ threads' \in [Peer -> Seq(ThreadEntry)]
          /\ asks' \subseteq Question /\ IsFiniteSet(asks')
          /\ GrowsBy(Len(<<e>>) + 1)
      BY <1>1, <1>2, <2>1, AskStep
    <2> QED BY <1>1, <2>2
  <1>3. CASE ~e.ask /\ Says(p, <<e>>) /\ UNCHANGED asks
    <2>1. /\ threads' \in [Peer -> Seq(ThreadEntry)]
          /\ Len(threads'[p]) = Len(threads[p]) + Len(<<e>>)
          /\ \A q \in Peer : q # p => threads'[q] = threads[q]
      BY <1>1, <1>3, SaysFacts
    <2>2. GrowsBy(2)
      <3>1. Cardinality(asks') = Cardinality(asks) /\ Cardinality(asks) \in Nat
        BY <1>3, Counts
      <3>2. ASSUME NEW q \in Peer
            PROVE  /\ Len(threads[q]) \in Nat
                   /\ Len(threads'[q]) = Len(threads[q]) + 1
                        \/ Len(threads'[q]) = Len(threads[q])
        BY <1>1, <2>1, <3>2, Counts
      <3>3. ASSUME NEW q \in Peer
            PROVE  Len(threads'[q]) + Cardinality(asks') <=
                      Len(threads[q]) + Cardinality(asks) + 2
        BY <3>1, <3>2
      <3> QED BY <3>3 DEF GrowsBy
    <2> QED BY <1>3, <2>1, <2>2 DEF NodeTypes
  <1> QED BY <1>2, <1>3 DEF Chats

-----------------------------------------------------------------------------
(* The node's steps leave the screen alone *)

LEMMA AppSame ==
  ASSUME ChatInv, UNCHANGED <<polls, appVars>>
  PROVE  AppTypes' /\ AliveInv'
  BY DEF ChatInv, AppTypes, AliveInv, appVars

LEMMA NodeSame ==
  ASSUME ChatInv, UNCHANGED <<nodeVars, posts, texts>>, breaks' \in 0..MaxBreaks
  PROVE  NodeTypes' /\ CountInv'
  BY DEF ChatInv, NodeTypes, CountInv, Growth, nodeVars

LEMMA BreaksType ==
  ASSUME NodeTypes, Breaks
  PROVE  breaks' \in 0..MaxBreaks
  BY NodeChatAssumption DEF NodeTypes, Breaks

LEMMA SessionStep ==
  ASSUME ChatInv, NEW p \in Peer, _attach(p) \/ onClose(p)
  PROVE  ChatInv'
  <1>1. /\ UNCHANGED <<noAi, threads, asks, posts, polls, appVars, texts>>
        /\ breaks' = breaks \/ Breaks
    BY DEF _attach, onClose, httpVars
  <1>2. sessions' \subseteq Peer /\ older' \subseteq Twice
    BY DEF _attach, onClose, ChatInv, NodeTypes
  <1>3. breaks' \in 0..MaxBreaks
    BY <1>1, BreaksType DEF ChatInv, NodeTypes
  <1>4. NodeTypes' /\ CountInv'
    BY <1>1, <1>2, <1>3 DEF ChatInv, NodeTypes, CountInv, Growth
  <1> QED BY <1>1, <1>4, AppSame DEF ChatInv

LEMMA OnChatStep ==
  ASSUME ChatInv, NEW p \in Peer, _onChat(p)
  PROVE  ChatInv'
  <1>0. NodeTypes /\ CountInv
    BY DEF ChatInv
  <1>1. /\ texts < MaxTexts /\ texts' = texts + 1
        /\ UNCHANGED <<noAi, sessions, older, posts, polls, appVars, breaks>>
    BY DEF _onChat, Writes, httpVars
  <1>2. PICK ask \in BOOLEAN : Chats(p, Entry("in", texts + 1, ask))
    BY DEF _onChat
  <1>3. texts + 1 \in 1..MaxTexts
    BY <1>0, <1>1, Counts
  <1>4. Entry("in", texts + 1, ask) \in ThreadEntry
    BY <1>3, EntryTypes
  <1>5. /\ threads' \in [Peer -> Seq(ThreadEntry)]
        /\ asks' \subseteq Question /\ IsFiniteSet(asks') /\ GrowsBy(2)
    BY <1>0, <1>2, <1>4, ChatsStep
  <1>6. NodeTypes'
    BY <1>0, <1>1, <1>3, <1>5 DEF NodeTypes
  <1>7. CountInv'
    <2>1. ASSUME NEW q \in Peer PROVE Growth(q)' <= 2 * texts'
      <3>1. Growth(q) <= 2 * texts
        BY <1>0 DEF CountInv
      <3>2. Len(threads'[q]) + Cardinality(asks') <= Len(threads[q]) + Cardinality(asks) + 2
        BY <1>5 DEF GrowsBy
      <3>3. Cardinality(asks') \in Nat /\ Len(threads'[q]) \in Nat
        BY <1>5, FS_CardinalityType
      <3>4. /\ Cardinality(posts') = Cardinality(posts) /\ Cardinality(posts) \in Nat
            /\ Cardinality(asks) \in Nat /\ texts \in Nat /\ Len(threads[q]) \in Nat
        BY <1>0, <1>1, Counts
      <3> DEFINE c == Cardinality(posts)
                 a == Cardinality(asks)
                 b == Cardinality(asks')
                 l == Len(threads[q])
                 m == Len(threads'[q])
      <3>5. /\ a \in Nat /\ b \in Nat /\ c \in Nat /\ l \in Nat /\ m \in Nat
            /\ texts \in Nat /\ l + 2 * c + a <= 2 * texts /\ m + b <= l + a + 2
        BY <3>1, <3>2, <3>3, <3>4 DEF Growth
      <3> HIDE DEF a, b, c, l, m
      <3>6. m + 2 * c + b <= 2 * (texts + 1)
        BY <3>5
      <3> QED BY <1>1, <3>4, <3>6 DEF Growth, b, c, m
    <2> QED BY <2>1 DEF CountInv
  <1> QED BY <1>1, <1>6, <1>7, AppSame DEF ChatInv

LEMMA ReplyStep ==
  ASSUME ChatInv, NEW a \in asks, Replies(a)
  PROVE  ChatInv'
  <1>0. NodeTypes /\ CountInv
    BY DEF ChatInv
  <1>1. /\ asks' = asks \ {a} /\ Says(a.peer, <<Reply(a.n)>>)
        /\ UNCHANGED <<noAi, sessions, older, posts, polls, appVars, texts, breaks>>
    BY DEF Replies, httpVars
  <1>2. a.peer \in Peer /\ a.n \in 1..MaxTexts
    BY <1>0 DEF NodeTypes, Question
  <1>3. <<Reply(a.n)>> \in Seq(ThreadEntry) /\ Len(<<Reply(a.n)>>) = 1
    BY <1>2, EntryTypes
  <1>4. /\ threads' \in [Peer -> Seq(ThreadEntry)]
        /\ Len(threads'[a.peer]) = Len(threads[a.peer]) + Len(<<Reply(a.n)>>)
        /\ \A q \in Peer : q # a.peer => threads'[q] = threads[q]
    BY <1>0, <1>1, <1>2, <1>3, SaysFacts
  <1>5. IsFiniteSet(asks') /\ Cardinality(asks') = Cardinality(asks) - 1
    BY <1>0, <1>1, FS_RemoveElement DEF NodeTypes
  <1>6. NodeTypes'
    BY <1>0, <1>1, <1>4, <1>5 DEF NodeTypes
  <1>7. CountInv'
    <2>1. ASSUME NEW q \in Peer PROVE Growth(q)' <= 2 * texts'
      <3>1. Growth(q) <= 2 * texts
        BY <1>0 DEF CountInv
      <3>2. /\ Len(threads[q]) \in Nat
            /\ Len(threads'[q]) = Len(threads[q]) + 1 \/ Len(threads'[q]) = Len(threads[q])
        BY <1>0, <1>3, <1>4, <2>1, Counts
      <3>3. /\ Cardinality(posts') = Cardinality(posts) /\ Cardinality(posts) \in Nat
            /\ Cardinality(asks) \in Nat /\ texts \in Nat /\ texts' = texts
        BY <1>0, <1>1, Counts
      <3> QED BY <1>5, <3>1, <3>2, <3>3 DEF Growth
    <2> QED BY <2>1 DEF CountInv
  <1> QED BY <1>1, <1>6, <1>7, AppSame DEF ChatInv

(* A POST that is handled or fails leaves room for the two entries of its text. *)
LEMMA PostStep ==
  ASSUME ChatInv, NEW q \in posts, handlePost(q) \/ PostFails(q)
  PROVE  ChatInv'
  <1>0. NodeTypes /\ CountInv
    BY DEF ChatInv
  <1>1. /\ posts' = posts \ {q}
        /\ UNCHANGED <<noAi, sessions, older, polls, appVars, texts>>
        /\ breaks' = breaks \/ Breaks
    BY DEF handlePost, PostFails, nodeVars
  <1>2. q.peer \in Peer /\ q.n \in 1..MaxTexts /\ q.ask \in BOOLEAN
    BY <1>0 DEF NodeTypes, Request
  <1>3. /\ threads' \in [Peer -> Seq(ThreadEntry)]
        /\ asks' \subseteq Question /\ IsFiniteSet(asks') /\ GrowsBy(2)
    <2>1. CASE UNCHANGED <<threads, asks>>
      BY <1>0, <2>1, Counts DEF NodeTypes, GrowsBy
    <2>2. CASE Chats(q.peer, Entry("out", q.n, q.ask))
      <3>1. Entry("out", q.n, q.ask) \in ThreadEntry
        BY <1>2, EntryTypes
      <3> QED BY <1>0, <1>2, <2>2, <3>1, ChatsStep
    <2>3. CASE askAI(q.peer, q.n, <<>>)
      <3>1. <<>> \in Seq(ThreadEntry) /\ Len(<<>>) = 0
        OBVIOUS
      <3>2. /\ threads' \in [Peer -> Seq(ThreadEntry)]
            /\ asks' \subseteq Question /\ IsFiniteSet(asks') /\ GrowsBy(Len(<<>>) + 1)
        BY <1>0, <1>2, <2>3, <3>1, AskStep
      <3>3. Cardinality(asks') \in Nat /\ \A p \in Peer : Len(threads'[p]) \in Nat
        BY <3>2, FS_CardinalityType
      <3> QED BY <1>0, <3>1, <3>2, <3>3, Counts DEF GrowsBy
    <2> QED BY <2>1, <2>2, <2>3 DEF handlePost, PostFails, nodeVars
  <1>4. IsFiniteSet(posts') /\ Cardinality(posts') = Cardinality(posts) - 1
    BY <1>0, <1>1, FS_RemoveElement DEF NodeTypes
  <1>5. breaks' \in 0..MaxBreaks
    BY <1>0, <1>1, BreaksType DEF NodeTypes
  <1>6. NodeTypes'
    BY <1>0, <1>1, <1>3, <1>4, <1>5 DEF NodeTypes
  <1>7. CountInv'
    <2>1. ASSUME NEW p \in Peer PROVE Growth(p)' <= 2 * texts'
      <3>1. Growth(p) <= 2 * texts
        BY <1>0 DEF CountInv
      <3>2. Len(threads'[p]) + Cardinality(asks') <= Len(threads[p]) + Cardinality(asks) + 2
        BY <1>3 DEF GrowsBy
      <3>3. Cardinality(asks') \in Nat /\ Len(threads'[p]) \in Nat
        BY <1>3, FS_CardinalityType
      <3>4. /\ texts' = texts /\ texts \in Nat /\ Cardinality(posts) \in Nat
            /\ Cardinality(asks) \in Nat /\ Len(threads[p]) \in Nat
        BY <1>0, <1>1, Counts
      <3> DEFINE c == Cardinality(posts)
                 a == Cardinality(asks)
                 b == Cardinality(asks')
                 l == Len(threads[p])
                 m == Len(threads'[p])
      <3>5. /\ a \in Nat /\ b \in Nat /\ c \in Nat /\ l \in Nat /\ m \in Nat
            /\ texts \in Nat /\ l + 2 * c + a <= 2 * texts /\ m + b <= l + a + 2
        BY <3>1, <3>2, <3>3, <3>4 DEF Growth
      <3> HIDE DEF a, b, c, l, m
      <3>6. m + 2 * (c - 1) + b <= 2 * texts
        BY <3>5
      <3> QED BY <1>4, <3>4, <3>6 DEF Growth, b, c, m
    <2> QED BY <2>1 DEF CountInv
  <1> QED BY <1>1, <1>6, <1>7, AppSame DEF ChatInv

(* A text is written: on the command line or on the screen. *)
LEMMA WriteStep ==
  ASSUME ChatInv, send \/ \E p \in Peer : api(p)
  PROVE  ChatInv'
  <1>0. NodeTypes /\ CountInv
    BY DEF ChatInv
  <1>1. /\ texts < MaxTexts /\ texts' = texts + 1
        /\ UNCHANGED <<nodeVars, polls, appVars, breaks>>
    BY DEF send, api, Writes
  <1>2. PICK p \in Peer, route \in {"/msg", "/ask"}, ask \in BOOLEAN :
          posts' = posts \cup {Post(route, p, ask)}
    <2>1. peer # NoPeer => peer \in Peer
      BY DEF ChatInv, AppTypes
    <2> QED BY <2>1 DEF send, api
  <1>3. texts + 1 \in 1..MaxTexts
    BY <1>0, <1>1, Counts
  <1>4. Post(route, p, ask) \in Request
    BY <1>3 DEF Post, Request
  <1>5. /\ IsFiniteSet(posts') /\ Cardinality(posts') \in Nat
        /\ Cardinality(posts') <= Cardinality(posts) + 1
    BY <1>0, <1>2, AddOne DEF NodeTypes
  <1>6. NodeTypes'
    BY <1>0, <1>1, <1>2, <1>3, <1>4, <1>5 DEF NodeTypes, nodeVars
  <1>7. CountInv'
    <2>1. ASSUME NEW q \in Peer PROVE Growth(q)' <= 2 * texts'
      <3>1. Growth(q) <= 2 * texts
        BY <1>0 DEF CountInv
      <3>2. threads' = threads /\ Cardinality(asks') = Cardinality(asks)
        BY <1>1 DEF nodeVars
      <3>3. /\ texts \in Nat /\ Cardinality(posts) \in Nat
            /\ Cardinality(asks) \in Nat /\ Len(threads[q]) \in Nat
        BY <1>0, Counts
      <3> QED BY <1>1, <1>5, <3>1, <3>2, <3>3 DEF Growth
    <2> QED BY <2>1 DEF CountInv
  <1> QED BY <1>1, <1>6, <1>7, AppSame DEF ChatInv

-----------------------------------------------------------------------------
(* The screen's steps leave the node alone *)

(* What comes onto the screen is of the peer selected. *)
Selects == shown' # shown => shown'.of = peer'

LEMMA CopyFacts ==
  /\ \A p \in Peer, l \in 0..(2 * MaxTexts) : [of |-> p, len |-> l] \in Copy(Peer)
  /\ NoThread.of = NoPeer
  BY DEF Copy, NoThread

LEMMA PollStep ==
  ASSUME ChatInv, NEW r \in polls, handleMessages(r) \/ PollFails(r) \/ setThread(r)
  PROVE  ChatInv' /\ Selects
  <1>0. NodeTypes /\ CountInv /\ AppTypes /\ AliveInv
    BY DEF ChatInv
  <1>1. /\ UNCHANGED <<nodeVars, posts, texts, mounted, peers, peer>>
        /\ breaks' = breaks \/ Breaks
    BY DEF handleMessages, PollFails, setThread, appVars
  <1>2. NodeTypes' /\ CountInv'
    BY <1>0, <1>1, BreaksType, NodeSame DEF NodeTypes
  <1>3. /\ r.state \in {"asked", "answered"} /\ r.of \in Peer /\ r.alive \in BOOLEAN
        /\ r.len \in 0..(2 * MaxTexts) /\ (r.alive => r.of = peer)
    BY <1>0 DEF AppTypes, AliveInv, Fetch
  <1>4. CASE handleMessages(r)
    <2> DEFINE s == Poll("answered", r.of, r.alive, Len(threads[r.of]))
    <2>1. polls' = (polls \ {r}) \cup {s} /\ UNCHANGED shown
      BY <1>4 DEF handleMessages, appVars
    <2>2. Len(threads[r.of]) \in 0..(2 * MaxTexts)
      <3>1. Growth(r.of) <= 2 * texts
        BY <1>0, <1>3 DEF CountInv
      <3> QED BY <1>0, <1>3, <3>1, Counts DEF Growth
    <2>3. s \in Fetch /\ (s.alive => s.of = peer)
      BY <1>3, <2>2 DEF Poll, Fetch
    <2> HIDE DEF s
    <2>4. AppTypes' /\ AliveInv'
      BY <1>0, <1>1, <2>1, <2>3 DEF AppTypes, AliveInv
    <2> QED BY <1>2, <2>1, <2>4 DEF ChatInv, Selects
  <1>5. CASE PollFails(r)
    <2>1. polls' = polls \ {r} /\ UNCHANGED shown
      BY <1>5 DEF PollFails, appVars
    <2>2. AppTypes' /\ AliveInv'
      BY <1>0, <1>1, <2>1 DEF AppTypes, AliveInv
    <2> QED BY <1>2, <2>1, <2>2 DEF ChatInv, Selects
  <1>6. CASE setThread(r)
    <2>1. /\ polls' = polls \ {r}
          /\ shown' = IF r.alive THEN [of |-> r.of, len |-> r.len] ELSE shown
      BY <1>6 DEF setThread
    <2>2. shown' \in Copy(Peer) \cup {NoThread}
      BY <1>0, <1>3, <2>1, CopyFacts DEF AppTypes
    <2>3. AppTypes' /\ AliveInv'
      BY <1>0, <1>1, <2>1, <2>2 DEF AppTypes, AliveInv
    <2>4. Selects
      BY <1>1, <1>3, <2>1 DEF Selects
    <2> QED BY <1>2, <2>3, <2>4 DEF ChatInv
  <1> QED BY <1>4, <1>5, <1>6

LEMMA ScreenStep ==
  ASSUME ChatInv, refresh \/ setTab \/ load \/ \E p \in Peer : setPeer(p)
  PROVE  ChatInv' /\ Selects
  <1>0. NodeTypes /\ CountInv /\ AppTypes /\ AliveInv
    BY DEF ChatInv
  <1>1. UNCHANGED <<nodeVars, posts, texts, breaks>>
    BY DEF refresh, setTab, load, setPeer, httpVars
  <1>2. NodeTypes' /\ CountInv'
    BY <1>0, <1>1, NodeSame DEF NodeTypes
  <1>3. \A r \in Cleanup : r \in Fetch /\ ~r.alive
    BY <1>0 DEF Cleanup, AppTypes, Fetch
  <1>4. CASE refresh
    <2>1. peers' \subseteq Peer /\ UNCHANGED <<polls, mounted, peer, shown>>
      BY <1>0, <1>4 DEF refresh, httpVars, NodeTypes
    <2> QED BY <1>0, <1>2, <2>1 DEF ChatInv, AppTypes, AliveInv, Selects
  <1>5. CASE setTab
    <2>1. /\ mounted' \in BOOLEAN /\ peer' = NoPeer /\ shown' = NoThread
          /\ polls' = Cleanup /\ UNCHANGED peers
      BY <1>0, <1>5 DEF setTab, AppTypes
    <2> QED BY <1>0, <1>2, <1>3, <2>1, CopyFacts DEF ChatInv, AppTypes, AliveInv, Selects
  <1>6. CASE load
    <2>1. peer \in Peer /\ polls' = polls \cup {Asked(peer)} /\ UNCHANGED appVars
      BY <1>0, <1>6 DEF load, AppTypes
    <2>2. Asked(peer) \in Fetch /\ Asked(peer).of = peer
      BY <2>1, NodeChatAssumption DEF Asked, Poll, Fetch
    <2> QED BY <1>0, <1>2, <2>1, <2>2 DEF ChatInv, AppTypes, AliveInv, Selects, appVars
  <1>7. ASSUME NEW p \in Peer, setPeer(p) PROVE ChatInv' /\ Selects
    <2>1. peer' = p /\ polls' = Cleanup /\ UNCHANGED <<mounted, peers, shown>>
      BY <1>7 DEF setPeer
    <2> QED BY <1>0, <1>2, <1>3, <2>1 DEF ChatInv, AppTypes, AliveInv, Selects
  <1> QED BY <1>4, <1>5, <1>6, <1>7

-----------------------------------------------------------------------------

LEMMA NextChat == ChatInv /\ [Next]_vars => ChatInv' /\ (Selects \/ UNCHANGED vars)
  <1> SUFFICES ASSUME ChatInv, [Next]_vars PROVE ChatInv' /\ (Selects \/ UNCHANGED vars)
    OBVIOUS
  <1>0. ASSUME UNCHANGED appVars PROVE Selects
    BY <1>0 DEF appVars, Selects
  <1>1. ASSUME NEW p \in Peer, _attach(p) \/ onClose(p) PROVE ChatInv' /\ Selects
    BY <1>0, <1>1, SessionStep DEF _attach, onClose
  <1>2. ASSUME NEW p \in Peer, _onChat(p) PROVE ChatInv' /\ Selects
    BY <1>0, <1>2, OnChatStep DEF _onChat
  <1>3. ASSUME send \/ \E p \in Peer : api(p) PROVE ChatInv' /\ Selects
    BY <1>0, <1>3, WriteStep DEF send, api
  <1>4. ASSUME NEW a \in asks, geminiAnswers(a) \/ geminiAborts(a)
        PROVE  ChatInv' /\ Selects
    BY <1>0, <1>4, ReplyStep DEF geminiAnswers, geminiAborts, Replies
  <1>5. ASSUME NEW q \in posts, handlePost(q) \/ PostFails(q)
        PROVE  ChatInv' /\ Selects
    BY <1>0, <1>5, PostStep DEF handlePost, PostFails
  <1>6. ASSUME NEW r \in polls, handleMessages(r) \/ PollFails(r) \/ setThread(r)
        PROVE  ChatInv' /\ Selects
    BY <1>6, PollStep
  <1>7. ASSUME refresh \/ setTab \/ load \/ \E p \in Peer : setPeer(p)
        PROVE  ChatInv' /\ Selects
    BY <1>7, ScreenStep
  <1>8. CASE UNCHANGED vars
    <2>1. UNCHANGED <<nodeVars, posts, texts, polls, appVars, breaks>>
      BY <1>8 DEF vars, httpVars
    <2> QED BY <1>8, <2>1, AppSame, NodeSame DEF ChatInv, NodeTypes
  <1> QED BY <1>1, <1>2, <1>3, <1>4, <1>5, <1>6, <1>7, <1>8 DEF Next

LEMMA ChatInvariant == Spec => []ChatInv
  <1>1. ChatInv /\ [Next]_vars => ChatInv'
    BY NextChat
  <1> QED BY <1>1, InitChat, PTL DEF Spec

(* The state of the chat keeps its types, and no thread outgrows two entries *)
(* for each text of attestp2pNode.js (101-149), for any number of peers and  *)
(* texts.                                                                    *)
THEOREM ChatTypes == Spec => []TypeOK
  <1>1. ChatInv => TypeOK
    <2> SUFFICES ASSUME ChatInv PROVE TypeOK
      OBVIOUS
    <2>1. ASSUME NEW p \in Peer, NEW j \in DOMAIN threads[p] PROVE threads[p][j] \in ThreadEntry
      BY <2>1 DEF ChatInv, NodeTypes
    <2> QED BY <2>1
          DEF ChatInv, NodeTypes, AppTypes, TypeOK, ThreadEntry, Question, Request, Fetch
  <1> QED BY <1>1, ChatInvariant, PTL

(* What comes onto the screen is the thread of the peer selected there       *)
(* (ChatScreen.js 28-34), for any number of requests under way, answered in  *)
(* any order.                                                                *)
THEOREM ScreenShowsSelected == Spec => ShownIsSelected
  <1>1. ChatInv /\ [Next]_vars => [shown' # shown => shown'.of = peer']_vars
    BY NextChat DEF Selects
  <1> QED BY <1>1, ChatInvariant, PTL DEF Spec, ShownIsSelected
=============================================================================
