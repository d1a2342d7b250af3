------------------------------ MODULE NodeChat ------------------------------
(***************************************************************************)
(* The chat of one node and the screen that shows it: the threads of       *)
(* src/src/node/attestp2pNode.js, the question to the AI assistant         *)
(* (src/src/ai/gemini.js), the control API in between                      *)
(* (src/src/node/controlServer.js), its command line (src/bin) and the     *)
(* chat screen of the mobile application (src/mobile/src/NodeContext.js    *)
(* and screens/ChatScreen.js).                                             *)
(*                                                                         *)
(* Every request of a client is a fetch of its own: answers come in any    *)
(* order, late, or not at all.  A thread only grows, so a copy of it is    *)
(* its length.  A text is its number and whether it has the AI trigger.    *)
(***************************************************************************)
EXTENDS Naturals, Sequences, FiniteSets

CONSTANTS
    Peer,        \* node_id's of the node's peers
    MaxPolls,    \* bound: requests for a thread that are under way at once
    MaxTexts,    \* bound: texts and questions, of the users and of the peers
    MaxBreaks,   \* bound: sessions lost and HTTP requests that fail
    Twice        \* bound: peers that may have a second session open

NoPeer == "none"

ASSUME NodeChatAssumption ==
    /\ NoPeer \notin Peer
    /\ {MaxPolls, MaxTexts, MaxBreaks} \subseteq Nat
    /\ Twice \subseteq Peer

VARIABLES
    noAi,      \* the option --no-ai
    sessions,  \* sessionsByPeer: the peers that have an entry
    older,     \* the peers with a session that was replaced there and is open
    threads,   \* threads[p] : the entries of threads.get(p)
    asks,      \* the calls of askAI that wait for queryGemini
    posts,     \* the requests to /msg and /ask that the node has not handled
    polls,     \* the requests to /messages under way
    mounted,   \* the chat tab is the one shown
    peers,     \* the connected peers the application knows of
    peer,      \* the peer selected on the screen
    shown,     \* the thread on the screen: whose it is and how much of it
    texts, breaks   \* what the bounds count

nodeVars == <<noAi, sessions, older, threads, asks>>
httpVars == <<posts, polls>>
appVars == <<mounted, peers, peer, shown>>
vars == <<nodeVars, httpVars, appVars, texts, breaks>>

(* An entry of a thread: n numbers a text, or the text that a reply is to;   *)
(* ask is _isAiTrigger of it.                                                *)
Entry(dir, n, ask) == [dir |-> dir, n |-> n, ask |-> ask]
Reply(n) == Entry("ai", n, FALSE)

(* A request for the thread of p: whether its effect is alive, and when it   *)
(* is answered the length the thread then had.                               *)
Poll(state, p, alive, len) == [state |-> state, of |-> p, alive |-> alive, len |-> len]
Asked(p) == Poll("asked", p, TRUE, 0)

NoThread == [of |-> NoPeer, len |-> 0]

Init ==
    /\ noAi \in BOOLEAN
    /\ sessions = {} /\ older = {}
    /\ threads = [p \in Peer |-> <<>>]
    /\ asks = {} /\ posts = {} /\ polls = {}
    /\ mounted = FALSE
    /\ peers = {}
    /\ peer = NoPeer
    /\ shown = NoThread
    /\ texts = 0 /\ breaks = 0

-----------------------------------------------------------------------------
(* The node: sessions *)

(* A second session takes the place of the first, which stays open. *)
_attach(p) ==
    /\ \/ p \notin sessions /\ UNCHANGED older
       \/ p \in (sessions \cap Twice) \ older /\ older' = older \cup {p}
    /\ sessions' = sessions \cup {p}
    /\ UNCHANGED <<noAi, threads, asks, httpVars, appVars, texts, breaks>>

Breaks == breaks < MaxBreaks /\ breaks' = breaks + 1

(* The "close" event: of the session that has the entry, or of another.  From *)
(* the failure of a session to its event, the node does as if it were open.   *)
onClose(p) ==
    /\ \/ p \in sessions /\ sessions' = sessions \ {p} /\ UNCHANGED older
       \/ p \in older /\ older' = older \ {p} /\ UNCHANGED sessions
    /\ Breaks
    /\ UNCHANGED <<noAi, threads, asks, httpVars, appVars, texts>>

-----------------------------------------------------------------------------
(* The node: threads and the assistant *)

Says(p, entries) == threads' = [threads EXCEPT ![p] = @ \o entries]

(* askAI, after the entries that its caller appends: without AI the reply is *)
(* appended at once.                                                         *)
askAI(p, n, entries) ==
    \/ /\ noAi
       /\ Says(p, entries \o <<Reply(n)>>)
       /\ UNCHANGED asks
    \/ /\ ~noAi
       /\ Says(p, entries)
       /\ asks' = asks \cup {[n |-> n, peer |-> p]}

Chats(p, e) ==
    \/ e.ask /\ askAI(p, e.n, <<e>>)
    \/ ~e.ask /\ Says(p, <<e>>) /\ UNCHANGED asks

Writes == texts < MaxTexts /\ texts' = texts + 1

(* A peer's text comes in over any open session of it. *)
_onChat(p) ==
    /\ p \in sessions \cup older
    /\ Writes
    /\ \E ask \in BOOLEAN : Chats(p, Entry("in", texts + 1, ask))
    /\ UNCHANGED <<noAi, sessions, older, httpVars, appVars, breaks>>

(* The rest of askAI: the reply, or the words of the error, is appended to   *)
(* the thread, and the POST that waits for it is answered.                   *)
Replies(a) ==
    /\ asks' = asks \ {a}
    /\ Says(a.peer, <<Reply(a.n)>>)
    /\ UNCHANGED <<noAi, sessions, older, httpVars, appVars, texts, breaks>>

(* The service answers, with a text or with an error. *)
geminiAnswers(a) == a \in asks /\ Replies(a)

(* Mutant: an aborted request is not caught, and nothing is appended. *)
geminiAborts_Uncaught(a) ==
    /\ a \in asks
    /\ asks' = asks \ {a}
    /\ UNCHANGED <<noAi, sessions, older, threads, httpVars, appVars, texts, breaks>>

(* The timer of queryGemini aborts the request. *)
geminiAborts(a) == a \in asks /\ Replies(a)

-----------------------------------------------------------------------------
(* The control API *)

Post(route, p, ask) == [route |-> route, n |-> texts + 1, peer |-> p, ask |-> ask]

(* The POST handlers.  A text to a peer without a session is refused. *)
handlePost(q) ==
    /\ q \in posts
    /\ posts' = posts \ {q}
    /\ \/ /\ q.route = "/msg" /\ q.peer \notin sessions
          /\ UNCHANGED <<threads, asks>>
       \/ /\ q.route = "/msg" /\ q.peer \in sessions
          /\ Chats(q.peer, Entry("out", q.n, q.ask))
       \/ /\ q.route = "/ask"
          /\ askAI(q.peer, q.n, <<>>)
    /\ UNCHANGED <<noAi, sessions, older, polls, appVars, texts, breaks>>

PostFails(q) ==
    /\ q \in posts
    /\ posts' = posts \ {q}
    /\ Breaks
    /\ UNCHANGED <<nodeVars, polls, appVars, texts>>

(* GET /messages *)
handleMessages(r) ==
    /\ r.state = "asked"
    /\ polls' = (polls \ {r})
                   \cup {Poll("answered", r.of, r.alive, Len(threads[r.of]))}
    /\ UNCHANGED <<nodeVars, posts, appVars, texts, breaks>>

PollFails(r) ==
    /\ polls' = polls \ {r}
    /\ Breaks
    /\ UNCHANGED <<nodeVars, posts, appVars, texts>>

-----------------------------------------------------------------------------
(* The command line *)

(* attestp2p msg, attestp2p ask *)
api(p) ==
    /\ Writes
    /\ \E route \in {"/msg", "/ask"}, ask \in BOOLEAN :
          /\ route = "/ask" => ask
          /\ posts' = posts \cup {Post(route, p, ask)}
    /\ UNCHANGED <<nodeVars, polls, appVars, breaks>>

-----------------------------------------------------------------------------
(* The mobile application *)

(* refresh of NodeContext, which keeps the last list when it fails: the list *)
(* is older than the table of the node by any time.                          *)
refresh ==
    /\ peers' = sessions
    /\ UNCHANGED <<nodeVars, httpVars, mounted, peer, shown, texts, breaks>>

(* The cleanup of the effect *)
Cleanup == {[r EXCEPT !.alive = FALSE] : r \in polls}

setTab ==
    /\ mounted' = ~mounted
    /\ peer' = NoPeer
    /\ shown' = NoThread
    /\ polls' = Cleanup
    /\ UNCHANGED <<nodeVars, posts, peers, texts, breaks>>

(* The first connected peer, or the one the user touches; the thread of the  *)
(* former one stays on the screen.                                           *)
setPeer(p) ==
    /\ mounted
    /\ p \in peers \ {peer}
    /\ peer' = p
    /\ polls' = Cleanup
    /\ UNCHANGED <<nodeVars, posts, mounted, peers, shown, texts, breaks>>

(* Mutants: the effect runs without a peer; there is no interval, and a      *)
(* thread is loaded once.                                                    *)
load_NoPeer ==
    /\ mounted
    /\ Cardinality(polls) < MaxPolls
    /\ polls' = polls \cup {Asked(peer)}
    /\ UNCHANGED <<nodeVars, posts, appVars, texts, breaks>>

load_Once ==
    /\ peer # NoPeer /\ shown.of # peer
    /\ Cardinality(polls) < MaxPolls
    /\ polls' = polls \cup {Asked(peer)}
    /\ UNCHANGED <<nodeVars, posts, appVars, texts, breaks>>

(* When the effect begins and every two seconds, whether or not the request  *)
(* before was answered.                                                      *)
load ==
    /\ peer # NoPeer
    /\ Cardinality(polls) < MaxPolls
    /\ polls' = polls \cup {Asked(peer)}
    /\ UNCHANGED <<nodeVars, posts, appVars, texts, breaks>>

(* Mutant: the answer is shown whether or not its effect is alive. *)
setThread_Late(r) ==
    /\ r.state = "answered"
    /\ polls' = polls \ {r}
    /\ shown' = [of |-> r.of, len |-> r.len]
    /\ UNCHANGED <<nodeVars, posts, mounted, peers, peer, texts, breaks>>

setThread(r) ==
    /\ r.state = "answered"
    /\ polls' = polls \ {r}
    /\ shown' = IF r.alive THEN [of |-> r.of, len |-> r.len] ELSE shown
    /\ UNCHANGED <<nodeVars, posts, mounted, peers, peer, texts, breaks>>

send ==
    /\ peer # NoPeer
    /\ Writes
    /\ \E ask \in BOOLEAN : posts' = posts \cup {Post("/msg", peer, ask)}
    /\ UNCHANGED <<nodeVars, polls, appVars, breaks>>

-----------------------------------------------------------------------------

Next ==
    \/ \E p \in Peer :
          _attach(p) \/ onClose(p) \/ _onChat(p) \/ api(p)
             \/ setPeer(p)
    \/ \E a \in asks : geminiAnswers(a) \/ geminiAborts(a)
    \/ \E q \in posts : handlePost(q) \/ PostFails(q)
    \/ \E r \in polls : handleMessages(r) \/ PollFails(r) \/ setThread(r)
    \/ refresh \/ setTab \/ load \/ send

Spec == Init /\ [][Next]_vars

(* The timer of queryGemini and the interval of the screen fire; what is     *)
(* neither lost nor failed arrives.  The assistant need not answer, and no   *)
(* session need be opened.                                                   *)
Fairness ==
    /\ WF_vars(\E a \in asks : geminiAborts(a))
    /\ WF_vars(load)
    /\ WF_vars(\E r \in polls : handleMessages(r))
    /\ WF_vars(\E r \in polls : setThread(r))

FairSpec == Spec /\ Fairness

-----------------------------------------------------------------------------
(* Properties *)

Copy(of) == {[of |-> p, len |-> l] : p \in of, l \in 0..(2 * MaxTexts)}

TypeOK ==
    /\ noAi \in BOOLEAN
    /\ sessions \subseteq Peer /\ older \subseteq Twice
    /\ \A p \in Peer : \A j \in DOMAIN threads[p] :
          threads[p][j] \in [dir : {"in", "out", "ai"}, n : 1..MaxTexts, ask : BOOLEAN]
    /\ asks \subseteq [n : 1..MaxTexts, peer : Peer]
    /\ posts \subseteq
          [route : {"/msg", "/ask"}, n : 1..MaxTexts, peer : Peer, ask : BOOLEAN]
    /\ polls \subseteq [state : {"asked", "answered"}, of : Peer, alive : BOOLEAN,
                        len : 0..(2 * MaxTexts)]
    /\ mounted \in BOOLEAN
    /\ peers \subseteq Peer
    /\ peer \in Peer \cup {NoPeer}
    /\ shown \in Copy(Peer) \cup {NoThread}
    /\ texts \in 0..MaxTexts /\ breaks \in 0..MaxBreaks

(* What comes onto the screen is the thread of the peer selected there        *)
(* (ChatScreen.js 28-34): the answer to a request that was made for another   *)
(* peer, or before the tab was left, never is, however late it comes.         *)
ShownIsSelected == [][shown' # shown => shown'.of = peer']_vars

(* Every question gets its reply in the thread it was asked in (askAI, 132-   *)
(* 149): a text with the trigger that a user or a peer wrote, and a question  *)
(* of /ask, also when the assistant never answers or the session is lost      *)
(* meanwhile.                                                                 *)
Asking(p, n) ==
    \/ \E a \in asks : a.n = n /\ a.peer = p
    \/ \E j \in DOMAIN threads[p] : threads[p][j].n = n /\ threads[p][j].ask

AsksEnd ==
    \A p \in Peer, n \in 1..MaxTexts :
        Asking(p, n) ~> \E j \in DOMAIN threads[p] : threads[p][j] = Reply(n)

(* The screen catches up (ChatScreen.js 29-33): the thread of the selected    *)
(* peer is on the screen up to its last entry some time later, unless another *)
(* peer or tab is selected, although answers overtake one another and some    *)
(* requests fail.                                                             *)
CatchesUp ==
    \A p \in Peer :
        peer = p ~> (peer # p \/ shown = [of |-> p, len |-> Len(threads[p])])
=============================================================================
