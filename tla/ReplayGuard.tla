---------------------------- MODULE ReplayGuard ----------------------------
(***************************************************************************)
(* The anti-replay cache of src/src/protocol/replay.js.  A packet stands   *)
(* for its signed envelope: its key (nodeId, nonce) and its timestamp,     *)
(* kept as the age "now - timestamp", negative for a sender whose clock is *)
(* ahead.  Ages stop counting once they are past the window.               *)
(***************************************************************************)
EXTENDS Integers, Sequences

CONSTANTS
    Packet,           \* signed packets
    KeyOf,            \* KeyOf[p]: its (nodeId, nonce)
    ReplayWindowMs,   \* windowMs, in ticks
    MaxEntries        \* maxEntries

ASSUME ReplayAssumption ==
    /\ ReplayWindowMs \in Nat
    /\ MaxEntries \in Nat \ {0}
    /\ Packet = DOMAIN KeyOf

VARIABLES
    age,         \* age[p]      : now - timestamp of p
    seen,        \* the Map seen: its packets in order of insertion
    accepted,    \* history: accepted[p] is how often check() returned ok, up to 2
    evicted      \* history: packets dropped for lack of room

replayVars == <<age, seen, accepted, evicted>>

Age == (-ReplayWindowMs - 1)..(ReplayWindowMs + 1)

ReplayInit ==
    /\ age \in [Packet -> (-ReplayWindowMs - 1)..0]
    /\ seen = <<>>
    /\ accepted = [p \in Packet |-> 0]
    /\ evicted = {}

Expired(p) == age[p] > ReplayWindowMs

InWindow(p) == -ReplayWindowMs <= age[p] /\ ~Expired(p)

(* Mutant: an entry expires as soon as the window is reached. *)
Purges_Early(k) ==
    /\ \A i \in 1..k : age[seen[i]] >= ReplayWindowMs
    /\ k < Len(seen) => age[seen[k + 1]] < ReplayWindowMs

(* _purge drops the first k entries: it stops at the first that is valid.    *)
Purges(k) ==
    /\ \A i \in 1..k : Expired(seen[i])
    /\ k < Len(seen) => ~Expired(seen[k + 1])

purged(k) == SubSeq(seen, k + 1, Len(seen))

Has(s, p) == \E i \in 1..Len(s) : KeyOf[s[i]] = KeyOf[p]

(* Mutant: off by one at the limit. *)
Full_OffByOne(s) == Len(s) > MaxEntries

Full(s) == Len(s) >= MaxEntries

(* check() returns ok.  Out of the window nothing happens; a known key only  *)
(* purges; else the packet is entered, in place of the oldest entry when     *)
(* there is no room.                                                         *)
check(p, ok) ==
    /\ \/ /\ ~ok /\ ~InWindow(p)
          /\ UNCHANGED <<seen, accepted, evicted>>
       \/ /\ InWindow(p)
          /\ \E k \in 0..Len(seen) :
               LET s == purged(k)
               IN  /\ Purges(k)
                   /\ \/ /\ ~ok /\ Has(s, p)
                         /\ seen' = s
                         /\ UNCHANGED <<accepted, evicted>>
                      \/ /\ ok /\ ~Has(s, p)
                         /\ seen' = Append(IF Full(s) THEN Tail(s) ELSE s, p)
                         /\ evicted' = IF Full(s) THEN evicted \cup {s[1]} ELSE evicted
                         /\ accepted' = [accepted EXCEPT ![p] = IF @ < 2 THEN @ + 1 ELSE @]
    /\ UNCHANGED age

replayTick ==
    /\ age' = [p \in Packet |-> IF Expired(p) THEN age[p] ELSE age[p] + 1]
    /\ UNCHANGED <<seen, accepted, evicted>>

-----------------------------------------------------------------------------

ReplayTypeOK ==
    /\ age \in [Packet -> Age]
    /\ seen \in Seq(Packet)
    /\ accepted \in [Packet -> 0..2]
    /\ evicted \in SUBSET Packet

(* A packet is accepted at most once, on whichever connection its copies     *)
(* arrive, unless its entry had to make room while it was valid (replay.js   *)
(* 33-53): neither the purge nor the end of the window opens a gap.          *)
NoReplayAccepted ==
    \A p \in Packet : accepted[p] > 1 => p \in evicted

(* The cache holds each key once and never more than maxEntries (45-49).     *)
CacheSound ==
    /\ Len(seen) <= MaxEntries
    /\ \A i, j \in 1..Len(seen) : KeyOf[seen[i]] = KeyOf[seen[j]] => i = j
=============================================================================
