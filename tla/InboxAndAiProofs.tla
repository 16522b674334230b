--------------------------- MODULE InboxAndAiProofs ---------------------------
(***************************************************************************)
(* What holds of the inbox sync and of the AI gateway for every number of  *)
(* messages, runs, sequences, turns, processes and models, in the          *)
(* behaviours of MCServices that run them.                                 *)
(***************************************************************************)
EXTENDS MCServices, FiniteSetTheorems, WellFoundedInduction, TLAPS

(***************************************************************************)
(* The inbox sync                                                          *)
(***************************************************************************)
SyncPlaces == {"idle", "read", "store", "bounce", "reply", "classify", "pause", "stop", "close"}
Lists == {"store", "bounce", "reply", "classify", "pause", "stop"}
Answering == {"reply", "classify", "pause", "stop"}

Syncs == [at : SyncPlaces, resync : BOOLEAN, since : Nat, now : Nat, last : Nat,
          more : BOOLEAN, knew : BOOLEAN, cached : BOOLEAN, invalid : BOOLEAN,
          todo : SUBSET Inbox!Messages, apply : SUBSET Inbox!Messages, unsaved : BOOLEAN]

InboxType ==
    /\ arrived \in 0 .. MaxMail /\ cursor \in 0 .. arrived
    /\ kind \in [Inbox!Messages -> Inbox!Kinds] /\ known \in BOOLEAN
    /\ stored \in [Inbox!Messages -> {"none", "unplaced", "placed"}]
    /\ \A m \in Inbox!Messages : stored[m] # "none" => m <= arrived
    /\ cadence \in [Cadences -> {"none", "active", "paused", "ended"}]
    /\ lead \in [invalid : BOOLEAN, optedOut : BOOLEAN]
    /\ sync \in [Runs -> Syncs]
    /\ counted \in [Inbox!Messages -> {0, 1}] /\ bounced \in [Inbox!Messages -> {0, 1}]
    /\ woken \in [Cadences -> 0 .. arrived] /\ faults \in Nat

Covered(m) == stored[m] # "none" \/ m \in unplaceable

\* A run works through what it read: the messages after its start up to its last, at or
\* before the newest.
Span(w) ==
    /\ w.since <= w.now /\ w.now <= arrived
    /\ w.at \in {"idle", "read"} => w.apply = {} /\ ~w.unsaved
    /\ w.at \notin {"idle", "read"} =>
         /\ w.since <= w.last /\ w.last <= arrived
         /\ w.more => w.since < w.last
         /\ ~w.more => w.now <= w.last
         /\ w.apply \subseteq Inbox!Batch(w)
    /\ w.at \in Lists => w.todo \subseteq Inbox!Batch(w)

\* Everything before the run's start was covered when it began, and what it has gone
\* through is covered too, unless a write failed.
ReadIsCovered(w) ==
    /\ ~w.resync => \A m \in 1 .. w.since : Covered(m)
    /\ w.at \notin {"idle", "read"} /\ ~w.unsaved =>
         \A m \in Inbox!Batch(w) : Covered(m) \/ (w.at = "store" /\ m \in w.todo)

\* The messages the run may act on it has placed with their lead, and its later phases
\* list some of them.
Owns(w) ==
    /\ \A m \in w.apply : IF w.knew THEN stored[m] = "placed" ELSE kind[m] = "bounce"
    /\ w.at = "store" => w.todo \cap w.apply = {}
    /\ w.at = "bounce" => w.knew /\ \A m \in w.todo : m \in w.apply /\ kind[m] = "bounce"
    /\ w.at \in Answering =>
         w.knew /\ w.cached /\ \A m \in w.todo : m \in w.apply /\ kind[m] # "bounce"

\* A cadence that was running when a message of the batch arrived was there when it was read.
SawTheCadence(w) ==
    w.at \notin {"idle", "read"} =>
      \A m \in Inbox!Batch(w) : \A s \in Inbox!Running : woken[s] < m => w.cached

RunOk(w) == Span(w) /\ ReadIsCovered(w) /\ Owns(w) /\ SawTheCadence(w)

RunsAreOk == \A r \in Runs : RunOk(sync[r]) /\ (sync[r].at \in Lists => sync[r].todo # {})

\* The cursor has jumped over nothing.
CursorInv == \A m \in 1 .. cursor : Covered(m)

\* A message is one run's to act on: the run that placed it with its lead.
OwnedByOne ==
    \A r, q \in Runs : r # q /\ sync[r].knew /\ sync[q].knew =>
      sync[r].apply \cap sync[q].apply = {}

\* The run has still to act on the message.
Unseen(w, m) ==
    /\ w.knew /\ m \in w.apply
    /\ \/ w.at = "store"
       \/ w.at = "bounce" /\ (kind[m] # "bounce" \/ m \in w.todo)
       \/ w.at \in {"reply", "classify"} /\ m \in w.todo
       \/ w.at \in {"pause", "stop"} /\ m \in w.todo /\ m # Inbox!First(w)

Untouched(m) == m \notin classified /\ bounced[m] = 0

\* What nobody has placed, or a run has still to act on, has had no effect.
ActsOnce ==
    /\ \A m \in Inbox!Messages : stored[m] # "placed" => Untouched(m)
    /\ \A r \in Runs : \A m \in Inbox!Messages : Unseen(sync[r], m) => Untouched(m)
    /\ \A m \in Inbox!Messages : counted[m] = 1 => m \in classified

\* The run will come to the reply, or is at it and has still to stop the lead's cadences.
Handling(w, m) ==
    /\ ~w.resync /\ w.knew /\ m \in w.apply
    /\ w.at \in {"store", "bounce"} \/ (w.at \in Answering /\ m \in w.todo)

RepliesAreHandled ==
    faults = 0 =>
      \A m \in Inbox!Messages \ reread :
        stored[m] = "placed" /\ kind[m] \in {"reply", "optout"} =>
          \A s \in Inbox!Running : woken[s] < m => \E r \in Runs : Handling(sync[r], m)

InboxInv ==
    InboxType /\ RunsAreOk /\ CursorInv /\ OwnedByOne /\ ActsOnce /\ RepliesAreHandled

\* A nonempty set of numbers has a least one, and the first message of a list is in it.
LEMMA FirstIsThere ==
  ASSUME NEW w, w.todo \subseteq Nat, w.todo # {}
  PROVE  Inbox!First(w) \in w.todo
  <1> DEFINE R == OpToRel(<, Nat)
  <1>0. PICK S \in SUBSET Nat : S = w.todo
    OBVIOUS
  <1>1. IsWellFoundedOn(R, Nat)
    BY NatLessThanWellFounded
  <1>2. \A x, y \in Nat : <<x, y>> \in R \/ y <= x
    BY DEF OpToRel
  <1> HIDE DEF R
  <1>3. PICK x \in S : \A y \in S : <<y, x>> \notin R
    BY <1>0, <1>1, WFMin
  <1>4. \A y \in S : x <= y
    BY <1>2, <1>3
  <1> QED
    BY <1>0, <1>4 DEF Inbox!First, Inbox!Min

\* The fields of a run's record, and of what one assignment makes of it.
LEMMA Fields ==
  ASSUME NEW w \in Syncs
  PROVE  /\ w.at \in SyncPlaces /\ w.resync \in BOOLEAN /\ w.since \in Nat /\ w.now \in Nat
         /\ w.last \in Nat /\ w.more \in BOOLEAN /\ w.knew \in BOOLEAN /\ w.cached \in BOOLEAN
         /\ w.invalid \in BOOLEAN /\ w.todo \subseteq Inbox!Messages
         /\ w.apply \subseteq Inbox!Messages /\ w.unsaved \in BOOLEAN
  BY DEF Syncs

\* The run in x has read what the run in w has.
SameRead(w, x) ==
    /\ x.resync = w.resync /\ x.since = w.since /\ x.now = w.now /\ x.last = w.last
    /\ x.more = w.more /\ x.knew = w.knew /\ x.cached = w.cached /\ x.invalid = w.invalid

\* The record of a run with one or two fields changed.
Going(w, p) == [w EXCEPT !.at = p]
Listing(w, T) == [w EXCEPT !.todo = T]
Placing(w, p, T) == [w EXCEPT !.at = p, !.todo = T]
Taking(w, A) == [w EXCEPT !.apply = A]
Spoiling(w) == [w EXCEPT !.unsaved = TRUE]

\* A run whose place changes keeps what it read.
LEMMA Moved ==
  ASSUME NEW w \in Syncs, NEW p \in SyncPlaces
  PROVE  /\ Going(w, p) \in Syncs /\ SameRead(w, Going(w, p))
         /\ Going(w, p).at = p /\ Going(w, p).todo = w.todo
         /\ Going(w, p).apply = w.apply /\ Going(w, p).unsaved = w.unsaved
  BY DEF Syncs, SameRead, Going

\* A run whose list changes keeps what it read.
LEMMA Listed ==
  ASSUME NEW w \in Syncs, NEW T, T \subseteq Inbox!Messages
  PROVE  /\ Listing(w, T) \in Syncs /\ SameRead(w, Listing(w, T))
         /\ Listing(w, T).at = w.at /\ Listing(w, T).todo = T
         /\ Listing(w, T).apply = w.apply /\ Listing(w, T).unsaved = w.unsaved
  BY DEF Syncs, SameRead, Listing

\* A run whose place and list change keeps what it read.
LEMMA Placed ==
  ASSUME NEW w \in Syncs, NEW p \in SyncPlaces, NEW T, T \subseteq Inbox!Messages,
         NEW x, x = Placing(w, p, T)
  PROVE  /\ x \in Syncs /\ SameRead(w, x) /\ x.at = p /\ x.todo = T
         /\ x.apply = w.apply /\ x.unsaved = w.unsaved
  <1>1. PICK d : d = Going(w, p)
    OBVIOUS
  <1>2. /\ d \in Syncs /\ SameRead(w, d) /\ d.at = p
        /\ d.apply = w.apply /\ d.unsaved = w.unsaved
    BY <1>1, Moved
  <1>3. x = Listing(d, T)
    BY <1>1 DEF Going, Listing, Placing
  <1>4. /\ x \in Syncs /\ SameRead(d, x) /\ x.at = d.at /\ x.todo = T
        /\ x.apply = d.apply /\ x.unsaved = d.unsaved
    BY <1>2, <1>3, Listed
  <1> QED
    BY <1>2, <1>4 DEF SameRead

\* A run that takes a message to act on keeps what it read.
LEMMA Taken ==
  ASSUME NEW w \in Syncs, NEW A, A \subseteq Inbox!Messages
  PROVE  /\ Taking(w, A) \in Syncs /\ SameRead(w, Taking(w, A))
         /\ Taking(w, A).at = w.at /\ Taking(w, A).todo = w.todo
         /\ Taking(w, A).apply = A /\ Taking(w, A).unsaved = w.unsaved
  BY DEF Syncs, SameRead, Taking

\* A run with a failed write keeps what it read.
LEMMA Spoiled ==
  ASSUME NEW w \in Syncs
  PROVE  /\ Spoiling(w) \in Syncs /\ SameRead(w, Spoiling(w))
         /\ Spoiling(w).at = w.at /\ Spoiling(w).todo = w.todo
         /\ Spoiling(w).apply = w.apply /\ Spoiling(w).unsaved = TRUE
  BY DEF Syncs, SameRead, Spoiling

Bounces(w) == {m \in Inbox!Batch(w) :
                 kind[m] = "bounce" /\ m \in w.apply /\ w.knew /\ ~w.invalid}
Replies(w) == {m \in Inbox!Batch(w) : kind[m] # "bounce" /\ m \in w.apply /\ w.cached}

\* Where a run goes whose phase may be done.
LEMMA GoesOn ==
  ASSUME NEW w \in Syncs, NEW x, x = Inbox!Onward(w)
  PROVE  /\ x \in Syncs /\ SameRead(w, x) /\ x.apply = w.apply /\ x.unsaved = w.unsaved
         /\ \/ w.todo # {} /\ x.at = w.at /\ x.todo = w.todo
            \/ /\ w.todo = {} /\ w.at = "store" /\ x.at = "bounce"
               /\ x.todo = Bounces(w) /\ x.todo # {}
            \/ /\ w.todo = {} /\ w.at \in {"store", "bounce"} /\ x.at = "reply"
               /\ x.todo = Replies(w) /\ x.todo # {}
            \/ /\ w.todo = {} /\ x.at = "close" /\ x.todo = {}
               /\ w.at \in {"store", "bounce"} => Replies(w) = {}
  <1> DEFINE B == Bounces(w)
             C == Replies(w)
  <1>1. B \subseteq Inbox!Messages /\ C \subseteq Inbox!Messages
    BY Fields DEF Bounces, Replies
  <1>2. x = CASE w.todo # {} -> w
              [] w.todo = {} /\ w.at = "store" /\ B # {} -> [w EXCEPT !.at = "bounce", !.todo = B]
              [] w.todo = {} /\ w.at \in {"store", "bounce"}
                   /\ (w.at = "store" => B = {}) /\ C # {} ->
                   [w EXCEPT !.at = "reply", !.todo = C]
              [] OTHER -> [w EXCEPT !.at = "close"]
    BY DEF Inbox!Onward, Bounces, Replies
  <1>3. SameRead(w, w)
    BY DEF SameRead
  <1> HIDE DEF B, C
  <1>4. CASE w.todo # {}
    BY <1>2, <1>3, <1>4
  <1>5. CASE w.todo = {} /\ w.at = "store" /\ B # {}
    <2>1. x = Placing(w, "bounce", B)
      BY <1>2, <1>5 DEF Placing
    <2>2. "bounce" \in SyncPlaces
      BY DEF SyncPlaces
    <2>3. /\ x \in Syncs /\ SameRead(w, x) /\ x.apply = w.apply /\ x.unsaved = w.unsaved
          /\ x.at = "bounce" /\ x.todo = B
      BY <1>1, <2>1, <2>2, Placed
    <2> QED
      BY <1>5, <2>3 DEF B
  <1>6. CASE w.todo = {} /\ w.at \in {"store", "bounce"} /\ (w.at = "store" => B = {}) /\ C # {}
    <2>1. x = Placing(w, "reply", C)
      BY <1>2, <1>6 DEF Placing
    <2>2. "reply" \in SyncPlaces
      BY DEF SyncPlaces
    <2>3. /\ x \in Syncs /\ SameRead(w, x) /\ x.apply = w.apply /\ x.unsaved = w.unsaved
          /\ x.at = "reply" /\ x.todo = C
      BY <1>1, <2>1, <2>2, Placed
    <2> QED
      BY <1>6, <2>3 DEF C
  <1>7. CASE /\ w.todo = {} /\ ~(w.at = "store" /\ B # {})
             /\ ~(w.at \in {"store", "bounce"} /\ (w.at = "store" => B = {}) /\ C # {})
    <2>1. x = [w EXCEPT !.at = "close"]
      BY <1>2, <1>7
    <2>2. "close" \in SyncPlaces
      BY DEF SyncPlaces
    <2>3. /\ x \in Syncs /\ SameRead(w, x) /\ x.apply = w.apply /\ x.unsaved = w.unsaved
          /\ x.at = "close" /\ x.todo = w.todo
      BY <2>1, <2>2, Moved DEF Going
    <2>4. w.todo = {} /\ (w.at \in {"store", "bounce"} => C = {})
      BY <1>7
    <2> QED
      BY <2>3, <2>4 DEF C
  <1> QED
    BY <1>4, <1>5, <1>6, <1>7

(***************************************************************************)
(* What the world may do beside a run                                      *)
(***************************************************************************)
WorldMoves ==
    /\ arrived <= arrived' /\ kind' = kind
    /\ \A m \in Inbox!Messages : stored[m] # "none" => stored'[m] # "none"
    /\ \A m \in Inbox!Messages : stored[m] = "placed" => stored'[m] = "placed"
    /\ unplaceable \subseteq unplaceable'
    /\ \A s \in Inbox!Running' : s \in Cadences /\
         ((s \in Inbox!Running /\ woken'[s] = woken[s]) \/ woken'[s] = arrived)

\* A message that was stored or passed over stays so.
LEMMA CoverGrows ==
  ASSUME InboxType, WorldMoves, NEW m \in Nat \ {0}, Covered(m), m <= arrived
  PROVE  Covered(m)'
  <1>1. m \in Inbox!Messages
    BY ServiceAssumption DEF InboxType, Inbox!Messages
  <1> QED
    BY <1>1 DEF WorldMoves, Covered

\* What holds of a run's record still holds when the world beside it has moved.
LEMMA WorldKeeps ==
  ASSUME InboxType, WorldMoves, InboxType', NEW w \in Syncs, RunOk(w)
  PROVE  RunOk(w)'
  <1>0. /\ w.at \in SyncPlaces /\ w.resync \in BOOLEAN /\ w.since \in Nat /\ w.now \in Nat
        /\ w.last \in Nat /\ w.more \in BOOLEAN /\ w.knew \in BOOLEAN /\ w.cached \in BOOLEAN
        /\ w.invalid \in BOOLEAN /\ w.todo \subseteq Inbox!Messages
        /\ w.apply \subseteq Inbox!Messages /\ w.unsaved \in BOOLEAN
    BY Fields
  <1>1. arrived \in Nat /\ arrived' \in Nat /\ arrived <= arrived'
    BY ServiceAssumption DEF InboxType, WorldMoves
  <1>2. Span(w)'
    BY <1>0, <1>1 DEF RunOk, Span, Inbox!Batch
  <1>3. w.since <= arrived
    BY <1>0, <1>1 DEF RunOk, Span
  <1>4. ReadIsCovered(w)'
    <2>1. ~w.resync => \A m \in 1 .. w.since : Covered(m)'
      BY <1>0, <1>1, <1>3, CoverGrows DEF RunOk, ReadIsCovered
    <2>2. ASSUME w.at \notin {"idle", "read"}, ~w.unsaved, NEW m \in Inbox!Batch(w)
          PROVE  Covered(m)' \/ (w.at = "store" /\ m \in w.todo)
      <3>1. m \in Nat \ {0} /\ m <= arrived
        BY <1>0, <1>1, <2>2 DEF RunOk, Span, Inbox!Batch
      <3>2. Covered(m) \/ (w.at = "store" /\ m \in w.todo)
        BY <2>2 DEF RunOk, ReadIsCovered
      <3> QED
        BY <3>1, <3>2, CoverGrows
    <2> QED
      BY <2>1, <2>2 DEF ReadIsCovered, Inbox!Batch
  <1>5. Owns(w)'
    BY <1>0 DEF RunOk, Owns, WorldMoves
  <1>6. SawTheCadence(w)'
    <2> SUFFICES ASSUME w.at \notin {"idle", "read"}, NEW m \in Inbox!Batch(w),
                        NEW s \in Inbox!Running', woken'[s] < m
                 PROVE  w.cached
      BY DEF SawTheCadence, Inbox!Batch
    <2>1. m \in Nat /\ m <= arrived
      BY <1>0, <1>1 DEF RunOk, Span, Inbox!Batch
    <2>2. s \in Inbox!Running /\ woken'[s] = woken[s]
      BY <1>1, <2>1 DEF WorldMoves
    <2> QED
      BY <2>2 DEF RunOk, SawTheCadence
  <1> QED
    BY <1>2, <1>4, <1>5, <1>6 DEF RunOk

(***************************************************************************)
(* A run goes on                                                           *)
(***************************************************************************)

\* A run whose message is done goes on to what it may act on.
LEMMA GoingOnIsOk ==
  ASSUME NEW w \in Syncs, w.at \in {"store", "bounce", "reply"}, RunOk(w)', kind' = kind,
         NEW x, x = Inbox!Onward(w)
  PROVE  /\ x \in Syncs /\ RunOk(x)' /\ x.at \notin {"idle", "read"}
         /\ x.at \in Lists => x.todo # {}
         /\ SameRead(w, x) /\ x.apply = w.apply
         /\ \A m \in Inbox!Messages : Unseen(x, m) => Unseen(w, m)
         /\ \A m \in Inbox!Messages :
              Handling(w, m) /\ w.cached /\ kind[m] # "bounce" => Handling(x, m)
  <1>1. /\ x \in Syncs /\ SameRead(w, x) /\ x.apply = w.apply /\ x.unsaved = w.unsaved
        /\ \/ w.todo # {} /\ x.at = w.at /\ x.todo = w.todo
           \/ /\ w.todo = {} /\ w.at = "store" /\ x.at = "bounce"
              /\ x.todo = Bounces(w) /\ x.todo # {}
           \/ /\ w.todo = {} /\ w.at \in {"store", "bounce"} /\ x.at = "reply"
              /\ x.todo = Replies(w) /\ x.todo # {}
           \/ /\ w.todo = {} /\ x.at = "close" /\ x.todo = {}
              /\ w.at \in {"store", "bounce"} => Replies(w) = {}
    BY GoesOn
  <1>2. Inbox!Batch(x) = Inbox!Batch(w)
    BY <1>1 DEF SameRead, Inbox!Batch
  <1>3. w.apply \subseteq Inbox!Batch(w)
    BY DEF RunOk, Span, Inbox!Batch
  <1>4. Span(x)'
    BY <1>1 DEF RunOk, Span, SameRead, Lists, Bounces, Replies, Inbox!Batch
  <1>5. ReadIsCovered(x)'
    BY <1>1 DEF RunOk, ReadIsCovered, SameRead, Inbox!Batch, Covered
  <1>6. Owns(x)'
    BY <1>1 DEF RunOk, Owns, SameRead, Answering, Bounces, Replies
  <1>7. SawTheCadence(x)'
    BY <1>1 DEF RunOk, SawTheCadence, SameRead, Inbox!Batch
  <1>8. \A m \in Inbox!Messages : Unseen(x, m) => Unseen(w, m)
    BY <1>1 DEF Unseen, SameRead, Replies, Inbox!First
  <1>9. \A m \in Inbox!Messages :
          Handling(w, m) /\ w.cached /\ kind[m] # "bounce" => Handling(x, m)
    BY <1>1, <1>3 DEF Handling, SameRead, Replies, Answering
  <1>10. x.at \notin {"idle", "read"} /\ (x.at \in Lists => x.todo # {})
    BY <1>1 DEF Lists
  <1> QED
    BY <1>1, <1>4, <1>5, <1>6, <1>7, <1>8, <1>9, <1>10 DEF RunOk

\* What a step of run r, that leaves its record as x, owes the invariant.
LEMMA RunStep ==
  ASSUME InboxInv, InboxType', WorldMoves, NEW r \in Runs, NEW x \in Syncs,
         sync' = [sync EXCEPT ![r] = x],
         RunOk(x)', x.at \in Lists => x.todo # {},
         CursorInv',
         x.knew => \A m \in x.apply :
           (sync[r].knew /\ m \in sync[r].apply) \/ stored[m] # "placed",
         \A m \in Inbox!Messages : Untouched(m) =>
           Untouched(m)' \/ (sync[r].knew /\ m \in sync[r].apply /\ ~Unseen(x, m)),
         \A m \in Inbox!Messages : Unseen(x, m) => Unseen(sync[r], m) \/ stored[m] # "placed",
         \A m \in Inbox!Messages : counted'[m] = 1 => m \in classified',
         faults' = 0 =>
           faults = 0 /\ \A m \in Inbox!Messages \ reread' : \A s \in Inbox!Running' :
             stored'[m] = "placed" /\ kind[m] \in {"reply", "optout"} /\ woken'[s] < m =>
               IF stored[m] = "placed"
                 THEN m \notin reread /\ (Handling(sync[r], m) => Handling(x, m))
                 ELSE Handling(x, m)
  PROVE  InboxInv'
  <1> USE DEF InboxInv
  <1>0. /\ sync \in [Runs -> Syncs] /\ kind' = kind
        /\ stored \in [Inbox!Messages -> {"none", "unplaced", "placed"}]
        /\ arrived \in Nat /\ Inbox!Messages \subseteq Nat
    BY ServiceAssumption DEF InboxType, WorldMoves, Inbox!Messages
  <1>1. sync'[r] = x /\ \A q \in Runs : q # r => sync'[q] = sync[q]
    BY <1>0
  <1>2. RunsAreOk'
    <2> SUFFICES ASSUME NEW q \in Runs
                 PROVE  RunOk(sync[q])' /\ (sync'[q].at \in Lists => sync'[q].todo # {})
      BY DEF RunsAreOk
    <2>1. CASE q = r
      BY <1>1, <2>1 DEF RunOk, Span, ReadIsCovered, Owns, SawTheCadence
    <2>2. CASE q # r
      <3>1. PICK w \in Syncs : w = sync[q]
        BY <1>0
      <3>2. RunOk(w)'
        BY <3>1, WorldKeeps DEF RunsAreOk
      <3> QED
        BY <1>1, <2>2, <3>1, <3>2 DEF RunsAreOk, RunOk, Span, ReadIsCovered, Owns, SawTheCadence
    <2> QED
      BY <2>1, <2>2
  <1>3. \A q \in Runs : q # r /\ sync[q].knew =>
          \A m \in sync[q].apply : m \in Inbox!Messages /\ stored[m] = "placed"
    BY <1>0, Fields DEF RunsAreOk, RunOk, Owns
  <1>4. \A q \in Runs : q # r /\ sync[q].knew /\ x.knew => sync[q].apply \cap x.apply = {}
    BY <1>3 DEF OwnedByOne
  <1>5. OwnedByOne'
    <2> SUFFICES ASSUME NEW p \in Runs, NEW q \in Runs, p # q, sync'[p].knew, sync'[q].knew
                 PROVE  sync'[p].apply \cap sync'[q].apply = {}
      BY DEF OwnedByOne
    <2>1. CASE p = r
      BY <1>1, <1>4, <2>1
    <2>2. CASE q = r
      BY <1>1, <1>4, <2>2
    <2>3. CASE p # r /\ q # r
      BY <1>1, <2>3 DEF OwnedByOne
    <2> QED
      BY <2>1, <2>2, <2>3
  <1>6. ActsOnce'
    <2>1. ASSUME NEW m \in Inbox!Messages, stored'[m] # "placed" PROVE Untouched(m)'
      <3>1. stored[m] # "placed"
        BY <2>1 DEF WorldMoves
      <3>2. ~(sync[r].knew /\ m \in sync[r].apply)
        BY <3>1 DEF RunsAreOk, RunOk, Owns
      <3> QED
        BY <3>1, <3>2 DEF ActsOnce
    <2>2. ASSUME NEW q \in Runs, NEW m \in Inbox!Messages, Unseen(sync'[q], m) PROVE Untouched(m)'
      <3>1. CASE q = r
        <4>1. Unseen(x, m)
          BY <1>1, <2>2, <3>1
        <4>2. Untouched(m)
          BY <4>1 DEF ActsOnce
        <4> QED
          BY <4>1, <4>2
      <3>2. CASE q # r
        <4>1. Unseen(sync[q], m)
          BY <1>1, <2>2, <3>2
        <4>2. Untouched(m) /\ sync[q].knew /\ m \in sync[q].apply
          BY <4>1 DEF ActsOnce, Unseen
        <4>3. ~(sync[r].knew /\ m \in sync[r].apply)
          BY <3>2, <4>2 DEF OwnedByOne
        <4> QED
          BY <4>2, <4>3
      <3> QED
        BY <3>1, <3>2
    <2>3. \A w, m : Unseen(w, m)' <=> Unseen(w', m')
      BY <1>0 DEF Unseen, Inbox!First
    <2> QED
      BY <2>1, <2>2, <1>0 DEF ActsOnce, Unseen, Inbox!Messages
  <1>7. RepliesAreHandled'
    <2> SUFFICES ASSUME faults' = 0, NEW m \in Inbox!Messages \ reread', stored'[m] = "placed",
                        kind[m] \in {"reply", "optout"}, NEW s \in Inbox!Running', woken'[s] < m
                 PROVE  \E q \in Runs : Handling(sync'[q], m)
      BY <1>0 DEF RepliesAreHandled, Handling, Inbox!Messages
    <2>1. CASE stored[m] # "placed"
      BY <1>1, <2>1
    <2>2. CASE stored[m] = "placed"
      <3>1. m <= arrived /\ m \in Nat
        BY <1>0, <2>2 DEF InboxType
      <3>2. s \in Inbox!Running /\ woken[s] < m
        BY <1>0, <3>1 DEF WorldMoves
      <3>3. PICK q \in Runs : Handling(sync[q], m)
        BY <2>2, <3>2 DEF RepliesAreHandled
      <3>4. CASE q = r
        BY <1>1, <2>2, <3>3, <3>4
      <3>5. CASE q # r
        BY <1>1, <3>3, <3>5
      <3> QED
        BY <3>4, <3>5
    <2> QED
      BY <2>1, <2>2
  <1> QED
    BY <1>2, <1>5, <1>6, <1>7

(***************************************************************************)
(* The operations of the world                                             *)
(***************************************************************************)

\* A step beside the runs, of mail that arrives or cadences that start.
LEMMA WorldStep ==
  ASSUME InboxInv, InboxType', WorldMoves, cursor' = cursor, sync' = sync, stored' = stored,
         classified' = classified, counted' = counted, bounced' = bounced,
         unplaceable' = unplaceable, reread' = reread, faults' = faults
  PROVE  InboxInv'
  <1> USE DEF InboxInv
  <1>0. sync \in [Runs -> Syncs] /\ kind' = kind
    BY DEF InboxType, WorldMoves
  <1>1. RunsAreOk'
    <2> SUFFICES ASSUME NEW q \in Runs
                 PROVE  RunOk(sync[q])' /\ (sync'[q].at \in Lists => sync'[q].todo # {})
      BY DEF RunsAreOk
    <2>1. PICK w \in Syncs : w = sync[q]
      BY <1>0
    <2>2. RunOk(w)'
      BY <2>1, WorldKeeps DEF RunsAreOk
    <2> QED
      BY <2>1, <2>2 DEF RunsAreOk, RunOk, Span, ReadIsCovered, Owns, SawTheCadence
  <1>2. CursorInv'
    BY DEF CursorInv, Covered
  <1>3. OwnedByOne'
    BY DEF OwnedByOne
  <1>4. ActsOnce'
    BY <1>0 DEF ActsOnce, Untouched, Unseen, Inbox!First, Inbox!Messages
  <1>5. RepliesAreHandled'
    <2> SUFFICES ASSUME faults = 0, NEW m \in Inbox!Messages \ reread, stored[m] = "placed",
                        kind[m] \in {"reply", "optout"}, NEW s \in Inbox!Running', woken'[s] < m
                 PROVE  \E q \in Runs : Handling(sync[q], m)
      BY <1>0 DEF RepliesAreHandled, Handling, Inbox!Messages
    <2>1. m <= arrived /\ m \in Nat /\ arrived \in Nat
      BY ServiceAssumption DEF InboxType, Inbox!Messages
    <2>2. s \in Inbox!Running /\ woken[s] < m
      BY <2>1 DEF WorldMoves
    <2> QED
      BY <2>2 DEF RepliesAreHandled
  <1> QED
    BY <1>1, <1>2, <1>3, <1>4, <1>5

\* A step that wakes no cadence.
LEMMA NoneWakes ==
  ASSUME InboxType, arrived' = arrived, kind' = kind, woken' = woken,
         \A m \in Inbox!Messages : stored[m] # "none" => stored'[m] # "none",
         \A m \in Inbox!Messages : stored[m] = "placed" => stored'[m] = "placed",
         unplaceable \subseteq unplaceable', Inbox!Running' \subseteq Inbox!Running
  PROVE  WorldMoves
  <1>1. arrived \in Nat
    BY ServiceAssumption DEF InboxType
  <1> QED
    BY <1>1 DEF WorldMoves, Inbox!Running

\* A message arrives: no run has read it, and the cursor is before it.
LEMMA ArriveStep ==
  ASSUME InboxInv, Inbox!Arrive
  PROVE  InboxInv'
  <1> USE DEF InboxInv
  <1>0. /\ UNCHANGED <<kind, known, cursor, stored, classified, cadence, started, lead, sync,
                       counted, bounced, woken, unplaceable, reread, syncs, moves, faults>>
        /\ arrived' = arrived + 1 /\ arrived < MaxMail
    BY DEF Inbox!Arrive, Inbox!crm, Inbox!history, Inbox!bounds
  <1>1. arrived \in 0 .. MaxMail /\ MaxMail \in Nat
    BY ServiceAssumption DEF InboxType
  <1>2. InboxType'
    BY <1>0, <1>1 DEF InboxType, Inbox!Messages
  <1>3. WorldMoves
    BY <1>0, <1>1 DEF WorldMoves, Inbox!Running
  <1> QED
    BY <1>0, <1>2, <1>3, WorldStep

\* The lead becomes known: runs go on with what they read.
LEMMA LearnStep ==
  ASSUME InboxInv, Inbox!Learn
  PROVE  InboxInv'
  <1> USE DEF InboxInv
  <1>0. /\ UNCHANGED <<arrived, kind, cursor, stored, classified, cadence, started, lead, sync,
                       counted, bounced, woken, unplaceable, reread, syncs, moves, faults>>
        /\ known' = TRUE
    BY DEF Inbox!Learn, Inbox!crm, Inbox!history, Inbox!bounds
  <1>1. InboxType'
    BY <1>0 DEF InboxType, Inbox!Messages
  <1>2. WorldMoves
    BY <1>0, NoneWakes DEF Inbox!Running
  <1> QED
    BY <1>0, <1>1, <1>2, WorldStep

\* A cadence starts or resumes: it was woken after every message that has arrived.
LEMMA ActivateStep ==
  ASSUME InboxInv, NEW s \in Cadences, Inbox!Activate(s)
  PROVE  InboxInv'
  <1> USE DEF InboxInv
  <1>0. /\ UNCHANGED <<arrived, kind, known, cursor, stored, classified, lead, sync,
                       counted, bounced, unplaceable, reread, syncs, faults>>
        /\ cadence' = [cadence EXCEPT ![s] = "active"] /\ woken' = [woken EXCEPT ![s] = arrived]
    BY DEF Inbox!Activate, Inbox!mail
  <1>1. arrived \in Nat
    BY ServiceAssumption DEF InboxType
  <1>2. InboxType'
    BY <1>0, <1>1 DEF InboxType, Inbox!Messages
  <1>3. WorldMoves
    BY <1>0, <1>1 DEF InboxType, WorldMoves, Inbox!Running
  <1> QED
    BY <1>0, <1>2, <1>3, WorldStep

(***************************************************************************)
(* The operations of a run                                                 *)
(***************************************************************************)

\* The message a run is at is one it read.
LEMMA FirstIsRead ==
  ASSUME InboxInv, NEW r \in Runs, sync[r].at \in Lists, NEW m, m = Inbox!First(sync[r])
  PROVE  /\ m \in sync[r].todo /\ m \in Inbox!Batch(sync[r]) /\ m \in Inbox!Messages
         /\ m <= arrived
  <1>1. sync[r] \in Syncs /\ RunOk(sync[r]) /\ sync[r].todo # {} /\ arrived \in 0 .. MaxMail
    BY DEF InboxInv, InboxType, RunsAreOk
  <1>2. sync[r].todo \subseteq Inbox!Messages /\ sync[r].since \in Nat /\ sync[r].last \in Nat
    BY <1>1, Fields
  <1>3. sync[r].todo \subseteq Nat
    BY <1>2 DEF Inbox!Messages
  <1>4. m \in sync[r].todo
    BY <1>1, <1>3, FirstIsThere
  <1>5. sync[r].todo \subseteq Inbox!Batch(sync[r]) /\ sync[r].last <= arrived
    BY <1>1 DEF RunOk, Span, Lists, Inbox!Batch
  <1> QED
    BY <1>1, <1>2, <1>4, <1>5, ServiceAssumption DEF Inbox!Batch

\* A run with a message fewer to go through, done with it or covered.
LEMMA ShorterIsOk ==
  ASSUME NEW w \in Syncs, w.at \in {"store", "bounce", "reply"}, RunOk(w)',
         NEW y \in Syncs, SameRead(w, y), y.at = w.at, y.todo \subseteq w.todo,
         y.apply = w.apply, w.unsaved => y.unsaved,
         w.at = "store" /\ ~y.unsaved => \A m \in w.todo \ y.todo : Covered(m)'
  PROVE  RunOk(y)'
  <1>0. Inbox!Batch(y) = Inbox!Batch(w)
    BY DEF SameRead, Inbox!Batch
  <1>1. Span(y)'
    BY <1>0 DEF RunOk, Span, SameRead, Inbox!Batch
  <1>2. ReadIsCovered(y)'
    <2>1. ~y.resync => \A m \in 1 .. y.since : Covered(m)'
      BY DEF RunOk, ReadIsCovered, SameRead, Covered
    <2>2. ASSUME ~y.unsaved, NEW m \in Inbox!Batch(y)
          PROVE  Covered(m)' \/ (y.at = "store" /\ m \in y.todo)
      BY <1>0, <2>2, Fields DEF RunOk, ReadIsCovered, Covered, Inbox!Batch
    <2> QED
      BY <2>1, <2>2 DEF ReadIsCovered, Covered, Inbox!Batch
  <1>3. Owns(y)'
    BY DEF RunOk, Owns, SameRead
  <1>4. SawTheCadence(y)'
    BY <1>0 DEF RunOk, SawTheCadence, SameRead, Inbox!Batch, Inbox!Running
  <1> QED
    BY <1>1, <1>2, <1>3, <1>4 DEF RunOk

\* A run that is done with its first message: w is its record but for that message, and y
\* the record without it.
LEMMA DoneStep ==
  ASSUME InboxInv, InboxType', WorldMoves, CursorInv', NEW r \in Runs,
         NEW w \in Syncs, w.at \in {"store", "bounce", "reply"}, Inbox!Done(r, w),
         NEW y, y = Listing(w, w.todo \ {Inbox!First(w)}), RunOk(y)',
         y.knew => \A m \in y.apply :
           (sync[r].knew /\ m \in sync[r].apply) \/ stored[m] # "placed",
         \A m \in Inbox!Messages : Untouched(m) =>
           Untouched(m)' \/ (sync[r].knew /\ m \in sync[r].apply /\ ~Unseen(y, m)),
         \A m \in Inbox!Messages : Unseen(y, m) => Unseen(sync[r], m) \/ stored[m] # "placed",
         \A m \in Inbox!Messages : counted'[m] = 1 => m \in classified',
         faults' = 0 =>
           faults = 0 /\ \A m \in Inbox!Messages \ reread' : \A s \in Inbox!Running' :
             stored'[m] = "placed" /\ kind[m] \in {"reply", "optout"} /\ woken'[s] < m =>
               IF stored[m] = "placed"
                 THEN m \notin reread /\ (Handling(sync[r], m) => Handling(y, m))
                 ELSE Handling(y, m)
  PROVE  InboxInv'
  <1>1. y \in Syncs /\ y.at = w.at
    <2>1. w.todo \ {Inbox!First(w)} \subseteq Inbox!Messages
      BY Fields
    <2> QED
      BY <2>1, Listed
  <1>2. PICK x : x = Inbox!Onward(y)
    OBVIOUS
  <1>3. sync' = [sync EXCEPT ![r] = x]
    BY <1>2 DEF Inbox!Done, Listing
  <1>4. kind' = kind
    BY DEF WorldMoves
  <1>5. /\ x \in Syncs /\ RunOk(x)' /\ x.at \notin {"idle", "read"}
        /\ x.at \in Lists => x.todo # {}
        /\ SameRead(y, x) /\ x.apply = y.apply
        /\ \A m \in Inbox!Messages : Unseen(x, m) => Unseen(y, m)
        /\ \A m \in Inbox!Messages :
             Handling(y, m) /\ y.cached /\ kind[m] # "bounce" => Handling(x, m)
    BY <1>1, <1>2, <1>4, GoingOnIsOk
  <1>6. ASSUME NEW m \in Inbox!Messages, NEW s \in Inbox!Running', woken'[s] < m,
               Handling(y, m), kind[m] \in {"reply", "optout"}
        PROVE  Handling(x, m)
    <2>1. m \in y.apply
      BY <1>6 DEF Handling
    <2>2. m \in Inbox!Batch(y)
      BY <1>1, <2>1 DEF RunOk, Span, Inbox!Batch
    <2>3. y.cached
      BY <1>1, <1>6, <2>2 DEF RunOk, SawTheCadence, Inbox!Batch
    <2> QED
      BY <1>5, <1>6, <2>3
  <1>7. x.knew => \A m \in x.apply :
          (sync[r].knew /\ m \in sync[r].apply) \/ stored[m] # "placed"
    BY <1>5 DEF SameRead
  <1>8. \A m \in Inbox!Messages : Untouched(m) =>
          Untouched(m)' \/ (sync[r].knew /\ m \in sync[r].apply /\ ~Unseen(x, m))
    BY <1>5
  <1>9. \A m \in Inbox!Messages : Unseen(x, m) => Unseen(sync[r], m) \/ stored[m] # "placed"
    BY <1>5
  <1>10. faults' = 0 =>
           faults = 0 /\ \A m \in Inbox!Messages \ reread' : \A s \in Inbox!Running' :
             stored'[m] = "placed" /\ kind[m] \in {"reply", "optout"} /\ woken'[s] < m =>
               IF stored[m] = "placed"
                 THEN m \notin reread /\ (Handling(sync[r], m) => Handling(x, m))
                 ELSE Handling(x, m)
    BY <1>6
  <1> QED
    BY <1>3, <1>5, <1>7, <1>8, <1>9, <1>10, RunStep

\* A worker without a run owes nothing.
LEMMA IdleIsOk ==
  ASSUME InboxInv
  PROVE  /\ Inbox!Idle \in Syncs /\ RunOk(Inbox!Idle) /\ Inbox!Idle.at \notin Lists
         /\ Inbox!Idle.apply = {} /\ Inbox!Idle.at = "idle" /\ ~Inbox!Idle.knew
  BY ServiceAssumption DEF InboxInv, InboxType, Inbox!Idle, Syncs, SyncPlaces, RunOk, Span,
     ReadIsCovered, Owns, SawTheCadence, Lists, Answering, Inbox!Batch

\* A run that ends leaves nothing to do: it may move the cursor, over what is covered.
LEMMA EndStep ==
  ASSUME InboxInv, NEW r \in Runs, sync' = [sync EXCEPT ![r] = Inbox!Idle],
         UNCHANGED <<arrived, kind, known, stored, classified, cadence, lead, counted, bounced,
                     woken, unplaceable, reread>>,
         cursor' \in 0 .. arrived, CursorInv', faults' \in Nat,
         faults' = 0 => faults = 0 /\ sync[r].at \notin Lists
  PROVE  InboxInv'
  <1> USE DEF InboxInv
  <1>1. PICK x : x = Inbox!Idle
    OBVIOUS
  <1>2. /\ x \in Syncs /\ RunOk(x) /\ x.at \notin Lists /\ x.apply = {} /\ x.at = "idle" /\ ~x.knew
    BY <1>1, IdleIsOk
  <1>3. sync' = [sync EXCEPT ![r] = x]
    BY <1>1
  <1>4. InboxType'
    BY <1>2, <1>3 DEF InboxType, Inbox!Messages
  <1>5. WorldMoves
    BY NoneWakes DEF Inbox!Running
  <1>6. RunOk(x)'
    BY <1>2, <1>4, <1>5, WorldKeeps
  <1>7. \A m \in Inbox!Messages : Untouched(m) => Untouched(m)'
    BY DEF Untouched
  <1>8. \A m : ~Unseen(x, m)
    BY <1>2 DEF Unseen
  <1>9. \A m \in Inbox!Messages : counted'[m] = 1 => m \in classified'
    BY DEF ActsOnce
  <1>10. faults' = 0 =>
           faults = 0 /\ \A m \in Inbox!Messages \ reread' : \A s \in Inbox!Running' :
             stored'[m] = "placed" /\ kind[m] \in {"reply", "optout"} /\ woken'[s] < m =>
               IF stored[m] = "placed"
                 THEN m \notin reread /\ (Handling(sync[r], m) => Handling(x, m))
                 ELSE Handling(x, m)
    <2>1. \A m : Handling(sync[r], m) => sync[r].at \in Lists
      BY DEF Handling, Lists, Answering
    <2> QED
      BY <2>1
  <1> QED
    BY <1>2, <1>3, <1>4, <1>5, <1>6, <1>7, <1>8, <1>9, <1>10, RunStep

\* A run that dies leaves its messages stored; with a fault nothing is promised of them.
LEMMA FailStep ==
  ASSUME InboxInv, NEW r \in Runs, Inbox!Fail(r)
  PROVE  InboxInv'
  <1>0. /\ UNCHANGED <<arrived, kind, known, cursor, stored, classified, cadence, started, lead,
                       counted, bounced, woken, unplaceable, reread, syncs, moves>>
        /\ faults' = faults + 1 /\ sync' = [sync EXCEPT ![r] = Inbox!Idle]
    BY DEF Inbox!Fail, Inbox!mail, Inbox!crm, Inbox!history
  <1>1. faults \in Nat /\ cursor \in 0 .. arrived /\ CursorInv
    BY DEF InboxInv, InboxType
  <1>2. CursorInv'
    BY <1>0, <1>1 DEF CursorInv, Covered
  <1>3. faults' \in Nat /\ faults' # 0
    BY <1>0, <1>1
  <1>4. cursor' \in 0 .. arrived
    BY <1>0, <1>1
  <1> QED
    BY <1>0, <1>2, <1>3, <1>4, EndStep

\* The cursor moves to where the run's own reading, and the one before it, reach.
LEMMA CloseStep ==
  ASSUME InboxInv, NEW r \in Runs, Inbox!Close(r)
  PROVE  InboxInv'
  <1> USE DEF InboxInv
  <1>0. /\ UNCHANGED <<arrived, kind, known, stored, classified, cadence, started, lead,
                       counted, bounced, woken, unplaceable, reread, syncs, moves, faults>>
        /\ cursor' = IF sync[r].resync THEN cursor ELSE Inbox!CursorAfter(sync[r])
        /\ sync' = [sync EXCEPT ![r] = Inbox!Idle] /\ sync[r].at = "close"
    BY DEF Inbox!Close, Inbox!mail, Inbox!crm, Inbox!history, Inbox!bounds
  <1>1. PICK w \in Syncs : w = sync[r]
    BY DEF InboxType
  <1>2. /\ RunOk(w) /\ w.at = "close" /\ w.since \in Nat /\ w.now \in Nat /\ w.last \in Nat
        /\ w.more \in BOOLEAN /\ w.resync \in BOOLEAN /\ w.unsaved \in BOOLEAN
    BY <1>0, <1>1, Fields DEF RunsAreOk
  <1>3. /\ faults \in Nat /\ cursor \in 0 .. arrived /\ arrived \in Nat
    BY ServiceAssumption DEF InboxType
  <1>4. /\ w.since <= w.now /\ w.now <= arrived /\ w.since <= w.last /\ w.last <= arrived
        /\ (w.more => w.since < w.last) /\ (~w.more => w.now <= w.last)
    BY <1>2 DEF RunOk, Span
  <1>5. CASE w.resync \/ w.unsaved
    <2>1. cursor' = cursor
      BY <1>0, <1>1, <1>5 DEF Inbox!CursorAfter
    <2>2. CursorInv'
      BY <1>0, <2>1 DEF CursorInv, Covered
    <2> QED
      BY <1>0, <1>3, <2>1, <2>2, EndStep DEF Lists
  <1>6. CASE ~w.resync /\ ~w.unsaved
    <2>1. cursor' \in 0 .. arrived /\ cursor' <= w.last
      BY <1>0, <1>1, <1>2, <1>3, <1>4, <1>6 DEF Inbox!CursorAfter
    <2>2. \A m \in 1 .. w.last : Covered(m)
      BY <1>2, <1>6 DEF RunOk, ReadIsCovered, Inbox!Batch
    <2>3. CursorInv'
      BY <1>0, <1>2, <2>1, <2>2 DEF CursorInv, Covered
    <2> QED
      BY <1>0, <1>3, <2>1, <2>3, EndStep DEF Lists
  <1> QED
    BY <1>2, <1>5, <1>6

\* A run that starts from the cursor starts from covered mail.
LEMMA BeginRunStep ==
  ASSUME InboxInv, NEW r \in Runs, Inbox!Begin(r)
  PROVE  InboxInv'
  <1> USE DEF InboxInv
  <1>0. /\ UNCHANGED <<arrived, kind, known, cursor, stored, classified, cadence, started, lead,
                       counted, bounced, woken, unplaceable, reread, moves, faults>>
        /\ sync[r] = Inbox!Idle
    BY DEF Inbox!Begin, Inbox!mail, Inbox!crm, Inbox!history
  <1>1. PICK resync \in BOOLEAN, since \in 0 .. cursor :
          /\ ~resync => since = cursor
          /\ sync' = [sync EXCEPT ![r] = [Inbox!Idle EXCEPT !.at = "read", !.resync = resync,
                                            !.since = since, !.now = arrived]]
    BY DEF Inbox!Begin
  <1>2. PICK x : x = [Inbox!Idle EXCEPT !.at = "read", !.resync = resync,
                                        !.since = since, !.now = arrived]
    OBVIOUS
  <1>3. arrived \in Nat /\ cursor \in 0 .. arrived
    BY ServiceAssumption DEF InboxType
  <1>4. /\ x \in Syncs /\ x.at = "read" /\ x.resync = resync /\ x.since = since /\ x.now = arrived
        /\ ~x.knew /\ x.apply = {} /\ ~x.unsaved
    <2>1. since \in Nat /\ arrived \in Nat
      BY <1>3
    <2>2. x = [at |-> "read", resync |-> resync, since |-> since, now |-> arrived, last |-> 0,
               more |-> FALSE, knew |-> FALSE, cached |-> FALSE, invalid |-> FALSE,
               todo |-> {}, apply |-> {}, unsaved |-> FALSE]
      BY <1>2 DEF Inbox!Idle
    <2> QED
      BY <2>1, <2>2 DEF Syncs, SyncPlaces
  <1>5. sync' = [sync EXCEPT ![r] = x]
    BY <1>1, <1>2
  <1>6. InboxType'
    BY <1>0, <1>4, <1>5 DEF InboxType, Inbox!Messages
  <1>7. WorldMoves
    BY <1>0, NoneWakes DEF Inbox!Running
  <1>8. RunOk(x)
    BY <1>1, <1>3, <1>4 DEF RunOk, Span, ReadIsCovered, Owns, SawTheCadence, Lists, Answering,
       CursorInv
  <1>9. RunOk(x)'
    BY <1>4, <1>6, <1>7, <1>8, WorldKeeps
  <1>10. CursorInv' /\ x.at \notin Lists
    BY <1>0, <1>4 DEF CursorInv, Covered, Lists
  <1>11. \A m \in Inbox!Messages : Untouched(m) => Untouched(m)'
    BY <1>0 DEF Untouched
  <1>12. \A m : ~Unseen(x, m)
    BY <1>4 DEF Unseen
  <1>13. \A m \in Inbox!Messages : counted'[m] = 1 => m \in classified'
    BY <1>0 DEF ActsOnce
  <1>14. \A m : ~Handling(sync[r], m)
    BY <1>0, IdleIsOk DEF Handling
  <1>15. faults' = 0 =>
           faults = 0 /\ \A m \in Inbox!Messages \ reread' : \A s \in Inbox!Running' :
             stored'[m] = "placed" /\ kind[m] \in {"reply", "optout"} /\ woken'[s] < m =>
               IF stored[m] = "placed"
                 THEN m \notin reread /\ (Handling(sync[r], m) => Handling(x, m))
                 ELSE Handling(x, m)
    BY <1>0, <1>14
  <1> QED
    BY <1>4, <1>5, <1>6, <1>7, <1>9, <1>10, <1>11, <1>12, <1>13, <1>15, RunStep

Reading(w, l, b, k, c, i) ==
    [w EXCEPT !.at = "store", !.last = l, !.todo = w.since + 1 .. l, !.more = b,
              !.knew = k, !.cached = c, !.invalid = i]

\* The fields of a run's record when it has read its batch.
LEMMA WasRead ==
  ASSUME NEW w \in Syncs, NEW l \in Nat, w.since + 1 .. l \subseteq Inbox!Messages,
         NEW b \in BOOLEAN, NEW k \in BOOLEAN, NEW c \in BOOLEAN, NEW i \in BOOLEAN,
         NEW y, y = Reading(w, l, b, k, c, i)
  PROVE  /\ y \in Syncs /\ y.at = "store" /\ y.resync = w.resync /\ y.since = w.since
         /\ y.now = w.now /\ y.last = l /\ y.more = b /\ y.knew = k /\ y.cached = c
         /\ y.todo = w.since + 1 .. l /\ y.apply = w.apply /\ y.unsaved = w.unsaved
  <1>1. PICK T : T = w.since + 1 .. l
    OBVIOUS
  <1>2. y = [w EXCEPT !.at = "store", !.last = l, !.todo = T, !.more = b,
                      !.knew = k, !.cached = c, !.invalid = i]
    BY <1>1 DEF Reading
  <1>3. w = [at |-> w.at, resync |-> w.resync, since |-> w.since, now |-> w.now,
             last |-> w.last, more |-> w.more, knew |-> w.knew, cached |-> w.cached,
             invalid |-> w.invalid, todo |-> w.todo, apply |-> w.apply, unsaved |-> w.unsaved]
    BY DEF Syncs
  <1>4. y = [at |-> "store", resync |-> w.resync, since |-> w.since, now |-> w.now,
             last |-> l, more |-> b, knew |-> k, cached |-> c,
             invalid |-> i, todo |-> T, apply |-> w.apply, unsaved |-> w.unsaved]
    BY <1>2, <1>3
  <1>5. T \subseteq Inbox!Messages
    BY <1>1
  <1>6. y \in Syncs
    BY <1>4, <1>5, Fields DEF Syncs, SyncPlaces
  <1> QED
    BY <1>1, <1>4, <1>6

\* A run reads its batch: everything in it is still to be stored.
LEMMA ReadStep ==
  ASSUME InboxInv, NEW r \in Runs, Inbox!Read(r)
  PROVE  InboxInv'
  <1> USE DEF InboxInv
  <1>0. /\ UNCHANGED <<arrived, kind, known, cursor, stored, classified, cadence, started, lead,
                       counted, bounced, woken, unplaceable, reread, syncs, moves, faults>>
        /\ sync[r].at = "read"
    BY DEF Inbox!Read, Inbox!mail, Inbox!crm, Inbox!history, Inbox!bounds
  <1>1. PICK w \in Syncs : w = sync[r]
    BY DEF InboxType
  <1>2. /\ RunOk(w) /\ w.at = "read" /\ w.since \in Nat /\ w.now \in Nat
        /\ w.resync \in BOOLEAN /\ w.unsaved \in BOOLEAN
    BY <1>0, <1>1, Fields DEF RunsAreOk
  <1>3. arrived \in Nat /\ arrived <= MaxMail /\ MaxMail \in Nat
        /\ known \in BOOLEAN /\ lead.invalid \in BOOLEAN
    BY ServiceAssumption DEF InboxType
  <1>4. PICK l : l = IF arrived > w.since + ReadLimit THEN w.since + ReadLimit ELSE arrived
    OBVIOUS
  <1>5. w.since <= w.now /\ w.now <= arrived /\ w.apply = {} /\ ~w.unsaved
    BY <1>2 DEF RunOk, Span
  <1>6. /\ l \in Nat /\ w.since <= l /\ l <= arrived /\ (l < arrived => w.since < l)
        /\ (~(l < arrived) => w.now <= l)
    BY <1>2, <1>3, <1>4, <1>5, ServiceAssumption
  <1>7. w.since + 1 .. l \subseteq Inbox!Messages
    BY <1>2, <1>3, <1>6 DEF Inbox!Messages
  <1>8. PICK b : b = (l < arrived)
    OBVIOUS
  <1>9. PICK c : c = (Inbox!Occupying # {})
    OBVIOUS
  <1>10. PICK y : y = Reading(w, l, b, known, c, lead.invalid)
    OBVIOUS
  <1>11. /\ y \in Syncs /\ y.at = "store" /\ y.resync = w.resync /\ y.since = w.since
         /\ y.now = w.now /\ y.last = l /\ y.more = b /\ y.knew = known /\ y.cached = c
         /\ y.todo = w.since + 1 .. l /\ y.apply = w.apply /\ y.unsaved = w.unsaved
    <2>1. b \in BOOLEAN /\ c \in BOOLEAN
      BY <1>8, <1>9
    <2> QED
      BY <1>3, <1>6, <1>7, <1>10, <2>1, WasRead
  <1>12. PICK x : x = Inbox!Onward(y)
    OBVIOUS
  <1>13. sync' = [sync EXCEPT ![r] = x]
    BY <1>1, <1>4, <1>8, <1>9, <1>10, <1>12 DEF Inbox!Read, Reading
  <1>14. RunOk(y)
    <2>1. Span(y)
      BY <1>2, <1>3, <1>5, <1>6, <1>8, <1>11 DEF Span, Lists, Inbox!Batch
    <2>2. ReadIsCovered(y)
      BY <1>2, <1>11 DEF RunOk, ReadIsCovered, Inbox!Batch
    <2>3. Owns(y)
      BY <1>5, <1>11 DEF Owns, Answering
    <2>4. SawTheCadence(y)
      BY <1>9, <1>11 DEF SawTheCadence, Inbox!Running, Inbox!Occupying
    <2> QED
      BY <2>1, <2>2, <2>3, <2>4 DEF RunOk
  <1>15. WorldMoves
    BY <1>0, NoneWakes DEF Inbox!Running
  <1>16. kind' = kind /\ CursorInv'
    BY <1>0 DEF CursorInv, Covered
  <1>17. RunOk(y)'
    BY <1>0, <1>14 DEF RunOk, Span, ReadIsCovered, Covered, Owns, SawTheCadence, Inbox!Batch,
       Inbox!Running
  <1>18. /\ x \in Syncs /\ RunOk(x)' /\ x.apply = y.apply
         /\ x.at \in Lists => x.todo # {}
    BY <1>11, <1>12, <1>16, <1>17, GoingOnIsOk
  <1>19. InboxType'
    BY <1>0, <1>13, <1>18 DEF InboxType, Inbox!Messages
  <1>20. \A m : ~Unseen(x, m) /\ ~Handling(sync[r], m)
    BY <1>1, <1>5, <1>11, <1>18 DEF Unseen, Handling
  <1>21. \A m \in Inbox!Messages : Untouched(m) => Untouched(m)'
    BY <1>0 DEF Untouched
  <1>22. \A m \in Inbox!Messages : counted'[m] = 1 => m \in classified'
    BY <1>0 DEF ActsOnce
  <1>23. faults' = 0 =>
           faults = 0 /\ \A m \in Inbox!Messages \ reread' : \A s \in Inbox!Running' :
             stored'[m] = "placed" /\ kind[m] \in {"reply", "optout"} /\ woken'[s] < m =>
               IF stored[m] = "placed"
                 THEN m \notin reread /\ (Handling(sync[r], m) => Handling(x, m))
                 ELSE Handling(x, m)
    BY <1>0, <1>20
  <1>24. \A m : m \notin x.apply
    BY <1>5, <1>11, <1>18
  <1> QED
    BY <1>13, <1>15, <1>16, <1>18, <1>19, <1>20, <1>21, <1>22, <1>23, <1>24, RunStep

\* The record of a run that is done with its first message.
LEMMA DoneRecord ==
  ASSUME NEW w \in Syncs, NEW y, y = Listing(w, w.todo \ {Inbox!First(w)})
  PROVE  /\ y \in Syncs /\ SameRead(w, y) /\ y.at = w.at /\ y.apply = w.apply
         /\ y.unsaved = w.unsaved /\ y.todo = w.todo \ {Inbox!First(w)}
  <1>1. w.todo \ {Inbox!First(w)} \subseteq Inbox!Messages
    BY Fields
  <1> QED
    BY <1>1, Listed

\* Done leaves the runs in records the code knows.
LEMMA DoneType ==
  ASSUME InboxType, NEW r \in Runs, NEW w \in Syncs, Inbox!Done(r, w),
         w.at \in {"store", "bounce", "reply"}
  PROVE  sync' \in [Runs -> Syncs]
  <1>1. PICK y : y = Listing(w, w.todo \ {Inbox!First(w)})
    OBVIOUS
  <1>2. y \in Syncs
    BY <1>1, DoneRecord
  <1>3. Inbox!Onward(y) \in Syncs
    BY <1>2, GoesOn
  <1>4. sync' = [sync EXCEPT ![r] = Inbox!Onward(y)]
    BY <1>1 DEF Inbox!Done, Listing
  <1> QED
    BY <1>3, <1>4 DEF InboxType

\* Mail of nobody the CRM knows is passed over, and recorded so.
LEMMA PassOverStep ==
  ASSUME InboxInv, NEW r \in Runs, Inbox!PassOver(r)
  PROVE  InboxInv'
  <1> USE DEF InboxInv
  <1>1. PICK w \in Syncs : w = sync[r]
    BY DEF InboxType
  <1>2. PICK m0 : m0 = Inbox!First(w)
    OBVIOUS
  <1>0. /\ UNCHANGED <<arrived, kind, known, cursor, stored, classified, cadence, started, lead,
                       counted, bounced, woken, reread, syncs, moves, faults>>
        /\ w.at = "store" /\ unplaceable' = unplaceable \cup {m0} /\ Inbox!Done(r, w)
    BY <1>1, <1>2 DEF Inbox!PassOver, Inbox!mail, Inbox!crm, Inbox!bounds
  <1>3. RunOk(w) /\ m0 \in w.todo /\ m0 \in Inbox!Messages
    BY <1>0, <1>1, <1>2, FirstIsRead DEF RunsAreOk, Lists
  <1>4. PICK y : y = Listing(w, w.todo \ {Inbox!First(w)})
    OBVIOUS
  <1>5. /\ y \in Syncs /\ SameRead(w, y) /\ y.at = "store" /\ y.apply = w.apply
        /\ y.unsaved = w.unsaved /\ y.todo = w.todo \ {m0}
    BY <1>0, <1>2, <1>4, DoneRecord
  <1>6. sync' \in [Runs -> Syncs]
    BY <1>0, DoneType
  <1>7. InboxType'
    BY <1>0, <1>6 DEF InboxType, Inbox!Messages
  <1>8. WorldMoves
    BY <1>0, NoneWakes DEF Inbox!Running
  <1>9. RunOk(w)'
    BY <1>3, <1>7, <1>8, WorldKeeps
  <1>10. Covered(m0)'
    BY <1>0 DEF Covered
  <1>11. RunOk(y)'
    BY <1>0, <1>5, <1>9, <1>10, ShorterIsOk
  <1>12. CursorInv'
    BY <1>0 DEF CursorInv, Covered
  <1>13. y.knew => \A m \in y.apply :
           (sync[r].knew /\ m \in sync[r].apply) \/ stored[m] # "placed"
    BY <1>1, <1>5 DEF SameRead
  <1>14. \A m \in Inbox!Messages : Untouched(m) => Untouched(m)'
    BY <1>0 DEF Untouched
  <1>15. \A m \in Inbox!Messages : Unseen(y, m) => Unseen(sync[r], m)
    BY <1>0, <1>1, <1>5 DEF Unseen, SameRead
  <1>16. \A m \in Inbox!Messages : counted'[m] = 1 => m \in classified'
    BY <1>0 DEF ActsOnce
  <1>17. \A m : Handling(sync[r], m) => Handling(y, m)
    BY <1>0, <1>1, <1>5 DEF Handling, SameRead
  <1>18. faults' = 0 =>
           faults = 0 /\ \A m \in Inbox!Messages \ reread' : \A s \in Inbox!Running' :
             stored'[m] = "placed" /\ kind[m] \in {"reply", "optout"} /\ woken'[s] < m =>
               IF stored[m] = "placed"
                 THEN m \notin reread /\ (Handling(sync[r], m) => Handling(y, m))
                 ELSE Handling(y, m)
    BY <1>0, <1>17
  <1> QED
    BY <1>0, <1>4, <1>7, <1>8, <1>11, <1>12, <1>13, <1>14, <1>15, <1>16, <1>18, DoneStep

\* A write that fails: the run will leave the cursor where it is.
LEMMA NotSavedStep ==
  ASSUME InboxInv, NEW r \in Runs, Inbox!NotSaved(r)
  PROVE  InboxInv'
  <1> USE DEF InboxInv
  <1>1. PICK v \in Syncs : v = sync[r]
    BY DEF InboxType
  <1>2. PICK w : w = Spoiling(v)
    OBVIOUS
  <1>3. /\ w \in Syncs /\ SameRead(v, w) /\ w.at = v.at /\ w.todo = v.todo /\ w.apply = v.apply
        /\ w.unsaved
    BY <1>2, Spoiled
  <1>0. /\ UNCHANGED <<arrived, kind, known, cursor, stored, classified, cadence, started, lead,
                       counted, bounced, woken, unplaceable, reread, syncs, moves>>
        /\ v.at = "store" /\ faults' = faults + 1 /\ Inbox!Done(r, w)
    BY <1>1, <1>2 DEF Inbox!NotSaved, Inbox!mail, Inbox!crm, Inbox!history, Spoiling
  <1>4. PICK y : y = Listing(w, w.todo \ {Inbox!First(w)})
    OBVIOUS
  <1>5. /\ y \in Syncs /\ SameRead(w, y) /\ y.at = w.at /\ y.apply = w.apply
        /\ y.unsaved = w.unsaved /\ y.todo = w.todo \ {Inbox!First(w)}
    BY <1>3, <1>4, DoneRecord
  <1>6. SameRead(v, y)
    BY <1>3, <1>5 DEF SameRead
  <1>7. sync' \in [Runs -> Syncs]
    BY <1>0, <1>3, DoneType
  <1>8. faults \in Nat /\ faults' \in Nat /\ faults' # 0
    BY <1>0 DEF InboxType
  <1>9. InboxType'
    BY <1>0, <1>7, <1>8 DEF InboxType, Inbox!Messages
  <1>10. WorldMoves
    BY <1>0, NoneWakes DEF Inbox!Running
  <1>11. RunOk(v)'
    BY <1>1, <1>9, <1>10, WorldKeeps DEF RunsAreOk
  <1>12. RunOk(y)'
    BY <1>0, <1>3, <1>5, <1>6, <1>11, ShorterIsOk
  <1>13. CursorInv'
    BY <1>0 DEF CursorInv, Covered
  <1>14. y.knew => \A m \in y.apply :
           (sync[r].knew /\ m \in sync[r].apply) \/ stored[m] # "placed"
    BY <1>1, <1>3, <1>5, <1>6 DEF SameRead
  <1>15. \A m \in Inbox!Messages : Untouched(m) => Untouched(m)'
    BY <1>0 DEF Untouched
  <1>16. \A m \in Inbox!Messages : Unseen(y, m) => Unseen(sync[r], m)
    BY <1>0, <1>1, <1>3, <1>5, <1>6 DEF Unseen, SameRead
  <1>17. \A m \in Inbox!Messages : counted'[m] = 1 => m \in classified'
    BY <1>0 DEF ActsOnce
  <1> QED
    BY <1>0, <1>3, <1>4, <1>8, <1>9, <1>10, <1>12, <1>13, <1>14, <1>15, <1>16, <1>17, DoneStep

\* A message is stored; a run may act on it only if it was the one to place it.
LEMMA SaveStep ==
  ASSUME InboxInv, NEW r \in Runs, Inbox!Save(r)
  PROVE  InboxInv'
  <1> USE DEF InboxInv
  <1>1. PICK v \in Syncs : v = sync[r]
    BY DEF InboxType
  <1>2. PICK m0 : m0 = Inbox!First(v)
    OBVIOUS
  <1>3. PICK w : w = IF Inbox!Fresh(v, m0) THEN Taking(v, v.apply \cup {m0}) ELSE v
    OBVIOUS
  <1>0. /\ UNCHANGED <<arrived, kind, known, cursor, classified, cadence, started, lead,
                       counted, bounced, woken, unplaceable, syncs, moves, faults>>
        /\ v.at = "store" /\ Inbox!Kept(v, m0) /\ Inbox!Done(r, w)
        /\ stored' = IF Inbox!Fresh(v, m0)
                       THEN [stored EXCEPT ![m0] = IF v.knew THEN "placed" ELSE "unplaced"]
                       ELSE stored
        /\ reread' = IF Inbox!Fresh(v, m0) /\ v.resync THEN reread \cup {m0} ELSE reread
    BY <1>1, <1>2, <1>3 DEF Inbox!Save, Inbox!mail, Inbox!bounds, Taking
  <1>4. /\ RunOk(v) /\ m0 \in v.todo /\ m0 \in Inbox!Batch(v) /\ m0 \in Inbox!Messages
        /\ m0 <= arrived
    BY <1>0, <1>1, <1>2, FirstIsRead DEF RunsAreOk, Lists
  <1>5. /\ w \in Syncs /\ SameRead(v, w) /\ w.at = v.at /\ w.todo = v.todo
        /\ w.apply = IF Inbox!Fresh(v, m0) THEN v.apply \cup {m0} ELSE v.apply
        /\ w.unsaved = v.unsaved
    <2>1. CASE Inbox!Fresh(v, m0)
      <3>1. v.apply \cup {m0} \subseteq Inbox!Messages
        BY <1>4, Fields
      <3> QED
        BY <1>3, <2>1, <3>1, Taken
    <2>2. CASE ~Inbox!Fresh(v, m0)
      BY <1>3, <2>2 DEF SameRead
    <2> QED
      BY <2>1, <2>2
  <1>6. PICK y : y = Listing(w, w.todo \ {Inbox!First(w)})
    OBVIOUS
  <1>7. /\ y \in Syncs /\ SameRead(v, y) /\ y.at = "store" /\ y.apply = w.apply
        /\ y.unsaved = v.unsaved /\ y.todo = v.todo \ {m0}
    <2>1. Inbox!First(w) = m0
      BY <1>2, <1>5 DEF Inbox!First
    <2> QED
      BY <1>0, <1>5, <1>6, <2>1, DoneRecord DEF SameRead
  <1>8. sync' \in [Runs -> Syncs]
    BY <1>0, <1>5, DoneType
  <1>9. /\ stored' \in [Inbox!Messages -> {"none", "unplaced", "placed"}]
        /\ \A m \in Inbox!Messages : m # m0 => stored'[m] = stored[m]
        /\ Inbox!Fresh(v, m0) => stored'[m0] = IF v.knew THEN "placed" ELSE "unplaced"
        /\ ~Inbox!Fresh(v, m0) => stored'[m0] = stored[m0]
        /\ Inbox!Fresh(v, m0) => stored[m0] # "placed" /\ (stored[m0] = "none" \/ v.knew)
        /\ stored[m0] = "none" => Inbox!Fresh(v, m0)
    BY <1>0, <1>4 DEF InboxType, Inbox!Fresh
  <1>10. InboxType'
    BY <1>0, <1>4, <1>8, <1>9 DEF InboxType, Inbox!Messages
  <1>11. WorldMoves
    BY <1>0, <1>4, <1>9, NoneWakes DEF Inbox!Running
  <1>12. RunOk(v)'
    BY <1>4, <1>10, <1>11, WorldKeeps
  <1>13. Covered(m0)' /\ stored'[m0] # "none"
    BY <1>9 DEF Covered
  <1>14. RunOk(y)'
    <2>1. PICK z : z = Listing(v, v.todo \ {Inbox!First(v)})
      OBVIOUS
    <2>2. /\ z \in Syncs /\ SameRead(v, z) /\ z.at = v.at /\ z.apply = v.apply
          /\ z.unsaved = v.unsaved /\ z.todo = v.todo \ {m0}
      BY <1>2, <2>1, DoneRecord
    <2>3. RunOk(z)'
      BY <1>0, <1>12, <1>13, <2>2, ShorterIsOk
    <2>4. /\ SameRead(z, y) /\ y.at = z.at /\ y.unsaved = z.unsaved /\ y.todo = z.todo
          /\ y.at = "store" /\ m0 \in Inbox!Batch(z)
          /\ y.apply \subseteq z.apply \cup {m0}
      BY <1>0, <1>4, <1>5, <1>7, <2>2 DEF SameRead, Inbox!Batch
    <2>5. Span(y)'
      BY <2>3, <2>4 DEF RunOk, Span, SameRead, Lists, Inbox!Batch
    <2>6. ReadIsCovered(y)'
      BY <2>3, <2>4 DEF RunOk, ReadIsCovered, SameRead, Covered, Inbox!Batch
    <2>7. Owns(y)'
      <3>1. Inbox!Fresh(v, m0) => IF v.knew THEN stored'[m0] = "placed" ELSE kind'[m0] = "bounce"
        BY <1>0, <1>9 DEF Inbox!Kept
      <3>2. \A m \in y.apply : IF y.knew THEN stored'[m] = "placed" ELSE kind'[m] = "bounce"
        BY <1>5, <1>7, <2>2, <2>3, <3>1 DEF RunOk, Owns, SameRead
      <3>3. y.todo \cap y.apply = {}
        BY <1>0, <1>5, <1>7, <2>2, <2>3 DEF RunOk, Owns
      <3> QED
        BY <1>7, <3>2, <3>3 DEF Owns, Answering
    <2>8. SawTheCadence(y)'
      BY <2>3, <2>4 DEF RunOk, SawTheCadence, SameRead, Inbox!Batch, Inbox!Running
    <2> QED
      BY <2>5, <2>6, <2>7, <2>8 DEF RunOk
  <1>15. CursorInv'
    <2>1. ASSUME NEW m \in 1 .. cursor PROVE Covered(m)'
      <3>1. Covered(m)
        BY <2>1 DEF CursorInv
      <3>2. m \in Nat \ {0} /\ m <= arrived
        BY <2>1, ServiceAssumption DEF InboxType
      <3> QED
        BY <1>11, <3>1, <3>2, CoverGrows
    <2> QED
      BY <1>0, <2>1 DEF CursorInv, Covered
  <1>16. y.knew => \A m \in y.apply :
           (sync[r].knew /\ m \in sync[r].apply) \/ stored[m] # "placed"
    BY <1>1, <1>5, <1>7, <1>9 DEF SameRead
  <1>17. \A m \in Inbox!Messages : Untouched(m) => Untouched(m)'
    BY <1>0 DEF Untouched
  <1>18. \A m \in Inbox!Messages : Unseen(y, m) => Unseen(sync[r], m) \/ stored[m] # "placed"
    BY <1>0, <1>1, <1>5, <1>7, <1>9 DEF Unseen, SameRead
  <1>19. \A m \in Inbox!Messages : counted'[m] = 1 => m \in classified'
    BY <1>0 DEF ActsOnce
  <1>20. faults' = 0 =>
           faults = 0 /\ \A m \in Inbox!Messages \ reread' : \A s \in Inbox!Running' :
             stored'[m] = "placed" /\ kind[m] \in {"reply", "optout"} /\ woken'[s] < m =>
               IF stored[m] = "placed"
                 THEN m \notin reread /\ (Handling(sync[r], m) => Handling(y, m))
                 ELSE Handling(y, m)
    <2>1. reread \subseteq reread'
      BY <1>0
    <2>2. \A m : Handling(sync[r], m) => Handling(y, m)
      BY <1>1, <1>5, <1>7 DEF Handling, SameRead
    <2>3. ASSUME NEW m \in Inbox!Messages \ reread', stored'[m] = "placed", stored[m] # "placed"
          PROVE  Handling(y, m)
      <3>1. m = m0 /\ Inbox!Fresh(v, m0) /\ v.knew /\ ~v.resync
        BY <1>0, <1>9, <2>3, Fields
      <3> QED
        BY <1>5, <1>7, <3>1 DEF Handling, SameRead
    <2> QED
      BY <1>0, <2>1, <2>2, <2>3
  <1> QED
    BY <1>0, <1>5, <1>6, <1>10, <1>11, <1>14, <1>15, <1>16, <1>17, <1>18, <1>19, <1>20, DoneStep

\* A bounce is applied by the run that owns it, and it is off the run's list.
LEMMA ApplyBounceStep ==
  ASSUME InboxInv, NEW r \in Runs, Inbox!ApplyBounce(r)
  PROVE  InboxInv'
  <1> USE DEF InboxInv
  <1>1. PICK w \in Syncs : w = sync[r]
    BY DEF InboxType
  <1>2. PICK m0 : m0 = Inbox!First(w)
    OBVIOUS
  <1>0. /\ UNCHANGED <<arrived, kind, known, cursor, stored, classified, started, counted, woken,
                       unplaceable, reread, syncs, moves, faults>>
        /\ w.at = "bounce" /\ Inbox!Done(r, w)
        /\ lead' = [lead EXCEPT !.invalid = TRUE]
        /\ cadence' = [s \in Cadences |-> IF s \in Inbox!Running THEN "paused" ELSE cadence[s]]
        /\ bounced' = [bounced EXCEPT ![m0] = @ + 1]
    BY <1>1, <1>2 DEF Inbox!ApplyBounce, Inbox!mail, Inbox!bounds
  <1>3. /\ RunOk(w) /\ m0 \in w.todo /\ m0 \in Inbox!Messages
        /\ w.knew /\ m0 \in w.apply /\ kind[m0] = "bounce"
    BY <1>0, <1>1, <1>2, FirstIsRead DEF RunsAreOk, RunOk, Owns, Lists
  <1>4. bounced[m0] = 0
    <2>1. Unseen(w, m0)
      BY <1>0, <1>3 DEF Unseen
    <2> QED
      BY <1>1, <1>3, <2>1 DEF ActsOnce, Untouched
  <1>5. PICK y : y = Listing(w, w.todo \ {Inbox!First(w)})
    OBVIOUS
  <1>6. /\ y \in Syncs /\ SameRead(w, y) /\ y.at = "bounce" /\ y.apply = w.apply
        /\ y.unsaved = w.unsaved /\ y.todo = w.todo \ {m0}
    BY <1>0, <1>2, <1>5, DoneRecord
  <1>7. sync' \in [Runs -> Syncs]
    BY <1>0, DoneType
  <1>8. Inbox!Running' = {}
    BY <1>0 DEF Inbox!Running
  <1>9. /\ bounced' \in [Inbox!Messages -> {0, 1}]
        /\ \A m \in Inbox!Messages : m # m0 => bounced'[m] = bounced[m]
    <2>1. bounced \in [Inbox!Messages -> {0, 1}] /\ 0 + 1 = 1
      BY DEF InboxType
    <2>2. bounced' = [bounced EXCEPT ![m0] = 1]
      BY <1>0, <1>3, <1>4, <2>1
    <2> QED
      BY <1>3, <2>1, <2>2
  <1>10. InboxType'
    BY <1>0, <1>7, <1>9 DEF InboxType, Inbox!Messages
  <1>11. WorldMoves
    BY <1>0, <1>8, NoneWakes
  <1>12. RunOk(w)'
    BY <1>3, <1>10, <1>11, WorldKeeps
  <1>13. RunOk(y)'
    BY <1>0, <1>6, <1>12, ShorterIsOk
  <1>14. CursorInv'
    BY <1>0 DEF CursorInv, Covered
  <1>15. y.knew => \A m \in y.apply :
           (sync[r].knew /\ m \in sync[r].apply) \/ stored[m] # "placed"
    BY <1>1, <1>6 DEF SameRead
  <1>16. ~Unseen(y, m0)
    BY <1>3, <1>6 DEF Unseen
  <1>17. \A m \in Inbox!Messages : Untouched(m) =>
           Untouched(m)' \/ (sync[r].knew /\ m \in sync[r].apply /\ ~Unseen(y, m))
    BY <1>0, <1>1, <1>3, <1>9, <1>16 DEF Untouched
  <1>18. \A m \in Inbox!Messages : Unseen(y, m) => Unseen(sync[r], m)
    BY <1>0, <1>1, <1>6 DEF Unseen, SameRead
  <1>19. \A m \in Inbox!Messages : counted'[m] = 1 => m \in classified'
    BY <1>0 DEF ActsOnce
  <1>20. faults' = 0 =>
           faults = 0 /\ \A m \in Inbox!Messages \ reread' : \A s \in Inbox!Running' :
             stored'[m] = "placed" /\ kind[m] \in {"reply", "optout"} /\ woken'[s] < m =>
               IF stored[m] = "placed"
                 THEN m \notin reread /\ (Handling(sync[r], m) => Handling(y, m))
                 ELSE Handling(y, m)
    BY <1>0, <1>8
  <1> QED
    BY <1>0, <1>5, <1>10, <1>11, <1>13, <1>14, <1>15, <1>17, <1>18, <1>19, <1>20, DoneStep

\* A run moves among the steps of answering one reply.
LEMMA AnsweringIsOk ==
  ASSUME NEW w \in Syncs, w.at \in Answering, NEW p \in Answering, RunOk(w)',
         NEW x, x = Going(w, p)
  PROVE  /\ x \in Syncs /\ SameRead(w, x) /\ x.at = p /\ x.todo = w.todo
         /\ x.apply = w.apply /\ x.unsaved = w.unsaved /\ RunOk(x)'
  <1>1. p \in SyncPlaces /\ p \notin {"idle", "read", "store", "bounce"}
        /\ w.at \notin {"idle", "read", "store", "bounce"} /\ p \in Lists /\ w.at \in Lists
    BY DEF Answering, SyncPlaces, Lists
  <1>2. /\ x \in Syncs /\ SameRead(w, x) /\ x.at = p /\ x.todo = w.todo
        /\ x.apply = w.apply /\ x.unsaved = w.unsaved
    BY <1>1, Moved
  <1>3. Span(x)'
    BY <1>1, <1>2 DEF RunOk, Span, SameRead, Inbox!Batch
  <1>4. ReadIsCovered(x)'
    BY <1>1, <1>2 DEF RunOk, ReadIsCovered, SameRead, Inbox!Batch, Covered
  <1>5. Owns(x)'
    BY <1>1, <1>2 DEF RunOk, Owns, SameRead
  <1>6. SawTheCadence(x)'
    BY <1>1, <1>2 DEF RunOk, SawTheCadence, SameRead, Inbox!Batch, Inbox!Running
  <1> QED
    BY <1>2, <1>3, <1>4, <1>5, <1>6 DEF RunOk

\* A step of an answering run that moves on to another step of the same reply.
LEMMA AnswerStep ==
  ASSUME InboxInv, InboxType', NEW r \in Runs, sync[r].at \in Answering, NEW p \in Answering,
         sync' = [sync EXCEPT ![r].at = p],
         UNCHANGED <<arrived, kind, cursor, stored, woken, unplaceable, reread, bounced, faults>>,
         Inbox!Running' \subseteq Inbox!Running,
         classified' \subseteq classified \cup {Inbox!First(sync[r])},
         classified' # classified => p \in {"pause", "stop"},
         p \in {"reply", "classify"} => sync[r].at \in {"reply", "classify"},
         \A m \in Inbox!Messages : counted'[m] = 1 => m \in classified'
  PROVE  InboxInv'
  <1> USE DEF InboxInv
  <1>1. PICK w \in Syncs : w = sync[r]
    BY DEF InboxType
  <1>2. PICK m0 : m0 = Inbox!First(w)
    OBVIOUS
  <1>3. PICK x : x = Going(w, p)
    OBVIOUS
  <1>4. sync' = [sync EXCEPT ![r] = x]
    BY <1>1, <1>3 DEF Going
  <1>5. w.at \in Lists
    BY <1>1 DEF Lists, Answering
  <1>6. /\ RunOk(w) /\ w.todo # {} /\ m0 \in w.todo /\ w.knew
        /\ \A m \in w.todo : m \in w.apply
    BY <1>1, <1>2, <1>5, FirstIsRead DEF RunsAreOk, RunOk, Owns
  <1>7. WorldMoves
    BY NoneWakes
  <1>8. RunOk(w)'
    BY <1>6, <1>7, WorldKeeps
  <1>9. /\ x \in Syncs /\ SameRead(w, x) /\ x.at = p /\ x.todo = w.todo
        /\ x.apply = w.apply /\ x.unsaved = w.unsaved /\ RunOk(x)'
    BY <1>1, <1>3, <1>8, AnsweringIsOk
  <1>10. CursorInv'
    BY DEF CursorInv, Covered
  <1>11. x.knew => \A m \in x.apply :
           (sync[r].knew /\ m \in sync[r].apply) \/ stored[m] # "placed"
    BY <1>1, <1>9 DEF SameRead
  <1>12. Inbox!First(x) = m0
    BY <1>2, <1>9 DEF Inbox!First
  <1>13. p \in {"pause", "stop"} => ~Unseen(x, m0)
    BY <1>9, <1>12 DEF Unseen
  <1>14. \A m \in Inbox!Messages : Untouched(m) =>
           Untouched(m)' \/ (sync[r].knew /\ m \in sync[r].apply /\ ~Unseen(x, m))
    BY <1>1, <1>2, <1>6, <1>13 DEF Untouched
  <1>15. \A m \in Inbox!Messages : Unseen(x, m) => Unseen(sync[r], m)
    BY <1>1, <1>2, <1>9, <1>12 DEF Unseen, SameRead, Answering
  <1>16. \A m : Handling(sync[r], m) => Handling(x, m)
    BY <1>1, <1>9 DEF Handling, SameRead, Answering
  <1>17. faults' = 0 =>
           faults = 0 /\ \A m \in Inbox!Messages \ reread' : \A s \in Inbox!Running' :
             stored'[m] = "placed" /\ kind[m] \in {"reply", "optout"} /\ woken'[s] < m =>
               IF stored[m] = "placed"
                 THEN m \notin reread /\ (Handling(sync[r], m) => Handling(x, m))
                 ELSE Handling(x, m)
    BY <1>16
  <1> QED
    BY <1>4, <1>6, <1>7, <1>9, <1>10, <1>11, <1>14, <1>15, <1>17, RunStep

\* A run that ends a reply whose cadences are all stopped.
LEMMA StoppedStep ==
  ASSUME InboxInv, InboxType', NEW r \in Runs, sync[r].at \in Answering,
         Inbox!Done(r, Going(sync[r], "reply")),
         UNCHANGED <<arrived, kind, cursor, stored, classified, counted, woken, unplaceable,
                     reread, bounced, faults>>,
         Inbox!Running' \subseteq Inbox!Running,
         Inbox!Running' = {} \/
           \A m : m = Inbox!First(sync[r]) => ~Handling(sync[r], m)
  PROVE  InboxInv'
  <1> USE DEF InboxInv
  <1>1. PICK v \in Syncs : v = sync[r]
    BY DEF InboxType
  <1>2. PICK m0 : m0 = Inbox!First(v)
    OBVIOUS
  <1>3. PICK w : w = Going(v, "reply")
    OBVIOUS
  <1>4. "reply" \in Answering /\ v.at \in Lists
    BY <1>1 DEF Lists, Answering
  <1>5. /\ RunOk(v) /\ m0 \in v.todo /\ v.knew /\ \A m \in v.todo : m \in v.apply
    BY <1>1, <1>2, <1>4, FirstIsRead DEF RunsAreOk, RunOk, Owns
  <1>6. WorldMoves
    BY NoneWakes
  <1>7. RunOk(v)'
    BY <1>5, <1>6, WorldKeeps
  <1>8. /\ w \in Syncs /\ SameRead(v, w) /\ w.at = "reply" /\ w.todo = v.todo
        /\ w.apply = v.apply /\ w.unsaved = v.unsaved /\ RunOk(w)'
    BY <1>1, <1>3, <1>4, <1>7, AnsweringIsOk
  <1>9. PICK y : y = Listing(w, w.todo \ {Inbox!First(w)})
    OBVIOUS
  <1>10. /\ y \in Syncs /\ SameRead(v, y) /\ SameRead(w, y) /\ y.at = "reply"
         /\ y.apply = v.apply /\ y.unsaved = v.unsaved /\ y.todo = v.todo \ {m0}
    <2>1. Inbox!First(w) = m0
      BY <1>2, <1>8 DEF Inbox!First
    <2> QED
      BY <1>8, <1>9, <2>1, DoneRecord DEF SameRead
  <1>11. RunOk(y)'
    BY <1>8, <1>10, ShorterIsOk
  <1>12. CursorInv'
    BY DEF CursorInv, Covered
  <1>13. y.knew => \A m \in y.apply :
           (sync[r].knew /\ m \in sync[r].apply) \/ stored[m] # "placed"
    BY <1>1, <1>10 DEF SameRead
  <1>14. \A m \in Inbox!Messages : Untouched(m) => Untouched(m)'
    BY DEF Untouched
  <1>15. \A m \in Inbox!Messages : Unseen(y, m) => Unseen(sync[r], m)
    BY <1>1, <1>2, <1>5, <1>10 DEF Unseen, SameRead, Answering
  <1>16. \A m \in Inbox!Messages : counted'[m] = 1 => m \in classified'
    BY DEF ActsOnce
  <1>17. \A m : m # m0 /\ Handling(sync[r], m) => Handling(y, m)
    BY <1>1, <1>10 DEF Handling, SameRead, Answering
  <1>18. faults' = 0 =>
           faults = 0 /\ \A m \in Inbox!Messages \ reread' : \A s \in Inbox!Running' :
             stored'[m] = "placed" /\ kind[m] \in {"reply", "optout"} /\ woken'[s] < m =>
               IF stored[m] = "placed"
                 THEN m \notin reread /\ (Handling(sync[r], m) => Handling(y, m))
                 ELSE Handling(y, m)
    BY <1>1, <1>2, <1>17
  <1>19. Inbox!Done(r, w)
    BY <1>1, <1>3
  <1> QED
    BY <1>6, <1>8, <1>9, <1>11, <1>12, <1>13, <1>14, <1>15, <1>16, <1>18, <1>19, DoneStep

\* A reply is classified by the run that owns it, which then pauses the cadences.
LEMMA ClassifyStep ==
  ASSUME InboxInv, NEW r \in Runs, Inbox!Classify(r)
  PROVE  InboxInv'
  <1> USE DEF InboxInv
  <1>1. PICK w \in Syncs : w = sync[r]
    BY DEF InboxType
  <1>2. PICK m0 : m0 = Inbox!First(w)
    OBVIOUS
  <1>0. /\ UNCHANGED <<arrived, kind, known, cursor, stored, cadence, started, lead, bounced,
                       woken, unplaceable, reread, syncs, moves, faults>>
        /\ w.at = "classify" /\ classified' = classified \cup {m0}
        /\ counted' = IF kind[m0] = "reply" THEN [counted EXCEPT ![m0] = @ + 1] ELSE counted
        /\ sync' = [sync EXCEPT ![r].at = "pause"]
    BY <1>1, <1>2 DEF Inbox!Classify, Inbox!mail, Inbox!bounds
  <1>3. w.at \in Lists /\ w.at \in Answering /\ "pause" \in Answering /\ "pause" \in SyncPlaces
    BY <1>0 DEF Lists, Answering, SyncPlaces
  <1>4. /\ RunOk(w) /\ m0 \in w.todo /\ m0 \in Inbox!Messages /\ w.knew /\ m0 \in w.apply
    BY <1>1, <1>2, <1>3, FirstIsRead DEF RunsAreOk, RunOk, Owns
  <1>5. m0 \notin classified
    <2>1. Unseen(w, m0)
      BY <1>0, <1>4 DEF Unseen
    <2> QED
      BY <1>1, <1>4, <2>1 DEF ActsOnce, Untouched
  <1>6. /\ counted' \in [Inbox!Messages -> {0, 1}]
        /\ \A m \in Inbox!Messages : m # m0 => counted'[m] = counted[m]
    <2>1. counted \in [Inbox!Messages -> {0, 1}] /\ 0 + 1 = 1
      BY DEF InboxType
    <2>2. counted[m0] = 0
      BY <1>4, <1>5, <2>1 DEF ActsOnce
    <2>3. counted' = IF kind[m0] = "reply" THEN [counted EXCEPT ![m0] = 1] ELSE counted
      BY <1>0, <1>4, <2>1, <2>2
    <2> QED
      BY <1>4, <2>1, <2>3
  <1>7. sync' = [sync EXCEPT ![r] = Going(w, "pause")]
    BY <1>0, <1>1 DEF Going
  <1>8. sync' \in [Runs -> Syncs]
    BY <1>3, <1>7, Moved DEF InboxType
  <1>9. InboxType'
    BY <1>0, <1>6, <1>8 DEF InboxType, Inbox!Messages
  <1>10. \A m \in Inbox!Messages : counted'[m] = 1 => m \in classified'
    BY <1>0, <1>6 DEF ActsOnce
  <1>11. Inbox!Running' \subseteq Inbox!Running
    BY <1>0 DEF Inbox!Running
  <1> QED
    BY <1>0, <1>1, <1>2, <1>3, <1>9, <1>10, <1>11, AnswerStep

\* What the gate passes over needs nothing: no cadence of the lead is running.
LEMMA GateStep ==
  ASSUME InboxInv, NEW r \in Runs, Inbox!Gate(r)
  PROVE  InboxInv'
  <1> USE DEF InboxInv
  <1>1. PICK w \in Syncs : w = sync[r]
    BY DEF InboxType
  <1>2. PICK m0 : m0 = Inbox!First(w)
    OBVIOUS
  <1>0. /\ UNCHANGED <<arrived, kind, known, cursor, stored, classified, cadence, started, lead,
                       counted, bounced, woken, unplaceable, reread, syncs, moves, faults>>
        /\ w.at = "reply"
        /\ IF (w.resync /\ Inbox!Outdated(m0)) \/ m0 \in classified \/ Inbox!Running = {}
             THEN Inbox!Done(r, w)
             ELSE sync' = [sync EXCEPT ![r].at = "classify"]
    BY <1>1, <1>2 DEF Inbox!Gate, Inbox!mail, Inbox!crm, Inbox!history, Inbox!bounds
  <1>3. /\ w.at \in Lists /\ w.at \in Answering
        /\ {"reply", "classify"} \subseteq Answering \cap SyncPlaces
    BY <1>0 DEF Lists, Answering, SyncPlaces
  <1>4. /\ RunOk(w) /\ m0 \in w.todo /\ m0 \in Inbox!Messages /\ w.knew /\ m0 \in w.apply
    BY <1>1, <1>2, <1>3, FirstIsRead DEF RunsAreOk, RunOk, Owns
  <1>5. Inbox!Running' = Inbox!Running
    BY <1>0 DEF Inbox!Running
  <1>6. CASE (w.resync /\ Inbox!Outdated(m0)) \/ m0 \in classified \/ Inbox!Running = {}
    <2>1. Inbox!Done(r, w)
      BY <1>0, <1>6
    <2>2. sync' \in [Runs -> Syncs]
      BY <1>0, <2>1, DoneType
    <2>3. InboxType'
      BY <1>0, <2>2 DEF InboxType, Inbox!Messages
    <2>4. m0 \notin classified
      <3>1. Unseen(w, m0)
        BY <1>0, <1>4 DEF Unseen
      <3> QED
        BY <1>1, <1>4, <3>1 DEF ActsOnce, Untouched
    <2>5. Inbox!Running = {} \/ ~Handling(w, m0)
      BY <1>6, <2>4 DEF Handling
    <2>6. Going(w, "reply") = w
      BY <1>0 DEF Going, Syncs
    <2> QED
      BY <1>0, <1>1, <1>2, <1>3, <1>5, <2>1, <2>3, <2>5, <2>6, StoppedStep
  <1>7. CASE ~((w.resync /\ Inbox!Outdated(m0)) \/ m0 \in classified \/ Inbox!Running = {})
    <2>1. sync' = [sync EXCEPT ![r].at = "classify"]
      BY <1>0, <1>7
    <2>2. sync' = [sync EXCEPT ![r] = Going(w, "classify")]
      BY <1>1, <2>1 DEF Going
    <2>3. sync' \in [Runs -> Syncs]
      BY <1>3, <2>2, Moved DEF InboxType
    <2>4. InboxType'
      BY <1>0, <2>3 DEF InboxType, Inbox!Messages
    <2>5. \A m \in Inbox!Messages : counted'[m] = 1 => m \in classified'
      BY <1>0 DEF ActsOnce
    <2> QED
      BY <1>0, <1>1, <1>3, <1>5, <2>1, <2>4, <2>5, AnswerStep
  <1> QED
    BY <1>6, <1>7

\* Every running cadence is paused.
LEMMA PauseStep ==
  ASSUME InboxInv, NEW r \in Runs, Inbox!Pause(r)
  PROVE  InboxInv'
  <1> USE DEF InboxInv
  <1>1. PICK w \in Syncs : w = sync[r]
    BY DEF InboxType
  <1>2. PICK m0 : m0 = Inbox!First(w)
    OBVIOUS
  <1>0. /\ UNCHANGED <<arrived, kind, known, cursor, stored, classified, started, lead,
                       counted, bounced, woken, unplaceable, reread, syncs, moves, faults>>
        /\ w.at = "pause"
        /\ cadence' = [s \in Cadences |-> IF s \in Inbox!Running THEN "paused" ELSE cadence[s]]
        /\ IF kind[m0] = "optout" THEN sync' = [sync EXCEPT ![r].at = "stop"]
                                  ELSE Inbox!Done(r, Going(w, "reply"))
    BY <1>1, <1>2 DEF Inbox!Pause, Inbox!mail, Inbox!history, Inbox!bounds, Going
  <1>3. w.at \in Answering /\ {"stop", "reply"} \subseteq Answering \cap SyncPlaces
    BY <1>0 DEF Answering, SyncPlaces
  <1>4. Inbox!Running' = {}
    BY <1>0 DEF Inbox!Running
  <1>5. cadence' \in [Cadences -> {"none", "active", "paused", "ended"}]
    BY <1>0 DEF InboxType
  <1>6. CASE kind[m0] = "optout"
    <2>1. sync' = [sync EXCEPT ![r].at = "stop"]
      BY <1>0, <1>6
    <2>2. sync' = [sync EXCEPT ![r] = Going(w, "stop")]
      BY <1>1, <2>1 DEF Going
    <2>3. sync' \in [Runs -> Syncs]
      BY <1>3, <2>2, Moved DEF InboxType
    <2>4. InboxType'
      BY <1>0, <1>5, <2>3 DEF InboxType, Inbox!Messages
    <2>5. \A m \in Inbox!Messages : counted'[m] = 1 => m \in classified'
      BY <1>0 DEF ActsOnce
    <2> QED
      BY <1>0, <1>1, <1>3, <1>4, <2>1, <2>4, <2>5, AnswerStep
  <1>7. CASE kind[m0] # "optout"
    <2>1. Inbox!Done(r, Going(w, "reply"))
      BY <1>0, <1>7
    <2>2. Going(w, "reply") \in Syncs /\ Going(w, "reply").at = "reply"
      BY <1>3, Moved
    <2>3. sync' \in [Runs -> Syncs]
      BY <2>1, <2>2, DoneType
    <2>4. InboxType'
      BY <1>0, <1>5, <2>3 DEF InboxType, Inbox!Messages
    <2> QED
      BY <1>0, <1>1, <1>3, <1>4, <2>1, <2>4, StoppedStep
  <1> QED
    BY <1>6, <1>7

\* Every cadence of the lead is ended.
LEMMA StopStep ==
  ASSUME InboxInv, NEW r \in Runs, Inbox!Stop(r)
  PROVE  InboxInv'
  <1> USE DEF InboxInv
  <1>1. PICK w \in Syncs : w = sync[r]
    BY DEF InboxType
  <1>0. /\ UNCHANGED <<arrived, kind, known, cursor, stored, classified, started,
                       counted, bounced, woken, unplaceable, reread, syncs, moves, faults>>
        /\ w.at = "stop" /\ Inbox!Done(r, Going(w, "reply"))
        /\ cadence' = [s \in Cadences |-> IF s \in Inbox!Occupying THEN "ended" ELSE cadence[s]]
        /\ lead' = [lead EXCEPT !.optedOut = TRUE]
    BY <1>1 DEF Inbox!Stop, Inbox!mail, Inbox!history, Inbox!bounds, Going
  <1>2. w.at \in Answering /\ "reply" \in SyncPlaces
    BY <1>0 DEF Answering, SyncPlaces
  <1>3. Inbox!Running' = {}
    BY <1>0 DEF Inbox!Running, Inbox!Occupying
  <1>4. cadence' \in [Cadences -> {"none", "active", "paused", "ended"}]
    BY <1>0 DEF InboxType
  <1>5. Going(w, "reply") \in Syncs /\ Going(w, "reply").at = "reply"
    BY <1>2, Moved
  <1>6. sync' \in [Runs -> Syncs]
    BY <1>0, <1>5, DoneType
  <1>7. lead' \in [invalid : BOOLEAN, optedOut : BOOLEAN]
    BY <1>0 DEF InboxType
  <1>8. InboxType'
    BY <1>0, <1>4, <1>6, <1>7 DEF InboxType, Inbox!Messages
  <1> QED
    BY <1>0, <1>1, <1>2, <1>3, <1>8, StoppedStep

(***************************************************************************)
(* The inbox: what holds in every state                                    *)
(***************************************************************************)
LEMMA InboxStart ==
  ASSUME Init
  PROVE  InboxInv
  <1> USE DEF Init, Inbox!Init
  <1>1. Inbox!Idle \in Syncs /\ Inbox!Idle.at = "idle" /\ ~Inbox!Idle.knew
        /\ Inbox!Idle.apply = {} /\ Inbox!Idle.todo = {} /\ Inbox!Idle.since = 0
        /\ Inbox!Idle.now = 0 /\ ~Inbox!Idle.unsaved /\ Inbox!Idle.last = 0
    BY DEF Inbox!Idle, Syncs, SyncPlaces
  <1>2. InboxType
    BY <1>1, ServiceAssumption DEF InboxType, Inbox!Messages
  <1>3. RunOk(Inbox!Idle)
    BY <1>1 DEF RunOk, Span, ReadIsCovered, Owns, SawTheCadence, Lists, Answering
  <1>4. \A r \in Runs : sync[r] = Inbox!Idle
    OBVIOUS
  <1>5. RunsAreOk
    BY <1>1, <1>3, <1>4 DEF RunsAreOk, Lists
  <1>6. CursorInv /\ OwnedByOne
    BY <1>1, <1>4 DEF CursorInv, OwnedByOne
  <1>7. ActsOnce
    BY <1>1, <1>4 DEF ActsOnce, Untouched, Unseen
  <1>8. RepliesAreHandled
    BY DEF RepliesAreHandled
  <1> QED
    BY <1>2, <1>5, <1>6, <1>7, <1>8 DEF InboxInv

\* A step of another part leaves the inbox as it was.
LEMMA InboxStutter ==
  ASSUME InboxInv, UNCHANGED mailbox
  PROVE  InboxInv'
  <1>1. UNCHANGED <<arrived, kind, known, cursor, stored, classified, cadence, started, lead, sync,
                    counted, bounced, woken, unplaceable, reread, syncs, moves, faults>>
    BY DEF mailbox
  <1>2. InboxType' /\ CursorInv' /\ OwnedByOne' /\ ActsOnce' /\ RepliesAreHandled'
    BY <1>1 DEF InboxInv, InboxType, CursorInv, Covered, OwnedByOne, ActsOnce, Untouched, Unseen,
       RepliesAreHandled, Handling, Inbox!Running, Inbox!Messages, Inbox!First
  <1>3. RunsAreOk'
    BY <1>1 DEF InboxInv, RunsAreOk, RunOk, Span, ReadIsCovered, Owns, SawTheCadence, Covered,
       Inbox!Running, Inbox!Batch
  <1> QED
    BY <1>2, <1>3 DEF InboxInv

\* Every operation of the inbox keeps the invariant.
LEMMA InboxStep ==
  ASSUME InboxInv, Inbox!Next
  PROVE  InboxInv'
  <1>1. CASE Inbox!Arrive
    BY <1>1, ArriveStep
  <1>2. CASE Inbox!Learn
    BY <1>2, LearnStep
  <1>3. ASSUME NEW s \in Cadences, Inbox!Activate(s) PROVE InboxInv'
    BY <1>3, ActivateStep
  <1>4. ASSUME NEW r \in Runs,
               \/ Inbox!Begin(r) \/ Inbox!Read(r) \/ Inbox!Save(r) \/ Inbox!PassOver(r)
               \/ Inbox!NotSaved(r) \/ Inbox!ApplyBounce(r) \/ Inbox!Gate(r) \/ Inbox!Classify(r)
               \/ Inbox!Pause(r) \/ Inbox!Stop(r) \/ Inbox!Close(r) \/ Inbox!Fail(r)
        PROVE  InboxInv'
    BY <1>4, BeginRunStep, ReadStep, SaveStep, PassOverStep, NotSavedStep, ApplyBounceStep,
       GateStep, ClassifyStep, PauseStep, StopStep, CloseStep, FailStep
  <1> QED
    BY <1>1, <1>2, <1>3, <1>4 DEF Inbox!Next

\* In a behaviour of the inbox the invariant holds throughout.
LEMMA InboxHolds == Spec => [](service = "inbox" => InboxInv)
  <1>1. Init => InboxInv
    BY InboxStart
  <1>2. (service = "inbox" => InboxInv) /\ [Next]_vars => (service = "inbox" => InboxInv)'
    <2> SUFFICES ASSUME service = "inbox" => InboxInv, [Next]_vars, service' = "inbox"
                 PROVE  InboxInv'
      OBVIOUS
    <2>1. CASE service = "inbox" /\ Inbox!Next
      BY <2>1, InboxStep
    <2>2. CASE UNCHANGED <<service, mailbox>>
      BY <2>2, InboxStutter
    <2> QED
      BY <2>1, <2>2 DEF Next, vars
  <1> QED
    BY <1>1, <1>2, PTL DEF Spec

\* No mail is jumped over, by whatever runs that overlap, stop at the read limit, fail to
\* save, die or re-read the past: every message the cursor has passed is stored, or came
\* from nobody the CRM knew (workers/sync.ts:374-391).
THEOREM CursorCoversMail == Spec => []CursorCovers
  <1>1. (service = "inbox" => InboxInv) => CursorCovers
    BY DEF InboxInv, CursorInv, Covered, CursorCovers, Inbox!CursorCovers
  <1> QED
    BY <1>1, InboxHolds, PTL

\* A message has its effects once, however many runs and re-reads read it
\* (workers/sync.ts:257-259).
THEOREM AppliedOnceEach == Spec => []AppliedOnce
  <1>1. (service = "inbox" => InboxInv) => AppliedOnce
    BY DEF InboxInv, InboxType, AppliedOnce, Inbox!AppliedOnce
  <1> QED
    BY <1>1, InboxHolds, PTL

\* A reply stops every cadence that was running when it arrived, once the runs are done
\* and if none of them failed (leadStop.ts:6-20).
THEOREM ReplyStops == Spec => []ReplyStopsCadences
  <1>1. (service = "inbox" => InboxInv) => ReplyStopsCadences
    <2> SUFFICES ASSUME InboxInv, Inbox!Quiet, faults = 0,
                        NEW m \in Inbox!Messages \ reread, stored[m] = "placed",
                        kind[m] \in {"reply", "optout"}, NEW s \in Inbox!Running, woken[s] < m
                 PROVE  FALSE
      <3>1. \A s \in Inbox!Running : \A m \in Inbox!Messages :
              InboxInv => (m <= woken[s] \/ woken[s] < m)
        BY ServiceAssumption DEF InboxInv, InboxType, Inbox!Running, Inbox!Messages
      <3> QED
        BY <3>1 DEF ReplyStopsCadences, Inbox!ReplyStopsCadences
    <2>1. PICK r \in Runs : Handling(sync[r], m)
      BY DEF InboxInv, RepliesAreHandled
    <2>2. sync[r] = Inbox!Idle
      BY DEF Inbox!Quiet
    <2> QED
      BY <2>1, <2>2, IdleIsOk DEF Handling
  <1> QED
    BY <1>1, InboxHolds, PTL

(***************************************************************************)
(* The AI gateway                                                          *)
(***************************************************************************)
TurnPlaces == {"idle", "lease", "claim", "insert", "call", "publish", "exit", "settle", "total"}
Unheld == {"idle", "lease", "claim"}
Billed == {"publish", "exit", "settle", "total"}
Probing == {"claim", "insert", "call", "publish", "exit"}

\* A turn's record has the fields the gateway knows, and a hold from its claim on.
TurnOk(w) ==
    /\ w = [at |-> w.at, p |-> w.p, model |-> w.model, rest |-> w.rest,
            hold |-> w.hold, go |-> w.go, bill |-> w.bill, pub |-> w.pub]
    /\ w.at \in TurnPlaces /\ w.hold \in {"none", "claimed", "held", "settled"}
    /\ w.bill \in 0 .. Rounds
    /\ w.hold = "none" <=> w.at \in Unheld

\* What the attempt of turn record w cost beyond its estimate and has not paid yet.
Excess(w) == IF w.at \in Billed /\ w.bill > 0 THEN w.bill - 1 ELSE 0
Unpaid == {u \in Turns \X (1 .. Rounds) : u[2] <= Excess(turn[u[1]])}

Holders == {t \in Turns : turn[t].hold # "none"}

AiType ==
    /\ turn = [t \in Turns |-> turn[t]] /\ \A t \in Turns : TurnOk(turn[t])
    /\ lease \in [Ai!Models -> BOOLEAN]
    /\ used \in Nat /\ reserved \in Nat /\ stranded \in Nat /\ over \in Nat
    /\ crashes \in Nat /\ cancels \in Nat

\* Spend, holds and what is still to be charged beyond them stay under the cap, but for
\* what was charged beyond estimates.
UnderCap ==
    /\ Cardinality(Unpaid) <= over
    /\ used + reserved + Cardinality(Unpaid) <= Limit + over

\* The period's total covers every hold, of turns in flight and of dead ones, and is no
\* more than that while none died.
HoldsCounted ==
    /\ stranded + Cardinality(Holders) <= reserved
    /\ crashes = 0 => stranded = 0 /\ reserved = Cardinality(Holders)

\* A lease that is taken is some turn's to return.
LeasesReturn ==
    crashes = 0 /\ cancels = 0 =>
      \A m \in Ai!Models : lease[m] =>
        \E t \in Turns : turn[t].model = m /\ turn[t].at \in Probing

AiInv == AiType /\ UnderCap /\ HoldsCounted /\ LeasesReturn

\* The gateway's module counts as this one does.
LEMMA SameCount == \A S : Ai!Cardinality(S) = Cardinality(S)
  BY DEF Ai!Cardinality, Cardinality

\* What the budget counts is finite.
LEMMA CountedSets ==
  /\ IsFiniteSet(Unpaid) /\ Cardinality(Unpaid) \in Nat
  /\ IsFiniteSet(Holders) /\ Cardinality(Holders) \in Nat
  <1>1. IsFiniteSet(Turns)
    BY ServiceAssumption
  <1>2. IsFiniteSet(1 .. Rounds)
    BY FS_Interval, ServiceAssumption
  <1>3. IsFiniteSet(Turns \X (1 .. Rounds))
    BY <1>1, <1>2, FS_Product
  <1>4. Unpaid \in SUBSET (Turns \X (1 .. Rounds)) /\ Holders \in SUBSET Turns
    BY DEF Unpaid, Holders
  <1>5. IsFiniteSet(Unpaid) /\ IsFiniteSet(Holders)
    BY <1>1, <1>3, <1>4, FS_Subset
  <1> QED
    BY <1>5, FS_CardinalityType

\* The pairs of one turn with the first n numbers are n.
LEMMA Column ==
  ASSUME NEW t, NEW n \in Nat
  PROVE  IsFiniteSet({t} \X (1 .. n)) /\ Cardinality({t} \X (1 .. n)) = n
  <1>1. IsFiniteSet({t}) /\ Cardinality({t}) = 1
    BY FS_Singleton
  <1>2. IsFiniteSet(1 .. n) /\ Cardinality(1 .. n) = n
    BY FS_Interval
  <1>3. /\ IsFiniteSet({t} \X (1 .. n))
        /\ Cardinality({t} \X (1 .. n)) = Cardinality({t}) * Cardinality(1 .. n)
    BY <1>1, <1>2, FS_Product
  <1>4. 1 * n = n
    OBVIOUS
  <1> QED
    BY <1>1, <1>2, <1>3, <1>4

\* An attempt costs no more than its rounds beyond the estimate.
LEMMA ExcessType ==
  ASSUME NEW w, TurnOk(w)
  PROVE  Excess(w) \in 0 .. Rounds
  BY ServiceAssumption DEF TurnOk, Excess

\* What is unpaid is the excess of one turn and of the others.
LEMMA UnpaidOf ==
  ASSUME AiType, NEW t \in Turns
  PROVE  LET rest == {u \in Unpaid : u[1] # t}
         IN  /\ IsFiniteSet(rest) /\ Cardinality(rest) \in Nat
             /\ Cardinality(Unpaid) = Cardinality(rest) + Excess(turn[t])
  <1> DEFINE rest == {u \in Unpaid : u[1] # t}
             own == {t} \X (1 .. Excess(turn[t]))
  <1>1. Excess(turn[t]) \in 0 .. Rounds /\ Excess(turn[t]) \in Nat
    <2>1. Excess(turn[t]) \in 0 .. Rounds
      BY ExcessType DEF AiType
    <2> QED
      BY <2>1, ServiceAssumption
  <1>2. IsFiniteSet(own) /\ Cardinality(own) = Excess(turn[t])
    BY <1>1, Column
  <1>3. IsFiniteSet(rest)
    BY CountedSets, FS_Subset
  <1>4. Unpaid = rest \cup own
    <2>1. own \subseteq Unpaid
      <3> SUFFICES ASSUME NEW k \in 1 .. Excess(turn[t])
                   PROVE  <<t, k>> \in Unpaid
        OBVIOUS
      <3>1. k \in 1 .. Rounds /\ k <= Excess(turn[t])
        BY <1>1, ServiceAssumption
      <3> QED
        BY <3>1 DEF Unpaid
    <2>2. ASSUME NEW u \in Unpaid, u[1] = t PROVE u \in own
      <3>1. u \in Turns \X (1 .. Rounds) /\ u[2] <= Excess(turn[u[1]])
        BY DEF Unpaid
      <3>2. u = <<u[1], u[2]>> /\ u[2] \in 1 .. Rounds
        BY <3>1
      <3>3. u[2] \in 1 .. Excess(turn[t])
        BY <1>1, <2>2, <3>1, <3>2, ServiceAssumption
      <3> QED
        BY <2>2, <3>2, <3>3
    <2> QED
      BY <2>1, <2>2
  <1>5. rest \cap own = {}
    OBVIOUS
  <1>6. Cardinality(rest) \in Nat
    BY <1>3, FS_CardinalityType
  <1>7. Cardinality({}) = 0
    BY FS_EmptySet
  <1> HIDE DEF rest, own
  <1>8. Cardinality(rest \cup own) =
          Cardinality(rest) + Cardinality(own) - Cardinality(rest \cap own)
    BY <1>2, <1>3, FS_Union
  <1>9. Cardinality(Unpaid) = Cardinality(rest) + Excess(turn[t])
    <2>1. Cardinality(Unpaid) = Cardinality(rest) + Excess(turn[t]) - 0
      BY <1>2, <1>4, <1>5, <1>7, <1>8
    <2> QED
      BY <1>1, <1>6, <2>1
  <1> QED
    BY <1>3, <1>6, <1>9 DEF rest

\* Whether a turn holds budget, as a number.
Has(w) == IF w.hold = "none" THEN 0 ELSE 1

\* What a step of turn t, that leaves its record as x, owes the invariant.
LEMMA OneTurn ==
  ASSUME AiInv, NEW t \in Turns, NEW x, TurnOk(x), turn' = [turn EXCEPT ![t] = x],
         lease' \in [Ai!Models -> BOOLEAN], used' \in Nat, reserved' \in Int, over' \in Nat,
         stranded' = stranded, crashes' = crashes, cancels' \in Nat,
         reserved' = reserved + Has(x) - Has(turn[t]),
         over + Excess(x) <= over' + Excess(turn[t]),
         \/ used' + reserved' + Excess(x) + over <= used + reserved + Excess(turn[t]) + over'
         \/ used' + reserved' <= Limit,
         cancels' = 0 => cancels = 0 /\
           \A m \in Ai!Models : lease'[m] =>
             \/ x.model = m /\ x.at \in Probing
             \/ lease[m] /\ ~(turn[t].model = m /\ turn[t].at \in Probing)
  PROVE  AiInv'
  <1> USE DEF AiInv
  <1>1. /\ turn = [q \in Turns |-> turn[q]]
        /\ turn'[t] = x /\ \A q \in Turns : q # t => turn'[q] = turn[q]
        /\ turn' = [q \in Turns |-> turn'[q]]
    BY DEF AiType
  <1>2. /\ used \in Nat /\ reserved \in Nat /\ stranded \in Nat /\ over \in Nat /\ Limit \in Nat
    BY ServiceAssumption DEF AiType
  <1>3. /\ Excess(x) \in 0 .. Rounds /\ Excess(turn[t]) \in 0 .. Rounds
        /\ Excess(x) \in Nat /\ Excess(turn[t]) \in Nat
    <2>1. Excess(x) \in 0 .. Rounds /\ Excess(turn[t]) \in 0 .. Rounds
      BY ExcessType DEF AiType
    <2> QED
      BY <2>1, ServiceAssumption
  <1>4. PICK R : R = {u \in Unpaid : u[1] # t}
    OBVIOUS
  <1>5. Cardinality(R) \in Nat /\ Cardinality(Unpaid) = Cardinality(R) + Excess(turn[t])
    BY <1>4, UnpaidOf
  <1>6. R = {u \in Unpaid' : u[1] # t}
    BY <1>1, <1>4 DEF Unpaid
  <1>7. Cardinality(Unpaid)' = Cardinality(R) + Excess(x)
    <2>1. PICK O : O = {t} \X (1 .. Excess(x))
      OBVIOUS
    <2>2. IsFiniteSet(O) /\ Cardinality(O) = Excess(x)
      BY <1>3, <2>1, Column
    <2>3. IsFiniteSet(R)
      BY <1>4, CountedSets, FS_Subset
    <2>4. Unpaid' = R \cup O
      <3>1. O \subseteq Unpaid'
        <4> SUFFICES ASSUME NEW k \in 1 .. Excess(x)
                     PROVE  <<t, k>> \in Unpaid'
          BY <2>1
        <4>1. k \in 1 .. Rounds /\ k <= Excess(x)
          BY <1>3, ServiceAssumption
        <4> QED
          BY <1>1, <4>1 DEF Unpaid
      <3>2. ASSUME NEW u \in Unpaid', u[1] = t PROVE u \in O
        <4>1. u \in Turns \X (1 .. Rounds) /\ u[2] <= Excess(turn'[u[1]])
          BY DEF Unpaid, Excess
        <4>2. u = <<u[1], u[2]>> /\ u[2] \in 1 .. Rounds
          BY <4>1
        <4>3. u[2] \in 1 .. Excess(x)
          BY <1>1, <1>3, <3>2, <4>1, <4>2, ServiceAssumption
        <4> QED
          BY <2>1, <3>2, <4>2, <4>3
      <3> QED
        BY <1>6, <3>1, <3>2
    <2>5. R \cap O = {}
      BY <1>4, <2>1
    <2>6. Cardinality(R \cup O) = Cardinality(R) + Cardinality(O) - Cardinality(R \cap O)
      BY <2>2, <2>3, FS_Union
    <2>7. Cardinality({}) = 0
      BY FS_EmptySet
    <2>8. Cardinality(R \cup O) = Cardinality(R) + Excess(x)
      BY <1>3, <1>5, <2>2, <2>5, <2>6, <2>7
    <2> QED
      BY <2>4, <2>8
  <1>8. PICK c \in Nat : c = Cardinality(R)
    BY <1>5
  <1>9. /\ c + Excess(turn[t]) <= over
        /\ used + reserved + c + Excess(turn[t]) <= Limit + over
    BY <1>2, <1>3, <1>5, <1>8 DEF UnderCap
  <1>10. c + Excess(x) <= over' /\ used' + reserved' + c + Excess(x) <= Limit + over'
    BY <1>2, <1>3, <1>9
  <1>11. UnderCap'
    BY <1>2, <1>3, <1>7, <1>8, <1>10 DEF UnderCap
  <1>12. /\ Cardinality(Holders) \in Nat
         /\ Cardinality(Holders)' = Cardinality(Holders) + Has(x) - Has(turn[t])
    <2>1. Cardinality(Holders) \in Nat /\ IsFiniteSet(Holders)
      BY CountedSets
    <2>2. CASE x.hold # "none"
      <3>1. Holders' = Holders \cup {t}
        BY <1>1, <2>2 DEF Holders
      <3>2. Cardinality(Holders \cup {t}) =
              IF t \in Holders THEN Cardinality(Holders) ELSE Cardinality(Holders) + 1
        BY <2>1, FS_AddElement
      <3>3. t \in Holders <=> turn[t].hold # "none"
        BY DEF Holders
      <3> QED
        BY <2>1, <2>2, <3>1, <3>2, <3>3 DEF Has
    <2>3. CASE x.hold = "none"
      <3>1. Holders' = Holders \ {t}
        BY <1>1, <2>3 DEF Holders
      <3>2. Cardinality(Holders \ {t}) =
              IF t \in Holders THEN Cardinality(Holders) - 1 ELSE Cardinality(Holders)
        BY <2>1, FS_RemoveElement
      <3>3. t \in Holders <=> turn[t].hold # "none"
        BY DEF Holders
      <3> QED
        BY <2>1, <2>3, <3>1, <3>2, <3>3 DEF Has
    <2> QED
      BY <2>1, <2>2, <2>3
  <1>13. Has(x) \in {0, 1} /\ Has(turn[t]) \in {0, 1}
    BY DEF Has
  <1>14. HoldsCounted' /\ reserved' \in Nat
    <2>1. Cardinality(Holders)' \in Nat
      <3>1. IsFiniteSet(Turns) /\ Holders' \in SUBSET Turns
        BY ServiceAssumption DEF Holders
      <3> QED
        BY <3>1, FS_Subset, FS_CardinalityType
    <2> QED
      BY <1>2, <1>12, <1>13, <2>1 DEF HoldsCounted
  <1>15. LeasesReturn'
    <2> SUFFICES ASSUME crashes = 0, cancels' = 0, NEW m \in Ai!Models, lease'[m]
                 PROVE  \E q \in Turns : turn'[q].model = m /\ turn'[q].at \in Probing
      BY DEF LeasesReturn
    <2>1. CASE x.model = m /\ x.at \in Probing
      BY <1>1, <2>1
    <2>2. CASE lease[m] /\ ~(turn[t].model = m /\ turn[t].at \in Probing)
      <3>1. PICK q \in Turns : turn[q].model = m /\ turn[q].at \in Probing
        BY <2>2 DEF LeasesReturn
      <3> QED
        BY <1>1, <2>2, <3>1
    <2> QED
      BY <2>1, <2>2
  <1>16. AiType'
    BY <1>1, <1>2, <1>14 DEF AiType, TurnOk
  <1> QED
    BY <1>11, <1>14, <1>15, <1>16

\* A turn that waits to be tried: it holds nothing and owes nothing.
Waits(x) == TurnOk(x) /\ x.at \in Unheld /\ x.bill = 0

\* A turn that waits counts nowhere.
LEMMA WaitsForFree ==
  ASSUME NEW x, Waits(x)
  PROVE  TurnOk(x) /\ Has(x) = 0 /\ Excess(x) = 0 /\ x.at \in Unheld
  BY DEF Waits, TurnOk, Has, Excess

\* An empty slot waits.
LEMMA IdleWaits == Waits(Ai!Idle) /\ Ai!Idle.at = "idle"
  <1>1. PICK d : d = Ai!Idle
    OBVIOUS
  <1>2. PICK c : c = Ai!Closed
    OBVIOUS
  <1>3. d = [at |-> "idle", p |-> "none", model |-> Preference[1], rest |-> {},
             hold |-> "none", go |-> FALSE, bill |-> 0, pub |-> c]
    BY <1>1, <1>2 DEF Ai!Idle
  <1>4. Waits(d) /\ d.at = "idle"
    BY <1>3, ServiceAssumption DEF Waits, TurnOk, TurnPlaces, Unheld
  <1> QED
    BY <1>1, <1>4

\* The loop over the models leaves the turn waiting for one, or ended.
LEMMA AttemptTurn ==
  ASSUME NEW t \in Turns, NEW p, NEW l, NEW ahead, Ai!Attempt(t, p, l, ahead)
  PROVE  \E x : Waits(x) /\ turn' = [turn EXCEPT ![t] = x]
  <1> DEFINE open == {k \in ahead : Ai!IsAvailable(l[Preference[k]])}
  <1>1. PICK a, m, s : turn' = [turn EXCEPT ![t] =
                IF open = {} THEN Ai!Idle
                ELSE [Ai!Idle EXCEPT !.at = IF a THEN "lease" ELSE "claim",
                                     !.p = p, !.model = m, !.rest = s]]
    BY DEF Ai!Attempt
  <1> HIDE DEF open
  <1>2. CASE open = {}
    BY <1>1, <1>2, IdleWaits
  <1>3. CASE open # {}
    <2>1. PICK c : c = Ai!Closed
      OBVIOUS
    <2>2. PICK e : e = IF a THEN "lease" ELSE "claim"
      OBVIOUS
    <2>3. PICK x : x = [Ai!Idle EXCEPT !.at = e, !.p = p, !.model = m, !.rest = s]
      OBVIOUS
    <2>4. x = [at |-> e, p |-> p, model |-> m, rest |-> s, hold |-> "none",
               go |-> FALSE, bill |-> 0, pub |-> c]
      BY <2>1, <2>3 DEF Ai!Idle
    <2>5. Waits(x)
      BY <2>2, <2>4, ServiceAssumption DEF Waits, TurnOk, TurnPlaces, Unheld
    <2> QED
      BY <1>1, <1>3, <2>2, <2>3, <2>5
  <1> QED
    BY <1>2, <1>3

\* What a turn's place says of its hold and of what it owes.
LEMMA AiFacts ==
  ASSUME AiInv, NEW t \in Turns
  PROVE  /\ TurnOk(turn[t]) /\ Has(turn[t]) \in {0, 1} /\ Excess(turn[t]) \in Nat
         /\ turn[t].at \in Unheld => Has(turn[t]) = 0 /\ Excess(turn[t]) = 0
         /\ turn[t].at \in TurnPlaces \ Unheld => Has(turn[t]) = 1
         /\ turn[t].bill \in Nat /\ turn[t].at \in TurnPlaces
         /\ used \in Nat /\ reserved \in Nat /\ stranded \in Nat /\ over \in Nat
         /\ Limit \in Nat /\ crashes \in Nat /\ cancels \in Nat
         /\ lease \in [Ai!Models -> BOOLEAN]
  <1>1. TurnOk(turn[t])
    BY DEF AiInv, AiType
  <1>2. Excess(turn[t]) \in 0 .. Rounds
    BY <1>1, ExcessType
  <1>3. Excess(turn[t]) \in Nat /\ turn[t].bill \in Nat
    BY <1>1, <1>2, ServiceAssumption DEF TurnOk
  <1>4. /\ turn[t].at \in Unheld => Has(turn[t]) = 0 /\ Excess(turn[t]) = 0
        /\ turn[t].at \in TurnPlaces \ Unheld => Has(turn[t]) = 1
        /\ Has(turn[t]) \in {0, 1}
    BY <1>1 DEF TurnOk, Has, Excess, Unheld, Billed
  <1> QED
    BY <1>1, <1>3, <1>4, ServiceAssumption DEF AiInv, AiType, TurnOk

\* A turn that held nothing comes to wait for another model, or ends.
LEMMA WaitStep ==
  ASSUME AiInv, NEW t \in Turns, turn[t].at \in Unheld,
         NEW x, Waits(x), turn' = [turn EXCEPT ![t] = x],
         UNCHANGED <<used, reserved, stranded, over, crashes, cancels>>,
         lease' \in [Ai!Models -> BOOLEAN],
         \A m \in Ai!Models : lease'[m] =>
           lease[m] /\ ~(turn[t].model = m /\ turn[t].at \in Probing)
  PROVE  AiInv'
  <1>1. TurnOk(x) /\ Has(x) = 0 /\ Excess(x) = 0
    BY WaitsForFree
  <1>2. /\ Has(turn[t]) = 0 /\ Excess(turn[t]) = 0
        /\ used \in Nat /\ reserved \in Nat /\ over \in Nat /\ cancels \in Nat
    BY AiFacts
  <1>3. /\ used' \in Nat /\ reserved' \in Int /\ over' \in Nat /\ cancels' \in Nat
        /\ reserved' = reserved + Has(x) - Has(turn[t])
        /\ over + Excess(x) <= over' + Excess(turn[t])
        /\ used' + reserved' + Excess(x) + over <= used + reserved + Excess(turn[t]) + over'
    BY <1>1, <1>2
  <1>4. cancels' = 0 => cancels = 0 /\
          \A m \in Ai!Models : lease'[m] =>
            \/ x.model = m /\ x.at \in Probing
            \/ lease[m] /\ ~(turn[t].model = m /\ turn[t].at \in Probing)
    OBVIOUS
  <1>5. stranded' = stranded /\ crashes' = crashes
    OBVIOUS
  <1> QED
    BY <1>1, <1>3, <1>4, <1>5, OneTurn

\* A turn starts with nothing held.
LEMMA AiBeginStep ==
  ASSUME AiInv, NEW t \in Turns, NEW p \in Procs, Ai!Begin(t, p)
  PROVE  AiInv'
  <1>1. /\ turn[t] = Ai!Idle
        /\ UNCHANGED <<lease, used, reserved, stranded, over, crashes, cancels>>
        /\ \E l, ahead : Ai!Attempt(t, p, l, ahead)
    BY DEF Ai!Begin, Ai!budget
  <1>2. PICK x : Waits(x) /\ turn' = [turn EXCEPT ![t] = x]
    BY <1>1, AttemptTurn
  <1>3. turn[t].at \in Unheld /\ turn[t].at \notin Probing
    BY <1>1, IdleWaits DEF Unheld, Probing
  <1>4. lease' \in [Ai!Models -> BOOLEAN]
    BY <1>1, AiFacts
  <1> QED
    BY <1>1, <1>2, <1>3, <1>4, WaitStep

\* A model without a price gives its lease back.
LEMMA SkipStep ==
  ASSUME AiInv, NEW t \in Turns, Ai!Skip(t)
  PROVE  AiInv'
  <1>1. /\ turn[t].at = "claim"
        /\ UNCHANGED <<used, reserved, stranded, over, crashes, cancels>>
        /\ lease' = [lease EXCEPT ![turn[t].model] = FALSE]
        /\ \E p, l, ahead : Ai!Attempt(t, p, l, ahead)
    BY DEF Ai!Skip, Ai!TryNext, Ai!budget, Ai!history
  <1>2. PICK x : Waits(x) /\ turn' = [turn EXCEPT ![t] = x]
    BY <1>1, AttemptTurn
  <1>3. lease \in [Ai!Models -> BOOLEAN]
    BY AiFacts
  <1>4. /\ lease' \in [Ai!Models -> BOOLEAN]
        /\ \A m \in Ai!Models : lease'[m] => lease[m] /\ turn[t].model # m
    BY <1>1, <1>3
  <1> QED
    BY <1>1, <1>2, <1>4, WaitStep DEF Unheld

\* A turn that goes on with what it holds and owes.
LEMMA KeepStep ==
  ASSUME AiInv, NEW t \in Turns, NEW x, TurnOk(x), turn' = [turn EXCEPT ![t] = x],
         Has(x) = Has(turn[t]), Excess(x) = Excess(turn[t]),
         UNCHANGED <<used, reserved, stranded, over, crashes>>,
         cancels' = cancels \/ cancels' = cancels + 1,
         lease' \in [Ai!Models -> BOOLEAN],
         cancels' = cancels => \A m \in Ai!Models : lease'[m] =>
           \/ x.model = m /\ x.at \in Probing
           \/ lease[m] /\ ~(turn[t].model = m /\ turn[t].at \in Probing)
  PROVE  AiInv'
  <1>1. /\ Has(turn[t]) \in {0, 1} /\ Excess(turn[t]) \in Nat
        /\ used \in Nat /\ reserved \in Nat /\ over \in Nat /\ cancels \in Nat
    BY AiFacts
  <1>2. /\ used' \in Nat /\ reserved' \in Int /\ over' \in Nat /\ cancels' \in Nat
        /\ reserved' = reserved + Has(x) - Has(turn[t])
        /\ over + Excess(x) <= over' + Excess(turn[t])
        /\ used' + reserved' + Excess(x) + over <= used + reserved + Excess(turn[t]) + over'
    BY <1>1
  <1>3. cancels' = 0 => cancels = 0 /\ cancels' = cancels
    BY <1>1
  <1>4. stranded' = stranded /\ crashes' = crashes
    OBVIOUS
  <1> QED
    BY <1>2, <1>3, <1>4, OneTurn

\* One field of a turn's record changes, where it waits or holds.
LEMMA Stepped ==
  ASSUME NEW w, TurnOk(w), NEW p \in TurnPlaces, w.at \in Unheld <=> p \in Unheld,
         NEW x, x = [w EXCEPT !.at = p]
  PROVE  TurnOk(x) /\ x.at = p /\ x.model = w.model /\ x.hold = w.hold /\ x.bill = w.bill
  <1>1. x = [at |-> p, p |-> w.p, model |-> w.model, rest |-> w.rest,
             hold |-> w.hold, go |-> w.go, bill |-> w.bill, pub |-> w.pub]
    BY DEF TurnOk
  <1> QED
    BY <1>1 DEF TurnOk

Holding(w, p, h) == [w EXCEPT !.at = p, !.hold = h]

\* A turn's record moves with its hold.
LEMMA Held ==
  ASSUME NEW w, TurnOk(w), NEW p \in TurnPlaces \ Unheld,
         NEW h \in {"claimed", "held", "settled"},
         NEW x, x = Holding(w, p, h)
  PROVE  TurnOk(x) /\ x.at = p /\ x.model = w.model /\ x.hold = h /\ x.bill = w.bill
  <1>1. x = [at |-> p, p |-> w.p, model |-> w.model, rest |-> w.rest,
             hold |-> h, go |-> w.go, bill |-> w.bill, pub |-> w.pub]
    BY DEF TurnOk, Holding
  <1> QED
    BY <1>1 DEF TurnOk

\* A turn takes the lease it will give back, or moves on to another model.
LEMMA LeaseStep ==
  ASSUME AiInv, NEW t \in Turns, Ai!Lease(t)
  PROVE  AiInv'
  <1>0. /\ turn[t].at = "lease"
        /\ UNCHANGED <<used, reserved, stranded, over, crashes, cancels>>
        /\ IF lease[turn[t].model]
             THEN /\ lease' = lease
                  /\ \E p, l, ahead : Ai!Attempt(t, p, l, ahead)
             ELSE /\ lease' = [lease EXCEPT ![turn[t].model] = TRUE]
                  /\ turn' = [turn EXCEPT ![t].at = "claim"]
    BY DEF Ai!Lease, Ai!TryNext, Ai!budget, Ai!history
  <1>1. lease \in [Ai!Models -> BOOLEAN] /\ TurnOk(turn[t])
    BY AiFacts
  <1>2. CASE lease[turn[t].model]
    <2>1. PICK x : Waits(x) /\ turn' = [turn EXCEPT ![t] = x]
      BY <1>0, <1>2, AttemptTurn
    <2> QED
      BY <1>0, <1>1, <1>2, <2>1, WaitStep DEF Unheld, Probing
  <1>3. CASE ~lease[turn[t].model]
    <2>1. PICK x : x = [turn[t] EXCEPT !.at = "claim"]
      OBVIOUS
    <2>2. turn' = [turn EXCEPT ![t] = x]
      BY <1>0, <1>3, <2>1
    <2>3. "claim" \in TurnPlaces /\ "claim" \in Unheld /\ "lease" \in Unheld
      BY DEF TurnPlaces, Unheld
    <2>4. /\ TurnOk(x) /\ x.at = "claim" /\ x.model = turn[t].model
          /\ x.hold = turn[t].hold /\ x.bill = turn[t].bill
      BY <1>0, <1>1, <2>1, <2>3, Stepped
    <2>5. Has(x) = Has(turn[t]) /\ Excess(x) = 0 /\ Excess(turn[t]) = 0
      BY <1>0, <2>4 DEF Has, Excess, Billed
    <2>6. lease' = [lease EXCEPT ![turn[t].model] = TRUE]
      BY <1>0, <1>3
    <2>7. /\ lease' \in [Ai!Models -> BOOLEAN]
          /\ \A m \in Ai!Models : lease'[m] =>
               \/ x.model = m /\ x.at \in Probing
               \/ lease[m] /\ ~(turn[t].model = m /\ turn[t].at \in Probing)
      BY <1>0, <1>1, <2>4, <2>6 DEF Probing
    <2> QED
      BY <1>0, <2>2, <2>4, <2>5, <2>7, KeepStep
  <1> QED
    BY <1>2, <1>3

\* The circuit is published; the turn keeps its lease and its hold.
LEMMA PublishStep ==
  ASSUME AiInv, NEW t \in Turns, Ai!Publish(t)
  PROVE  AiInv'
  <1>0. /\ turn[t].at = "publish" /\ turn' = [turn EXCEPT ![t].at = "exit"]
        /\ UNCHANGED <<lease, used, reserved, stranded, over, crashes, cancels>>
    BY DEF Ai!Publish, Ai!budget, Ai!history
  <1>1. PICK x : x = [turn[t] EXCEPT !.at = "exit"]
    OBVIOUS
  <1>2. turn' = [turn EXCEPT ![t] = x]
    BY <1>0, <1>1
  <1>3. "exit" \in TurnPlaces /\ "exit" \notin Unheld /\ "publish" \notin Unheld
    BY DEF TurnPlaces, Unheld
  <1>4. /\ TurnOk(x) /\ x.at = "exit" /\ x.model = turn[t].model
        /\ x.hold = turn[t].hold /\ x.bill = turn[t].bill
    BY <1>0, <1>1, <1>3, AiFacts, Stepped
  <1>5. Has(x) = Has(turn[t]) /\ Excess(x) = Excess(turn[t])
    BY <1>0, <1>4 DEF Has, Excess, Billed
  <1>6. /\ lease' \in [Ai!Models -> BOOLEAN]
        /\ \A m \in Ai!Models : lease'[m] =>
             \/ x.model = m /\ x.at \in Probing
             \/ lease[m] /\ ~(turn[t].model = m /\ turn[t].at \in Probing)
    BY <1>0, <1>4, AiFacts DEF Probing
  <1> QED
    BY <1>0, <1>2, <1>4, <1>5, <1>6, KeepStep

\* The lease of the turn's model is given back.
LEMMA ExitStep ==
  ASSUME AiInv, NEW t \in Turns, Ai!Exit(t)
  PROVE  AiInv'
  <1>0. /\ turn[t].at = "exit" /\ turn' = [turn EXCEPT ![t].at = "settle"]
        /\ lease' = [lease EXCEPT ![turn[t].model] = FALSE]
        /\ UNCHANGED <<used, reserved, stranded, over, crashes, cancels>>
    BY DEF Ai!Exit, Ai!budget, Ai!history
  <1>1. PICK x : x = [turn[t] EXCEPT !.at = "settle"]
    OBVIOUS
  <1>2. turn' = [turn EXCEPT ![t] = x]
    BY <1>0, <1>1
  <1>3. "settle" \in TurnPlaces /\ "settle" \notin Unheld /\ "exit" \notin Unheld
    BY DEF TurnPlaces, Unheld
  <1>4. /\ TurnOk(x) /\ x.at = "settle" /\ x.model = turn[t].model
        /\ x.hold = turn[t].hold /\ x.bill = turn[t].bill
    BY <1>0, <1>1, <1>3, AiFacts, Stepped
  <1>5. Has(x) = Has(turn[t]) /\ Excess(x) = Excess(turn[t])
    BY <1>0, <1>4 DEF Has, Excess, Billed
  <1>6. lease \in [Ai!Models -> BOOLEAN]
    BY AiFacts
  <1>7. /\ lease' \in [Ai!Models -> BOOLEAN]
        /\ \A m \in Ai!Models : lease'[m] => lease[m] /\ turn[t].model # m
    BY <1>0, <1>6
  <1> QED
    BY <1>0, <1>2, <1>4, <1>5, <1>7, KeepStep

\* The row is settled; the period still counts it.
LEMMA SettleStep ==
  ASSUME AiInv, NEW t \in Turns, Ai!Settle(t)
  PROVE  AiInv'
  <1>0. /\ turn[t].at = "settle"
        /\ turn' = [turn EXCEPT ![t].at = "total", ![t].hold = "settled"]
        /\ UNCHANGED <<lease, used, reserved, stranded, over, crashes, cancels>>
    BY DEF Ai!Settle, Ai!circuits, Ai!budget, Ai!history
  <1>1. PICK x : x = Holding(turn[t], "total", "settled")
    OBVIOUS
  <1>2. turn' = [turn EXCEPT ![t] = x]
    <2>1. turn = [q \in Turns |-> turn[q]]
      BY DEF AiInv, AiType
    <2> QED
      BY <1>0, <1>1, <2>1 DEF Holding
  <1>3. "total" \in TurnPlaces \ Unheld /\ "settle" \in TurnPlaces \ Unheld
    BY DEF TurnPlaces, Unheld
  <1>4. /\ TurnOk(x) /\ x.at = "total" /\ x.hold = "settled" /\ x.bill = turn[t].bill
    <2>1. TurnOk(turn[t]) /\ "total" \in TurnPlaces \ Unheld
      BY <1>3, AiFacts
    <2> QED
      BY <1>1, <2>1, Held
  <1>5. Has(x) = Has(turn[t]) /\ Excess(x) = Excess(turn[t])
    <2>1. Has(turn[t]) = 1
      BY <1>0, <1>3, AiFacts
    <2> QED
      BY <1>0, <1>4, <2>1 DEF Has, Excess, Billed
  <1>6. lease' \in [Ai!Models -> BOOLEAN] /\ turn[t].at \notin Probing
    BY <1>0, AiFacts DEF Probing
  <1> QED
    BY <1>0, <1>2, <1>4, <1>5, <1>6, KeepStep

\* The turn ends without a call: its model's lease is back, and its hold if it had one.
LEMMA RefuseStep ==
  ASSUME AiInv, NEW t \in Turns, turn[t].at \in {"claim", "insert"}, Ai!Refuse(t),
         UNCHANGED <<used, stranded, over, crashes, cancels>>,
         reserved' = reserved - Has(turn[t])
  PROVE  AiInv'
  <1>1. /\ turn' = [turn EXCEPT ![t] = Ai!Idle]
        /\ lease' = [lease EXCEPT ![turn[t].model] = FALSE]
    BY DEF Ai!Refuse
  <1>2. PICK x : x = Ai!Idle
    OBVIOUS
  <1>3. TurnOk(x) /\ Has(x) = 0 /\ Excess(x) = 0
    BY <1>2, IdleWaits, WaitsForFree
  <1>4. /\ Has(turn[t]) \in {0, 1} /\ lease \in [Ai!Models -> BOOLEAN]
        /\ used \in Nat /\ reserved \in Nat /\ over \in Nat /\ cancels \in Nat
    BY AiFacts
  <1>5. Excess(turn[t]) = 0
    BY DEF Excess, Billed
  <1>6. /\ used' \in Nat /\ reserved' \in Int /\ over' \in Nat /\ cancels' \in Nat
        /\ reserved' = reserved + Has(x) - Has(turn[t])
        /\ over + Excess(x) <= over' + Excess(turn[t])
        /\ used' + reserved' + Excess(x) + over <= used + reserved + Excess(turn[t]) + over'
    BY <1>3, <1>4, <1>5
  <1>7. /\ lease' \in [Ai!Models -> BOOLEAN]
        /\ \A m \in Ai!Models : lease'[m] => lease[m] /\ turn[t].model # m
    BY <1>1, <1>4
  <1>8. turn' = [turn EXCEPT ![t] = x]
    BY <1>1, <1>2
  <1>9. stranded' = stranded /\ crashes' = crashes /\ cancels' = cancels
    OBVIOUS
  <1> QED
    BY <1>3, <1>6, <1>7, <1>8, <1>9, OneTurn

\* A claim is counted only where the cap has room for it beside every other.
LEMMA ClaimStep ==
  ASSUME AiInv, NEW t \in Turns, Ai!Claim(t)
  PROVE  AiInv'
  <1>0. /\ turn[t].at = "claim" /\ UNCHANGED <<used, stranded, over, crashes, cancels>>
        /\ IF used + reserved + 1 <= Limit
             THEN /\ reserved' = reserved + 1
                  /\ turn' = [turn EXCEPT ![t].at = "insert", ![t].hold = "claimed"]
                  /\ lease' = lease
             ELSE Ai!Refuse(t) /\ reserved' = reserved
    BY DEF Ai!Claim, Ai!circuits, Ai!history
  <1>1. /\ Has(turn[t]) = 0 /\ Excess(turn[t]) = 0 /\ TurnOk(turn[t])
        /\ lease \in [Ai!Models -> BOOLEAN] /\ Limit \in Nat
        /\ used \in Nat /\ reserved \in Nat /\ over \in Nat /\ cancels \in Nat
    <2>1. turn[t].at \in Unheld
      BY <1>0 DEF Unheld
    <2> QED
      BY <2>1, AiFacts
  <1>2. CASE used + reserved + 1 <= Limit
    <2>0. /\ reserved' = reserved + 1 /\ lease' = lease
          /\ turn' = [turn EXCEPT ![t].at = "insert", ![t].hold = "claimed"]
      BY <1>0, <1>2
    <2>1. PICK x : x = Holding(turn[t], "insert", "claimed")
      OBVIOUS
    <2>2. turn' = [turn EXCEPT ![t] = x]
      <3>1. turn = [q \in Turns |-> turn[q]]
        BY DEF AiInv, AiType
      <3> QED
        BY <2>0, <2>1, <3>1 DEF Holding
    <2>3. "insert" \in TurnPlaces \ Unheld
      BY DEF TurnPlaces, Unheld
    <2>4. /\ TurnOk(x) /\ x.at = "insert" /\ x.model = turn[t].model /\ x.hold = "claimed"
      BY <1>1, <2>1, <2>3, Held
    <2>5. Has(x) = 1 /\ Excess(x) = 0
      BY <2>4 DEF Has, Excess, Billed
    <2>6. /\ used' \in Nat /\ reserved' \in Int /\ over' \in Nat /\ cancels' \in Nat
          /\ reserved' = reserved + Has(x) - Has(turn[t])
          /\ over + Excess(x) <= over' + Excess(turn[t])
          /\ used' + reserved' <= Limit
      BY <1>0, <1>1, <1>2, <2>0, <2>5
    <2>7. /\ lease' \in [Ai!Models -> BOOLEAN]
          /\ \A m \in Ai!Models : lease'[m] =>
               \/ x.model = m /\ x.at \in Probing
               \/ lease[m] /\ ~(turn[t].model = m /\ turn[t].at \in Probing)
      BY <1>1, <2>0, <2>4 DEF Probing
    <2>8. stranded' = stranded /\ crashes' = crashes /\ cancels' = cancels
      BY <1>0
    <2> QED
      BY <2>2, <2>4, <2>6, <2>7, <2>8, OneTurn
  <1>3. CASE ~(used + reserved + 1 <= Limit)
    <2>1. reserved' = reserved - Has(turn[t])
      BY <1>0, <1>1, <1>3
    <2> QED
      BY <1>0, <1>3, <2>1, RefuseStep
  <1> QED
    BY <1>2, <1>3

\* The row is written, or the claim is given back.
LEMMA InsertStep ==
  ASSUME AiInv, NEW t \in Turns, Ai!Insert(t)
  PROVE  AiInv'
  <1>0. /\ turn[t].at = "insert" /\ UNCHANGED <<used, stranded, over, crashes, cancels>>
        /\ \/ /\ turn' = [turn EXCEPT ![t].at = "call", ![t].hold = "held"]
              /\ lease' = lease /\ reserved' = reserved
           \/ Ai!Refuse(t) /\ reserved' = reserved - 1
    BY DEF Ai!Insert, Ai!circuits, Ai!history
  <1>1. "call" \in TurnPlaces \ Unheld /\ "insert" \in TurnPlaces \ Unheld
    BY DEF TurnPlaces, Unheld
  <1>2. Has(turn[t]) = 1 /\ TurnOk(turn[t]) /\ lease \in [Ai!Models -> BOOLEAN]
    BY <1>0, <1>1, AiFacts
  <1>3. CASE /\ turn' = [turn EXCEPT ![t].at = "call", ![t].hold = "held"]
             /\ lease' = lease /\ reserved' = reserved
    <2>1. PICK x : x = Holding(turn[t], "call", "held")
      OBVIOUS
    <2>2. turn' = [turn EXCEPT ![t] = x]
      <3>1. turn = [q \in Turns |-> turn[q]]
        BY DEF AiInv, AiType
      <3> QED
        BY <1>3, <2>1, <3>1 DEF Holding
    <2>3. /\ TurnOk(x) /\ x.at = "call" /\ x.model = turn[t].model /\ x.hold = "held"
      <3>1. TurnOk(turn[t]) /\ "call" \in TurnPlaces \ Unheld
        BY <1>1, <1>2
      <3> QED
        BY <2>1, <3>1, Held
    <2>4. Has(x) = Has(turn[t]) /\ Excess(x) = Excess(turn[t])
      BY <1>0, <1>2, <2>3 DEF Has, Excess, Billed
    <2>5. /\ lease' \in [Ai!Models -> BOOLEAN]
          /\ \A m \in Ai!Models : lease'[m] =>
               \/ x.model = m /\ x.at \in Probing
               \/ lease[m] /\ ~(turn[t].model = m /\ turn[t].at \in Probing)
      BY <1>2, <1>3, <2>3 DEF Probing
    <2> QED
      BY <1>0, <1>3, <2>2, <2>3, <2>4, <2>5, KeepStep
  <1>4. CASE Ai!Refuse(t) /\ reserved' = reserved - 1
    <2>1. reserved' = reserved - Has(turn[t])
      BY <1>2, <1>4
    <2> QED
      BY <1>0, <1>4, <2>1, RefuseStep
  <1> QED
    BY <1>0, <1>3, <1>4

\* A turn's record with the answer of its provider.
Answered(w, p, c, b, g) == [w EXCEPT !.at = p, !.pub = c, !.bill = b, !.go = g]

\* The fields of a turn's record when the provider has answered.
LEMMA WasAnswered ==
  ASSUME NEW w, TurnOk(w), NEW p \in TurnPlaces \ Unheld, w.at \in TurnPlaces \ Unheld,
         NEW c, NEW b \in 0 .. Rounds, NEW g, NEW x, x = Answered(w, p, c, b, g)
  PROVE  TurnOk(x) /\ x.at = p /\ x.model = w.model /\ x.hold = w.hold /\ x.bill = b
  <1>1. x = [at |-> p, p |-> w.p, model |-> w.model, rest |-> w.rest,
             hold |-> w.hold, go |-> g, bill |-> b, pub |-> c]
    BY DEF TurnOk, Answered
  <1> QED
    BY <1>1 DEF TurnOk

\* An answer that costs more than its estimate is charged as such.
LEMMA AnswerTurnStep ==
  ASSUME AiInv, NEW t \in Turns, NEW outcome \in {"ok", "failed", "limited"},
         NEW cost \in 0 .. Rounds, NEW text \in BOOLEAN, Ai!Answer(t, outcome, cost, text)
  PROVE  AiInv'
  <1>0. /\ turn[t].at = "call"
        /\ UNCHANGED <<lease, used, reserved, stranded, crashes, cancels>>
        /\ over' = IF cost > 1 THEN over + cost - 1 ELSE over
        /\ \E c, g : turn' = [turn EXCEPT ![t].at = "publish", ![t].pub = c, ![t].bill = cost,
                                          ![t].go = g]
    BY DEF Ai!Answer, Ai!history
  <1>1. PICK c, g : turn' = [turn EXCEPT ![t].at = "publish", ![t].pub = c, ![t].bill = cost,
                                         ![t].go = g]
    BY <1>0
  <1>2. PICK x : x = Answered(turn[t], "publish", c, cost, g)
    OBVIOUS
  <1>3. turn' = [turn EXCEPT ![t] = x]
    <2>1. turn = [q \in Turns |-> turn[q]]
      BY DEF AiInv, AiType
    <2> QED
      BY <1>1, <1>2, <2>1 DEF Answered
  <1>4. TurnOk(turn[t]) /\ "publish" \in TurnPlaces \ Unheld /\ "call" \in TurnPlaces \ Unheld
    BY AiFacts DEF TurnPlaces, Unheld
  <1>5. /\ TurnOk(x) /\ x.at = "publish" /\ x.model = turn[t].model
        /\ x.hold = turn[t].hold /\ x.bill = cost
    BY <1>0, <1>2, <1>4, WasAnswered
  <1>6. /\ cost \in Nat /\ Has(turn[t]) \in {0, 1} /\ lease \in [Ai!Models -> BOOLEAN]
        /\ used \in Nat /\ reserved \in Nat /\ over \in Nat /\ cancels \in Nat
    BY AiFacts, ServiceAssumption
  <1>7. /\ Has(x) = Has(turn[t]) /\ Excess(turn[t]) = 0
        /\ Excess(x) = IF cost > 0 THEN cost - 1 ELSE 0
    BY <1>0, <1>5 DEF Has, Excess, Billed
  <1>8. over' \in Nat /\ over' = over + Excess(x)
    BY <1>0, <1>6, <1>7
  <1>9. Excess(x) \in Nat
    BY <1>6, <1>7
  <1>10. /\ used' \in Nat /\ reserved' \in Int /\ cancels' \in Nat
         /\ reserved' = reserved + Has(x) - Has(turn[t])
         /\ over + Excess(x) <= over' + Excess(turn[t])
         /\ used' + reserved' + Excess(x) + over <= used + reserved + Excess(turn[t]) + over'
    BY <1>0, <1>6, <1>7, <1>8, <1>9
  <1>11. /\ lease' \in [Ai!Models -> BOOLEAN]
         /\ \A m \in Ai!Models : lease'[m] =>
              \/ x.model = m /\ x.at \in Probing
              \/ lease[m] /\ ~(turn[t].model = m /\ turn[t].at \in Probing)
    BY <1>0, <1>5, <1>6 DEF Probing
  <1>12. stranded' = stranded /\ crashes' = crashes /\ cancels' = cancels
    BY <1>0
  <1> QED
    BY <1>3, <1>5, <1>8, <1>10, <1>11, <1>12, OneTurn

\* An abandoned stream settles at no cost.
LEMMA CancelStep ==
  ASSUME AiInv, NEW t \in Turns, Ai!Cancel(t)
  PROVE  AiInv'
  <1>0. /\ turn[t].at = "call" /\ cancels' = cancels + 1
        /\ UNCHANGED <<lease, used, reserved, stranded, over, crashes>>
        /\ turn' = [turn EXCEPT ![t].at = "settle", ![t].go = FALSE, ![t].bill = 0]
    BY DEF Ai!Cancel, Ai!circuits
  <1>1. PICK x : x = Answered(turn[t], "settle", turn[t].pub, 0, FALSE)
    OBVIOUS
  <1>2. TurnOk(turn[t]) /\ "settle" \in TurnPlaces \ Unheld /\ "call" \in TurnPlaces \ Unheld
    BY AiFacts DEF TurnPlaces, Unheld
  <1>3. turn' = [turn EXCEPT ![t] = x]
    <2>1. turn = [q \in Turns |-> turn[q]]
      BY DEF AiInv, AiType
    <2>2. x = [turn[t] EXCEPT !.at = "settle", !.go = FALSE, !.bill = 0]
      BY <1>1, <1>2 DEF Answered, TurnOk
    <2> QED
      BY <1>0, <2>1, <2>2
  <1>4. 0 \in 0 .. Rounds
    BY ServiceAssumption
  <1>5. /\ TurnOk(x) /\ x.at = "settle" /\ x.model = turn[t].model
        /\ x.hold = turn[t].hold /\ x.bill = 0
    <2>1. TurnOk(turn[t]) /\ turn[t].at \in TurnPlaces \ Unheld
      BY <1>0, <1>2
    <2>2. "settle" \in TurnPlaces \ Unheld
      BY <1>2
    <2>3. PICK c, g : c = turn[t].pub /\ g = FALSE
      OBVIOUS
    <2>4. x = Answered(turn[t], "settle", c, 0, g)
      BY <1>1, <2>3
    <2> QED
      BY <1>4, <2>1, <2>2, <2>4, WasAnswered
  <1>6. Has(x) = Has(turn[t]) /\ Excess(x) = Excess(turn[t])
    BY <1>0, <1>5 DEF Has, Excess, Billed
  <1>7. lease' \in [Ai!Models -> BOOLEAN] /\ cancels' # cancels
    BY <1>0, AiFacts
  <1> QED
    BY <1>0, <1>3, <1>5, <1>6, <1>7, KeepStep

\* The period trades the turn's hold for its bill.
LEMMA TotalStep ==
  ASSUME AiInv, NEW t \in Turns, Ai!Total(t)
  PROVE  AiInv'
  <1>0. /\ turn[t].at = "total" /\ reserved' = reserved - 1 /\ used' = used + turn[t].bill
        /\ UNCHANGED <<lease, stranded, over, crashes, cancels>>
        /\ \/ \E p, l, ahead : Ai!Attempt(t, p, l, ahead)
           \/ turn' = [turn EXCEPT ![t] = Ai!Idle]
    BY DEF Ai!Total, Ai!TryNext, Ai!history
  <1>1. PICK x : Waits(x) /\ turn' = [turn EXCEPT ![t] = x]
    <2>1. CASE \E p, l, ahead : Ai!Attempt(t, p, l, ahead)
      BY <2>1, AttemptTurn
    <2>2. CASE turn' = [turn EXCEPT ![t] = Ai!Idle]
      BY <2>2, IdleWaits
    <2> QED
      BY <1>0, <2>1, <2>2
  <1>2. TurnOk(x) /\ Has(x) = 0 /\ Excess(x) = 0
    BY <1>1, WaitsForFree
  <1>3. "total" \in TurnPlaces \ Unheld /\ "total" \in Billed /\ "total" \notin Probing
    BY DEF TurnPlaces, Unheld, Billed, Probing
  <1>4. /\ Has(turn[t]) = 1 /\ turn[t].bill \in Nat /\ lease \in [Ai!Models -> BOOLEAN]
        /\ used \in Nat /\ reserved \in Nat /\ over \in Nat /\ cancels \in Nat
    BY <1>0, <1>3, AiFacts
  <1>5. Excess(turn[t]) \in Nat /\ turn[t].bill <= Excess(turn[t]) + 1
    BY <1>0, <1>3, <1>4 DEF Excess
  <1>6. /\ used' \in Nat /\ reserved' \in Int /\ over' \in Nat /\ cancels' \in Nat
        /\ reserved' = reserved + Has(x) - Has(turn[t])
        /\ over + Excess(x) <= over' + Excess(turn[t])
        /\ used' + reserved' + Excess(x) + over <= used + reserved + Excess(turn[t]) + over'
    BY <1>0, <1>2, <1>4, <1>5
  <1>7. stranded' = stranded /\ crashes' = crashes /\ cancels' = cancels /\ lease' = lease
    BY <1>0
  <1> QED
    BY <1>0, <1>1, <1>2, <1>3, <1>4, <1>6, <1>7, OneTurn

\* Time passes: every lease has run out.
LEMMA CoolStep ==
  ASSUME AiInv, Ai!Cool
  PROVE  AiInv'
  <1>0. /\ UNCHANGED <<turn, used, reserved, stranded, over, crashes, cancels>>
        /\ lease' = [m \in Ai!Models |-> FALSE]
    BY DEF Ai!Cool, Ai!budget
  <1>1. AiType'
    BY <1>0 DEF AiInv, AiType, TurnOk
  <1>2. Unpaid' = Unpaid /\ Holders' = Holders
    BY <1>0 DEF Unpaid, Holders, Excess
  <1>3. UnderCap' /\ HoldsCounted'
    BY <1>0, <1>2 DEF AiInv, UnderCap, HoldsCounted
  <1>4. LeasesReturn'
    BY <1>0 DEF LeasesReturn
  <1> QED
    BY <1>1, <1>3, <1>4 DEF AiInv

\* A process dies: its turns are gone, and their rows are left to the period.
LEMMA CrashStep ==
  ASSUME AiInv, NEW p \in Procs, Ai!Crash(p)
  PROVE  AiInv'
  <1> USE DEF AiInv
  <1>1. PICK mine : mine = {t \in Turns : turn[t] # Ai!Idle /\ turn[t].p = p}
    OBVIOUS
  <1>2. PICK M : M = {t \in mine : turn[t].hold = "held"}
    OBVIOUS
  <1>3. stranded' = stranded + Cardinality(M)
    BY <1>1, <1>2, SameCount DEF Ai!Crash, Ai!Quantify
  <1>4. /\ UNCHANGED <<lease, used, reserved, over, cancels>> /\ crashes' = crashes + 1
        /\ turn' = [t \in Turns |-> IF t \in mine THEN Ai!Idle ELSE turn[t]]
    BY <1>1 DEF Ai!Crash
  <1>5. /\ TurnOk(Ai!Idle) /\ Has(Ai!Idle) = 0 /\ Excess(Ai!Idle) = 0
        /\ Ai!Idle.hold = "none"
    BY IdleWaits, WaitsForFree DEF Has
  <1>6. /\ used \in Nat /\ reserved \in Nat /\ stranded \in Nat /\ over \in Nat /\ Limit \in Nat
        /\ crashes \in Nat /\ Cardinality(Holders) \in Nat /\ IsFiniteSet(Holders)
        /\ Cardinality(Unpaid) \in Nat /\ IsFiniteSet(Unpaid)
    BY ServiceAssumption, CountedSets DEF AiType
  <1>7. crashes' \in Nat /\ crashes' # 0
    BY <1>4, <1>6
  <1>8. M \subseteq Holders
    BY <1>1, <1>2 DEF Holders
  <1>9. Holders' = Holders \ mine
    BY <1>1, <1>4, <1>5 DEF Holders
  <1>10. M \cap Holders' = {} /\ M \cup Holders' \subseteq Holders
    BY <1>2, <1>8, <1>9
  <1>11. /\ Cardinality(M) \in Nat /\ Cardinality(Holders') \in Nat
         /\ stranded + Cardinality(M) + Cardinality(Holders') <= reserved
    <2>1. PICK H : H = Holders'
      OBVIOUS
    <2>2. IsFiniteSet(M) /\ IsFiniteSet(H) /\ Cardinality(M) \in Nat /\ Cardinality(H) \in Nat
      BY <1>6, <1>8, <1>10, <2>1, FS_Subset, FS_CardinalityType
    <2>3. Cardinality(M \cup H) = Cardinality(M) + Cardinality(H) - Cardinality(M \cap H)
      BY <2>2, FS_Union
    <2>4. Cardinality({}) = 0
      BY FS_EmptySet
    <2>5. Cardinality(M \cup H) <= Cardinality(Holders)
      BY <1>6, <1>10, <2>1, FS_Subset
    <2>6. Cardinality(M \cap H) = 0
      <3>1. M \cap H = {}
        BY <1>10, <2>1
      <3> QED
        BY <2>4, <3>1
    <2>7. Cardinality(M) + Cardinality(H) <= Cardinality(Holders)
      BY <2>2, <2>3, <2>5, <2>6
    <2>8. stranded + Cardinality(Holders) <= reserved
      BY DEF HoldsCounted
    <2> QED
      BY <1>6, <2>1, <2>2, <2>7, <2>8
  <1>12. HoldsCounted'
    BY <1>3, <1>4, <1>6, <1>7, <1>11 DEF HoldsCounted
  <1>13. Unpaid' \subseteq Unpaid
    <2>1. \A t \in Turns : Excess(turn'[t]) = IF t \in mine THEN 0 ELSE Excess(turn[t])
      BY <1>4, <1>5
    <2>2. \A u \in Turns \X (1 .. Rounds) : u[1] \in Turns /\ u[2] \in 1 .. Rounds
      OBVIOUS
    <2>3. \A u \in Turns \X (1 .. Rounds) :
            u[2] <= Excess(turn'[u[1]]) => u[2] <= Excess(turn[u[1]])
      <3> SUFFICES ASSUME NEW u \in Turns \X (1 .. Rounds), u[2] <= Excess(turn'[u[1]])
                   PROVE  u[2] <= Excess(turn[u[1]])
        OBVIOUS
      <3>1. u[1] \notin mine
        BY <2>1, <2>2, ServiceAssumption
      <3> QED
        BY <2>1, <2>2, <3>1
    <2>4. Unpaid' = {u \in Turns \X (1 .. Rounds) : u[2] <= Excess(turn'[u[1]])}
      BY DEF Unpaid, Excess
    <2> QED
      BY <2>3, <2>4 DEF Unpaid
  <1>14. Cardinality(Unpaid') \in Nat /\ Cardinality(Unpaid') <= Cardinality(Unpaid)
    BY <1>6, <1>13, FS_Subset, FS_CardinalityType
  <1>15. UnderCap'
    BY <1>4, <1>6, <1>14 DEF UnderCap
  <1>16. LeasesReturn'
    BY <1>7 DEF LeasesReturn
  <1>17. stranded' \in Nat
    BY <1>3, <1>6, <1>11
  <1>18. AiType'
    BY <1>4, <1>5, <1>6, <1>7, <1>17 DEF AiType, TurnOk
  <1> QED
    BY <1>12, <1>15, <1>16, <1>18

(***************************************************************************)
(* The gateway: what holds in every state                                  *)
(***************************************************************************)
LEMMA AiStart ==
  ASSUME Init
  PROVE  AiInv
  <1> USE DEF Init, Ai!Init
  <1>1. /\ TurnOk(Ai!Idle) /\ Excess(Ai!Idle) = 0 /\ Ai!Idle.hold = "none"
    BY IdleWaits, WaitsForFree DEF Has
  <1>2. AiType
    BY <1>1 DEF AiType
  <1>3. Holders = {}
    BY <1>1 DEF Holders
  <1>4. Unpaid = {}
    BY <1>1, ServiceAssumption DEF Unpaid
  <1>5. Cardinality(Holders) = 0 /\ Cardinality(Unpaid) = 0
    BY <1>3, <1>4, FS_EmptySet
  <1>6. UnderCap /\ HoldsCounted
    BY <1>5, ServiceAssumption DEF UnderCap, HoldsCounted
  <1>7. LeasesReturn
    BY DEF LeasesReturn
  <1> QED
    BY <1>2, <1>6, <1>7 DEF AiInv

\* A step of another part leaves the gateway as it was.
LEMMA AiStutter ==
  ASSUME AiInv, UNCHANGED ai
  PROVE  AiInv'
  <1>1. UNCHANGED <<lease, turn, used, reserved, stranded, over, crashes, cancels>>
    BY DEF ai
  <1>2. Unpaid' = Unpaid /\ Holders' = Holders
    BY <1>1 DEF Unpaid, Holders, Excess
  <1>3. AiType'
    BY <1>1 DEF AiInv, AiType, TurnOk
  <1> QED
    BY <1>1, <1>2, <1>3 DEF AiInv, UnderCap, HoldsCounted, LeasesReturn

\* Every operation of the gateway keeps the invariant.
LEMMA AiStep ==
  ASSUME AiInv, Ai!Next
  PROVE  AiInv'
  <1>1. ASSUME NEW t \in Turns, NEW p \in Procs, Ai!Begin(t, p) PROVE AiInv'
    BY <1>1, AiBeginStep
  <1>2. ASSUME NEW t \in Turns, NEW outcome \in {"ok", "failed", "limited"},
               NEW cost \in 0 .. Rounds, NEW text \in BOOLEAN, Ai!Answer(t, outcome, cost, text)
        PROVE  AiInv'
    BY <1>2, AnswerTurnStep
  <1>3. ASSUME NEW t \in Turns,
               \/ Ai!Lease(t) \/ Ai!Skip(t) \/ Ai!Claim(t) \/ Ai!Insert(t) \/ Ai!Cancel(t)
               \/ Ai!Publish(t) \/ Ai!Exit(t) \/ Ai!Settle(t) \/ Ai!Total(t)
        PROVE  AiInv'
    BY <1>3, LeaseStep, SkipStep, ClaimStep, InsertStep, CancelStep, PublishStep, ExitStep,
       SettleStep, TotalStep
  <1>4. CASE Ai!Cool
    BY <1>4, CoolStep
  <1>5. ASSUME NEW p \in Procs, Ai!Crash(p) PROVE AiInv'
    BY <1>5, CrashStep
  <1> QED
    BY <1>1, <1>2, <1>3, <1>4, <1>5 DEF Ai!Next

\* In a behaviour of the gateway the invariant holds throughout.
LEMMA AiHolds == Spec => [](service = "ai" => AiInv)
  <1>1. Init => AiInv
    BY AiStart
  <1>2. (service = "ai" => AiInv) /\ [Next]_vars => (service = "ai" => AiInv)'
    <2> SUFFICES ASSUME service = "ai" => AiInv, [Next]_vars, service' = "ai"
                 PROVE  AiInv'
      OBVIOUS
    <2>1. CASE service = "ai" /\ Ai!Next
      BY <2>1, AiStep
    <2>2. CASE UNCHANGED <<service, ai>>
      BY <2>2, AiStutter
    <2> QED
      BY <2>1, <2>2 DEF Next, vars
  <1> QED
    BY <1>1, <1>2, PTL DEF Spec

\* Spend and holds together never pass the tenant's cap, but for what attempts cost beyond
\* their estimates, and the period's total covers every row that holds budget, whatever
\* processes reserve, settle, fail and die in between (budget.ts:30-33, 283-289).
THEOREM CapIsHeld == Spec => []CapHolds
  <1>1. (service = "ai" => AiInv) => CapHolds
    <2> SUFFICES ASSUME AiInv
                 PROVE  used + reserved <= Limit + over /\ Ai!Held <= reserved
      BY DEF CapHolds, Ai!CapHolds
    <2>1. /\ used \in Nat /\ reserved \in Nat /\ stranded \in Nat /\ over \in Nat /\ Limit \in Nat
          /\ Cardinality(Holders) \in Nat /\ IsFiniteSet(Holders) /\ Cardinality(Unpaid) \in Nat
      BY ServiceAssumption, CountedSets DEF AiInv, AiType
    <2>2. PICK S : S = {t \in Turns : turn[t].hold = "held"}
      OBVIOUS
    <2>3. Ai!Held = stranded + Cardinality(S)
      BY <2>2, SameCount DEF Ai!Held, Ai!Quantify
    <2>4. S \subseteq Holders
      BY <2>2 DEF Holders
    <2>5. Cardinality(S) \in Nat /\ Cardinality(S) <= Cardinality(Holders)
      BY <2>1, <2>4, FS_Subset, FS_CardinalityType
    <2> QED
      BY <2>1, <2>3, <2>5 DEF AiInv, UnderCap, HoldsCounted
  <1> QED
    BY <1>1, AiHolds, PTL

\* What a turn took it gives back: with no turn in flight and no process dead, nothing is
\* reserved, and unless a stream was abandoned no model's probe lease is taken
\* (gateway.ts:305-309, circuitBreaker.ts:232-239).
THEOREM TurnsGiveBack == Spec => []NothingStaysHeld
  <1>1. (service = "ai" => AiInv) => NothingStaysHeld
    <2> SUFFICES ASSUME AiInv, Ai!Quiet, crashes = 0
                 PROVE  reserved = 0 /\ (cancels = 0 => \A m \in Ai!Models : ~lease[m])
      BY DEF NothingStaysHeld, Ai!NothingStaysHeld
    <2>1. \A t \in Turns : turn[t].hold = "none" /\ turn[t].at = "idle"
      BY IdleWaits DEF Ai!Quiet, Waits, TurnOk, Unheld
    <2>2. Holders = {}
      BY <2>1 DEF Holders
    <2>3. reserved = 0
      BY <2>2, FS_EmptySet DEF AiInv, HoldsCounted
    <2>4. cancels = 0 => \A m \in Ai!Models : ~lease[m]
      BY <2>1 DEF AiInv, LeasesReturn, Probing
    <2> QED
      BY <2>3, <2>4
  <1> QED
    BY <1>1, AiHolds, PTL

\* Only messages are classified.
LEMMA MessagesClassified ==
  ASSUME InboxInv, classified \subseteq Inbox!Messages, Inbox!Next
  PROVE  classified' \subseteq Inbox!Messages
  <1>1. ASSUME NEW r \in Runs, Inbox!Classify(r) PROVE classified' \subseteq Inbox!Messages
    <2>1. sync[r].at = "classify" /\ classified' = classified \cup {Inbox!First(sync[r])}
      BY <1>1 DEF Inbox!Classify
    <2>2. Inbox!First(sync[r]) \in Inbox!Messages
      BY <2>1, FirstIsRead DEF Lists
    <2> QED
      BY <2>1, <2>2
  <1>2. CASE Inbox!Arrive \/ Inbox!Learn \/ \E s \in Cadences : Inbox!Activate(s)
    BY <1>2 DEF Inbox!Arrive, Inbox!Learn, Inbox!Activate, Inbox!crm
  <1>3. ASSUME NEW r \in Runs,
               \/ Inbox!Begin(r) \/ Inbox!Read(r) \/ Inbox!Save(r) \/ Inbox!PassOver(r)
               \/ Inbox!NotSaved(r) \/ Inbox!ApplyBounce(r) \/ Inbox!Gate(r)
               \/ Inbox!Pause(r) \/ Inbox!Stop(r) \/ Inbox!Close(r) \/ Inbox!Fail(r)
        PROVE  classified' = classified
    BY <1>3 DEF Inbox!Begin, Inbox!Read, Inbox!Save, Inbox!PassOver, Inbox!NotSaved,
       Inbox!ApplyBounce, Inbox!Gate, Inbox!Pause, Inbox!Stop, Inbox!Close, Inbox!Fail, Inbox!crm
  <1> QED
    BY <1>1, <1>2, <1>3 DEF Inbox!Next

\* The types of the inbox, in every behaviour that runs it.
LEMMA InboxIsTyped == Spec => [](service = "inbox" => Inbox!TypeOK)
  <1> DEFINE Known == classified \subseteq Inbox!Messages
  <1>1. Init => Known
    BY DEF Init, Inbox!Init
  <1>2. (service = "inbox" => InboxInv) /\ (service = "inbox" => Known) /\ [Next]_vars
          => (service = "inbox" => Known)'
    BY MessagesClassified DEF Next, vars, mailbox
  <1>3. InboxInv /\ Known => Inbox!TypeOK
    <2> SUFFICES ASSUME InboxInv, Known PROVE Inbox!TypeOK
      OBVIOUS
    <2>1. \A r \in Runs : sync[r].at \in SyncPlaces
      BY DEF InboxInv, InboxType, Syncs
    <2>2. \A m \in classified : stored[m] = "placed"
      BY DEF InboxInv, ActsOnce, Untouched
    <2> QED
      BY <2>1, <2>2 DEF InboxInv, InboxType, Inbox!TypeOK, SyncPlaces
  <1> QED
    BY <1>1, <1>2, <1>3, InboxHolds, PTL DEF Spec

\* The circuits a process sees and those in Redis; and a turn knows its process, its model,
\* the places still ahead and what it is to publish, and has its row from its call to its
\* settlement.
Circuits == [state : Ai!States, fails : 0 .. Threshold, fresh : BOOLEAN, marker : BOOLEAN]
Shared == [state : Ai!States, fails : 0 .. Threshold, fresh : BOOLEAN]
Routed(w) ==
    /\ w.pub \in Shared /\ w.rest \subseteq DOMAIN Preference
    /\ w.at # "idle" => w.p \in Procs /\ w.model \in Ai!Models
    /\ w.hold = "held" <=> w.at \in {"call", "publish", "exit", "settle"}
GatewayType ==
    /\ local \in [Procs -> [Ai!Models -> Circuits]]
    /\ shared \in [Ai!Models -> Shared]
    /\ \A t \in Turns : Routed(turn[t])

\* A place in the routing tier is that of a model.
LEMMA PlacesHaveModels ==
  /\ DOMAIN Preference \subseteq Nat /\ 1 \in DOMAIN Preference
  /\ \A k \in DOMAIN Preference : Preference[k] \in Ai!Models
  BY GatewayAssumption DEF Ai!Models, Ai!ToSet

\* A nonempty set of places has a first one.
LEMMA FirstPlace ==
  ASSUME NEW S \in SUBSET Nat, S # {}
  PROVE  Ai!Min(S) \in S
  <1> DEFINE R == OpToRel(<, Nat)
  <1>1. IsWellFoundedOn(R, Nat)
    BY NatLessThanWellFounded
  <1>2. \A x, y \in Nat : <<x, y>> \in R \/ y <= x
    BY DEF OpToRel
  <1> HIDE DEF R
  <1>3. PICK x \in S : \A y \in S : <<y, x>> \notin R
    BY <1>1, WFMin
  <1>4. \A y \in S : x <= y
    BY <1>2, <1>3
  <1> QED
    BY <1>4 DEF Ai!Min

\* What the circuit breaker makes of a circuit is one.
LEMMA CircuitsStay ==
  ASSUME NEW r \in Circuits
  PROVE  /\ Ai!Asked(r) \in Circuits /\ Ai!Succeeded(r) \in Circuits
         /\ \A limited \in BOOLEAN : Ai!Failed(r, limited) \in Circuits
         /\ \A s \in Shared : Ai!Synced(r, s) \in Circuits
         /\ Ai!Record(r) \in Shared
         /\ [r EXCEPT !.marker = FALSE] \in Circuits /\ [r EXCEPT !.fresh = FALSE] \in Circuits
  <1>0. /\ r.state \in Ai!States /\ r.fails \in 0 .. Threshold /\ r.fresh \in BOOLEAN
        /\ r.marker \in BOOLEAN /\ Threshold \in Nat
    BY GatewayAssumption DEF Circuits
  <1>1. Ai!Asked(r) \in Circuits
    BY DEF Ai!Asked, Circuits, Ai!States
  <1>2. Ai!Succeeded(r) \in Circuits
    <2>1. 0 \in 0 .. Threshold /\ "CLOSED" \in Ai!States /\ FALSE \in BOOLEAN
      BY <1>0 DEF Ai!States
    <2>2. \A z \in 0 .. Threshold, c \in Ai!States, b \in BOOLEAN :
             [r EXCEPT !.state = c, !.fails = z, !.marker = b] \in Circuits
      BY DEF Circuits
    <2> QED
      BY <2>1, <2>2 DEF Ai!Succeeded
  <1>3. ASSUME NEW limited \in BOOLEAN PROVE Ai!Failed(r, limited) \in Circuits
    BY <1>0 DEF Ai!Failed, Circuits, Ai!States
  <1>4. ASSUME NEW s \in Shared PROVE Ai!Synced(r, s) \in Circuits
    <2>1. s.state \in Ai!States /\ s.fails \in 0 .. Threshold /\ s.fresh \in BOOLEAN
      BY DEF Shared
    <2>2. PICK f \in 0 .. Threshold : f = IF s.fails > r.fails THEN s.fails ELSE r.fails
      BY <1>0, <2>1
    <2>3. PICK b \in BOOLEAN : b = (r.fresh \/ s.fresh)
      BY <1>0, <2>1
    <2>4. Ai!Synced(r, s) = [r EXCEPT !.state = s.state, !.fails = f, !.fresh = b]
      BY <2>2, <2>3 DEF Ai!Synced
    <2> QED
      BY <2>1, <2>4 DEF Circuits
  <1>5. Ai!Record(r) \in Shared
    BY <1>0 DEF Ai!Record, Shared
  <1>6. [r EXCEPT !.marker = FALSE] \in Circuits /\ [r EXCEPT !.fresh = FALSE] \in Circuits
    BY DEF Circuits
  <1> QED
    BY <1>1, <1>2, <1>3, <1>4, <1>5, <1>6

\* A closed circuit, and a slot that runs nothing.
LEMMA ClosedAndIdle ==
  /\ Ai!Closed \in Shared /\ Ai!Unmarked(Ai!Closed) \in Circuits
  /\ Routed(Ai!Idle)
  <1>1. Ai!Closed \in Shared /\ Ai!Unmarked(Ai!Closed) \in Circuits
    BY GatewayAssumption DEF Ai!Closed, Ai!Unmarked, Shared, Circuits, Ai!States
  <1>2. /\ Ai!Idle.at = "idle" /\ Ai!Idle.hold = "none" /\ Ai!Idle.pub = Ai!Closed
        /\ Ai!Idle.rest = {}
    BY DEF Ai!Idle
  <1> QED
    BY <1>1, <1>2 DEF Routed

\* The loop over the models keeps the views, and leaves the turn at one of its models.
LEMMA AttemptTypes ==
  ASSUME GatewayType, AiType, NEW t \in Turns, NEW p \in Procs,
         NEW l \in [Ai!Models -> Circuits], NEW ahead \in SUBSET DOMAIN Preference,
         Ai!Attempt(t, p, l, ahead), shared' = shared
  PROVE  GatewayType'
  <1> DEFINE open == {k \in ahead : Ai!IsAvailable(l[Preference[k]])}
             i == Ai!Min(open)
             seen == {Preference[k] : k \in {j \in ahead : open = {} \/ j <= i}}
             asked == [m \in Ai!Models |-> IF m \in seen THEN Ai!Asked(l[m]) ELSE l[m]]
  <1>1. /\ local' = [local EXCEPT ![p] = asked]
        /\ turn' = [turn EXCEPT ![t] =
             IF open = {} THEN Ai!Idle
             ELSE [Ai!Idle EXCEPT !.at = IF Ai!Cooled(l[Preference[i]]) THEN "lease" ELSE "claim",
                                  !.p = p, !.model = Preference[i],
                                  !.rest = {k \in ahead : i < k}]]
    BY DEF Ai!Attempt
  <1>2. asked \in [Ai!Models -> Circuits]
    BY CircuitsStay
  <1>3. local' \in [Procs -> [Ai!Models -> Circuits]]
    <2> HIDE DEF asked
    <2> QED
      BY <1>1, <1>2 DEF GatewayType
  <1>4. open # {} => i \in DOMAIN Preference
    BY FirstPlace, PlacesHaveModels
  <1>5. PICK e \in {"lease", "claim"} : e = IF Ai!Cooled(l[Preference[i]]) THEN "lease" ELSE "claim"
    OBVIOUS
  <1>6. PICK rest \in SUBSET DOMAIN Preference : rest = {k \in ahead : i < k}
    OBVIOUS
  <1>7. PICK m : m = Preference[i] /\ (open # {} => m \in Ai!Models)
    BY <1>4, PlacesHaveModels
  <1>8. turn' = [turn EXCEPT ![t] = IF open = {} THEN Ai!Idle
                                    ELSE [Ai!Idle EXCEPT !.at = e, !.p = p, !.model = m, !.rest = rest]]
    BY <1>1, <1>5, <1>6, <1>7
  <1> HIDE DEF open, i
  <1>9. PICK x : /\ x = [Ai!Idle EXCEPT !.at = e, !.p = p, !.model = m, !.rest = rest]
                 /\ open # {} => Routed(x)
    <2>1. PICK x : x = [Ai!Idle EXCEPT !.at = e, !.p = p, !.model = m, !.rest = rest]
      OBVIOUS
    <2>2. x.at = e /\ x.p = p /\ x.model = m /\ x.rest = rest /\ x.hold = "none" /\ x.pub = Ai!Closed
      BY <2>1 DEF Ai!Idle
    <2> QED
      BY <1>5, <1>6, <1>7, <2>1, <2>2, ClosedAndIdle DEF Routed
  <1>10. \A s \in Turns : Routed(turn'[s])
    BY <1>8, <1>9, ClosedAndIdle DEF GatewayType, AiType
  <1> QED
    BY <1>3, <1>10 DEF GatewayType

\* One turn's record changes, and the circuits stay ones.
LEMMA TurnTypes ==
  ASSUME GatewayType, AiType, NEW t \in Turns, NEW x, Routed(x), turn' = [turn EXCEPT ![t] = x],
         local' \in [Procs -> [Ai!Models -> Circuits]], shared' \in [Ai!Models -> Shared]
  PROVE  GatewayType'
  BY DEF GatewayType, AiType

\* The view of a turn's process without its probe marker.
LEMMA ReleasedTypes ==
  ASSUME GatewayType, NEW t \in Turns, turn[t].at # "idle"
  PROVE  /\ turn[t].p \in Procs /\ turn[t].model \in Ai!Models
         /\ turn[t].rest \in SUBSET DOMAIN Preference
         /\ Ai!Released(t) \in [Ai!Models -> Circuits]
         /\ [local EXCEPT ![turn[t].p] = Ai!Released(t)] \in [Procs -> [Ai!Models -> Circuits]]
  <1>1. /\ turn[t].p \in Procs /\ turn[t].model \in Ai!Models
        /\ turn[t].rest \in SUBSET DOMAIN Preference
    BY DEF GatewayType, Routed
  <1>2. PICK l \in [Ai!Models -> Circuits] : l = local[turn[t].p]
    BY <1>1 DEF GatewayType
  <1>3. PICK r \in Circuits : r = [l[turn[t].model] EXCEPT !.marker = FALSE]
    BY <1>1, CircuitsStay
  <1>4. Ai!Released(t) = [l EXCEPT ![turn[t].model] = r]
    BY <1>2, <1>3 DEF Ai!Released
  <1>5. Ai!Released(t) \in [Ai!Models -> Circuits]
    BY <1>1, <1>4
  <1> QED
    BY <1>1, <1>5 DEF GatewayType

\* A refused turn gives back what it asked for.
LEMMA RefuseTypes ==
  ASSUME GatewayType, AiType, NEW t \in Turns, turn[t].at # "idle", Ai!Refuse(t), shared' = shared
  PROVE  GatewayType'
  <1>1. turn' = [turn EXCEPT ![t] = Ai!Idle] /\ local' \in [Procs -> [Ai!Models -> Circuits]]
    BY ReleasedTypes DEF Ai!Refuse
  <1> QED
    BY <1>1, ClosedAndIdle, TurnTypes DEF GatewayType

\* The next model is tried from a view of the turn's process.
LEMMA TryTypes ==
  ASSUME GatewayType, AiType, NEW t \in Turns, turn[t].at # "idle",
         NEW l \in [Ai!Models -> Circuits], Ai!TryNext(t, l), shared' = shared
  PROVE  GatewayType'
  BY ReleasedTypes, AttemptTypes DEF Ai!TryNext

\* A turn's record with another place, and another hold.
LEMMA RoutedMoves ==
  ASSUME NEW w, TurnOk(w), Routed(w), w.at # "idle",
         NEW p \in TurnPlaces, NEW h \in {"none", "claimed", "held", "settled"},
         h = "held" <=> p \in {"call", "publish", "exit", "settle"},
         NEW b, NEW g, NEW u \in Shared
  PROVE  /\ h = w.hold => Routed([w EXCEPT !.at = p])
         /\ Routed([w EXCEPT !.at = p, !.hold = h])
         /\ h = w.hold => Routed([w EXCEPT !.at = p, !.go = g, !.bill = b])
         /\ h = w.hold => Routed([w EXCEPT !.at = p, !.pub = u, !.bill = b, !.go = g])
  <1>0. /\ w.pub \in Shared /\ w.rest \subseteq DOMAIN Preference
        /\ w.p \in Procs /\ w.model \in Ai!Models
    BY DEF Routed
  <1>1. w = [at |-> w.at, p |-> w.p, model |-> w.model, rest |-> w.rest,
             hold |-> w.hold, go |-> w.go, bill |-> w.bill, pub |-> w.pub]
    BY DEF TurnOk
  <1>2. ASSUME h = w.hold PROVE Routed([w EXCEPT !.at = p])
    <2>1. PICK x : x = [w EXCEPT !.at = p]
      OBVIOUS
    <2>2. x = [at |-> p, p |-> w.p, model |-> w.model, rest |-> w.rest,
               hold |-> w.hold, go |-> w.go, bill |-> w.bill, pub |-> w.pub]
      BY <1>1, <2>1
    <2> QED
      BY <1>0, <1>2, <2>1, <2>2 DEF Routed
  <1>3. Routed([w EXCEPT !.at = p, !.hold = h])
    <2>1. PICK x : x = [w EXCEPT !.at = p, !.hold = h]
      OBVIOUS
    <2>2. x = [at |-> p, p |-> w.p, model |-> w.model, rest |-> w.rest,
               hold |-> h, go |-> w.go, bill |-> w.bill, pub |-> w.pub]
      BY <1>1, <2>1
    <2> QED
      BY <1>0, <2>1, <2>2 DEF Routed
  <1>4. ASSUME h = w.hold PROVE Routed([w EXCEPT !.at = p, !.go = g, !.bill = b])
    <2>1. PICK x : x = [w EXCEPT !.at = p, !.go = g, !.bill = b]
      OBVIOUS
    <2>2. x = [at |-> p, p |-> w.p, model |-> w.model, rest |-> w.rest,
               hold |-> w.hold, go |-> g, bill |-> b, pub |-> w.pub]
      BY <1>1, <2>1
    <2> QED
      BY <1>0, <1>4, <2>1, <2>2 DEF Routed
  <1>5. ASSUME h = w.hold PROVE Routed([w EXCEPT !.at = p, !.pub = u, !.bill = b, !.go = g])
    <2>1. PICK x : x = [w EXCEPT !.at = p, !.pub = u, !.bill = b, !.go = g]
      OBVIOUS
    <2>2. x = [at |-> p, p |-> w.p, model |-> w.model, rest |-> w.rest,
               hold |-> w.hold, go |-> g, bill |-> b, pub |-> u]
      BY <1>1, <2>1
    <2> QED
      BY <1>0, <1>5, <2>1, <2>2 DEF Routed
  <1> QED
    BY <1>2, <1>3, <1>4, <1>5

\* Every step of a turn keeps the types of the circuits and of what it is routed to.
LEMMA TurnKeepsTypes ==
  ASSUME GatewayType, AiType, NEW t \in Turns,
         \/ Ai!Lease(t) \/ Ai!Skip(t) \/ Ai!Claim(t) \/ Ai!Insert(t) \/ Ai!Cancel(t)
         \/ Ai!Publish(t) \/ Ai!Exit(t) \/ Ai!Settle(t) \/ Ai!Total(t)
  PROVE  GatewayType'
  <1>0. /\ TurnOk(turn[t]) /\ Routed(turn[t])
        /\ local \in [Procs -> [Ai!Models -> Circuits]] /\ shared \in [Ai!Models -> Shared]
        /\ turn[t].at # "idle"
    BY DEF AiType, GatewayType, Ai!Lease, Ai!Skip, Ai!Claim, Ai!Insert, Ai!Cancel, Ai!Publish, Ai!Exit,
       Ai!Settle, Ai!Total
  <1>1. Routed(turn[t]) /\ Ai!Closed \in Shared
    BY <1>0, ClosedAndIdle
  <1>2. CASE Ai!Lease(t)
    <2>1. CASE lease[turn[t].model]
      BY <1>0, <1>2, <2>1, ReleasedTypes, TryTypes DEF Ai!Lease
    <2>2. CASE ~lease[turn[t].model]
      <3>1. /\ turn[t].at = "lease" /\ turn' = [turn EXCEPT ![t] = [turn[t] EXCEPT !.at = "claim"]]
            /\ local' = local /\ shared' = shared
        BY <1>2, <2>2 DEF Ai!Lease
      <3>2. Routed([turn[t] EXCEPT !.at = "claim"])
        BY <1>0, <1>1, <3>1, RoutedMoves DEF Routed, TurnPlaces, TurnOk
      <3> QED
        BY <1>0, <3>1, <3>2, TurnTypes
    <2> QED
      BY <2>1, <2>2
  <1>3. CASE Ai!Skip(t)
    BY <1>0, <1>3, ReleasedTypes, TryTypes DEF Ai!Skip
  <1>4. CASE Ai!Claim(t)
    <2>1. CASE used + reserved + 1 <= Limit
      <3>1. /\ turn[t].at = "claim" /\ local' = local /\ shared' = shared
            /\ turn' = [turn EXCEPT ![t] = [turn[t] EXCEPT !.at = "insert", !.hold = "claimed"]]
        BY <1>4, <2>1 DEF Ai!Claim, Ai!circuits
      <3>2. Routed([turn[t] EXCEPT !.at = "insert", !.hold = "claimed"])
        BY <1>0, <1>1, RoutedMoves DEF TurnPlaces
      <3> QED
        BY <1>0, <3>1, <3>2, TurnTypes
    <2>2. CASE ~(used + reserved + 1 <= Limit)
      BY <1>0, <1>4, <2>2, RefuseTypes DEF Ai!Claim
    <2> QED
      BY <2>1, <2>2
  <1>5. CASE Ai!Insert(t)
    <2>1. CASE /\ turn' = [turn EXCEPT ![t] = [turn[t] EXCEPT !.at = "call", !.hold = "held"]]
               /\ local' = local /\ shared' = shared
      <3>1. Routed([turn[t] EXCEPT !.at = "call", !.hold = "held"])
        BY <1>0, <1>1, RoutedMoves DEF TurnPlaces
      <3> QED
        BY <1>0, <2>1, <3>1, TurnTypes
    <2>2. CASE Ai!Refuse(t) /\ shared' = shared
      BY <1>0, <2>2, RefuseTypes
    <2> QED
      BY <1>5, <2>1, <2>2 DEF Ai!Insert, Ai!circuits
  <1>6. CASE Ai!Cancel(t)
    <2>1. /\ turn[t].at = "call" /\ local' = local /\ shared' = shared
          /\ turn' = [turn EXCEPT ![t] = [turn[t] EXCEPT !.at = "settle", !.go = FALSE, !.bill = 0]]
      BY <1>6 DEF Ai!Cancel, Ai!circuits
    <2>2. Routed([turn[t] EXCEPT !.at = "settle", !.go = FALSE, !.bill = 0])
      BY <1>0, <1>1, <2>1, RoutedMoves DEF Routed, TurnPlaces, TurnOk
    <2> QED
      BY <1>0, <2>1, <2>2, TurnTypes
  <1>7. CASE Ai!Publish(t)
    <2>1. /\ turn[t].at = "publish" /\ local' = local
          /\ shared' = [shared EXCEPT ![turn[t].model] = turn[t].pub]
          /\ turn' = [turn EXCEPT ![t] = [turn[t] EXCEPT !.at = "exit"]]
      BY <1>7 DEF Ai!Publish
    <2>2. Routed([turn[t] EXCEPT !.at = "exit"])
      BY <1>0, <1>1, <2>1, RoutedMoves DEF Routed, TurnPlaces, TurnOk
    <2>3. shared' \in [Ai!Models -> Shared]
      BY <1>0, <2>1 DEF Routed
    <2> QED
      BY <1>0, <2>1, <2>2, <2>3, TurnTypes
  <1>8. CASE Ai!Exit(t)
    <2>1. /\ turn[t].at = "exit" /\ shared' = shared
          /\ local' = [local EXCEPT ![turn[t].p] = Ai!Released(t)]
          /\ turn' = [turn EXCEPT ![t] = [turn[t] EXCEPT !.at = "settle"]]
      BY <1>8 DEF Ai!Exit
    <2>2. Routed([turn[t] EXCEPT !.at = "settle"])
      BY <1>0, <1>1, <2>1, RoutedMoves DEF Routed, TurnPlaces, TurnOk
    <2>3. local' \in [Procs -> [Ai!Models -> Circuits]]
      BY <1>0, <2>1, ReleasedTypes
    <2> QED
      BY <1>0, <2>1, <2>2, <2>3, TurnTypes
  <1>9. CASE Ai!Settle(t)
    <2>1. /\ turn[t].at = "settle" /\ local' = local /\ shared' = shared
          /\ turn' = [turn EXCEPT ![t] = [turn[t] EXCEPT !.at = "total", !.hold = "settled"]]
      BY <1>9 DEF Ai!Settle, Ai!circuits
    <2>2. Routed([turn[t] EXCEPT !.at = "total", !.hold = "settled"])
      BY <1>0, <1>1, RoutedMoves DEF TurnPlaces
    <2> QED
      BY <1>0, <2>1, <2>2, TurnTypes
  <1>10. CASE Ai!Total(t)
    <2>1. CASE turn[t].go
      <3>1. local[turn[t].p] \in [Ai!Models -> Circuits]
        BY <1>0, ReleasedTypes
      <3> QED
        BY <1>0, <1>10, <2>1, <3>1, TryTypes DEF Ai!Total
    <2>2. CASE ~turn[t].go
      <3>1. turn' = [turn EXCEPT ![t] = Ai!Idle] /\ local' = local /\ shared' = shared
        BY <1>10, <2>2 DEF Ai!Total
      <3> QED
        BY <1>0, <3>1, ClosedAndIdle, TurnTypes
    <2> QED
      BY <2>1, <2>2
  <1> QED
    BY <1>2, <1>3, <1>4, <1>5, <1>6, <1>7, <1>8, <1>9, <1>10

\* So do a turn that starts, an answer, the reset and a crash.
LEMMA GatewayKeepsTypes ==
  ASSUME GatewayType, AiType, Ai!Next
  PROVE  GatewayType'
  <1>0. local \in [Procs -> [Ai!Models -> Circuits]] /\ shared \in [Ai!Models -> Shared]
    BY DEF GatewayType
  <1>1. ASSUME NEW t \in Turns, NEW p \in Procs, Ai!Begin(t, p) PROVE GatewayType'
    <2> DEFINE synced == [m \in Ai!Models |-> Ai!Synced(local[p][m], shared[m])]
               eligible == {k \in DOMAIN Preference : Ai!IsAvailable(synced[Preference[k]])}
               view == [m \in Ai!Models |-> Ai!Asked(synced[m])]
    <2>1. synced \in [Ai!Models -> Circuits]
      BY <1>0, CircuitsStay
    <2>2. Ai!Attempt(t, p, view, eligible) /\ shared' = shared
      BY <1>1 DEF Ai!Begin
    <2>3. eligible \in SUBSET DOMAIN Preference
      OBVIOUS
    <2> HIDE DEF synced, eligible
    <2>4. view \in [Ai!Models -> Circuits]
      BY <2>1, CircuitsStay
    <2> HIDE DEF view
    <2> QED
      BY <2>2, <2>3, <2>4, AttemptTypes
  <1>2. ASSUME NEW t \in Turns, NEW outcome \in {"ok", "failed", "limited"},
               NEW cost \in 0 .. Rounds, NEW text \in BOOLEAN, Ai!Answer(t, outcome, cost, text)
        PROVE  GatewayType'
    <2>0. turn[t].at = "call" /\ TurnOk(turn[t]) /\ Routed(turn[t])
      BY <1>2 DEF AiType, GatewayType, Ai!Answer
    <2>1. turn[t].p \in Procs /\ turn[t].model \in Ai!Models
      BY <2>0 DEF Routed
    <2>2. PICK r : r = IF outcome = "ok" THEN Ai!Succeeded(local[turn[t].p][turn[t].model])
                       ELSE Ai!Failed(local[turn[t].p][turn[t].model], outcome = "limited")
      OBVIOUS
    <2>3. r \in Circuits
      <3>1. local[turn[t].p][turn[t].model] \in Circuits
        BY <1>0, <2>1
      <3>2. (outcome = "limited") \in BOOLEAN
        OBVIOUS
      <3> QED
        BY <2>2, <3>1, <3>2, CircuitsStay
    <2>4. PICK g : g = (outcome # "ok" /\ ~text)
      OBVIOUS
    <2>5. /\ local' = [local EXCEPT ![turn[t].p] = [local[turn[t].p] EXCEPT ![turn[t].model] = r]]
          /\ turn' = [turn EXCEPT ![t] = [turn[t] EXCEPT !.at = "publish", !.pub = Ai!Record(r),
                                                         !.bill = cost, !.go = g]]
          /\ shared' = shared
      BY <1>2, <2>2, <2>4 DEF Ai!Answer
    <2>6. local' \in [Procs -> [Ai!Models -> Circuits]]
      <3>1. PICK l \in [Ai!Models -> Circuits] : l = [local[turn[t].p] EXCEPT ![turn[t].model] = r]
        BY <1>0, <2>1, <2>3
      <3> QED
        BY <1>0, <2>5, <3>1
    <2>7. Ai!Record(r) \in Shared
      BY <2>3, CircuitsStay
    <2>8. Routed([turn[t] EXCEPT !.at = "publish", !.pub = Ai!Record(r), !.bill = cost, !.go = g])
      BY <2>0, <2>7, RoutedMoves DEF Routed, TurnPlaces, TurnOk
    <2> QED
      BY <1>0, <2>5, <2>6, <2>8, TurnTypes
  <1>3. CASE Ai!Cool
    <2>1. /\ local' = [p \in Procs |-> [m \in Ai!Models |-> [local[p][m] EXCEPT !.fresh = FALSE]]]
          /\ shared' = [m \in Ai!Models |-> [shared[m] EXCEPT !.fresh = FALSE]]
          /\ turn' = turn
      BY <1>3 DEF Ai!Cool
    <2>2. local' \in [Procs -> [Ai!Models -> Circuits]]
      BY <1>0, <2>1, CircuitsStay
    <2>3. \A r \in Shared : [r EXCEPT !.fresh = FALSE] \in Shared
      BY DEF Shared
    <2>4. shared' \in [Ai!Models -> Shared]
      BY <1>0, <2>1, <2>3
    <2> QED
      BY <2>1, <2>2, <2>4 DEF GatewayType
  <1>4. ASSUME NEW p \in Procs, Ai!Crash(p) PROVE GatewayType'
    <2>1. PICK S : /\ turn' = [t \in Turns |-> IF t \in S THEN Ai!Idle ELSE turn[t]]
                   /\ local' = [local EXCEPT ![p] = [m \in Ai!Models |-> Ai!Unmarked(Ai!Closed)]]
                   /\ shared' = shared
      BY <1>4 DEF Ai!Crash
    <2>2. local' \in [Procs -> [Ai!Models -> Circuits]]
      <3>1. PICK l \in [Ai!Models -> Circuits] : l = [m \in Ai!Models |-> Ai!Unmarked(Ai!Closed)]
        BY ClosedAndIdle
      <3> QED
        BY <1>0, <2>1, <3>1
    <2>3. \A t \in Turns : turn'[t] = Ai!Idle \/ turn'[t] = turn[t]
      BY <2>1
    <2> QED
      BY <1>0, <2>1, <2>2, <2>3, ClosedAndIdle DEF GatewayType
  <1> QED
    BY <1>1, <1>2, <1>3, <1>4, TurnKeepsTypes DEF Ai!Next

\* The types of the gateway, in every behaviour that runs it.
LEMMA GatewayIsTyped == Spec => [](service = "ai" => Ai!TypeOK)
  <1>1. Init => GatewayType
    BY ClosedAndIdle DEF Init, Ai!Init, GatewayType
  <1>2. (service = "ai" => AiInv) /\ (service = "ai" => GatewayType) /\ [Next]_vars
          => (service = "ai" => GatewayType)'
    <2>1. GatewayType /\ UNCHANGED ai => GatewayType'
      BY DEF ai, GatewayType, Routed
    <2> QED
      BY <2>1, GatewayKeepsTypes DEF Next, vars, AiInv
  <1>3. AiInv /\ GatewayType => Ai!TypeOK
    <2> SUFFICES ASSUME AiInv, GatewayType PROVE Ai!TypeOK
      OBVIOUS
    <2>1. \A p \in Procs, m \in Ai!Models : local[p][m] \in Circuits
      BY DEF GatewayType
    <2>2. ASSUME NEW t \in Turns
          PROVE  /\ turn[t].at \in TurnPlaces /\ turn[t].hold \in {"none", "claimed", "held", "settled"}
                 /\ (turn[t].at \in {"call", "publish", "exit", "settle"}) = (turn[t].hold = "held")
      BY DEF AiInv, AiType, TurnOk, GatewayType, Routed
    <2>3. used >= 0 /\ reserved >= 0 /\ stranded >= 0
      BY DEF AiInv, AiType
    <2> QED
      BY <2>1, <2>2, <2>3 DEF AiInv, AiType, GatewayType, Ai!TypeOK, Circuits, Shared, TurnPlaces
  <1> QED
    BY <1>1, <1>2, <1>3, AiHolds, PTL DEF Spec
=============================================================================
