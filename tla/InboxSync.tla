----------------------------- MODULE InboxSync ------------------------------
(***************************************************************************)
(* The inbox sync of one mailbox (workers/sync.ts): runs that read the     *)
(* mail since a cursor, store it, act on what they stored and move the     *)
(* cursor, with the reply and bounce handlers behind them                  *)
(* (lib/replies/handling.ts, lib/email/suppress.ts, lib/sequences/         *)
(* leadStop.ts). All mail is from or about one lead, who may run several   *)
(* sequences. The sync job has no dedupe key, so runs overlap; a re-read   *)
(* of the past (scripts/inbox-resync.ts) overlaps them too. Messages are   *)
(* numbered in the order they arrive, and the number is the received time. *)
(***************************************************************************)
EXTENDS Naturals, FiniteSetsExt

CONSTANTS
    MaxMail,        \* bound: messages the mailbox receives
    Cadences,     \* sequences the lead may be enrolled in
    Runs,           \* workers on the sync queue
    ReadLimit,      \* messages one run reads at most (SYNC_READ_LIMIT)
    MaxRuns,        \* bound: runs started
    MaxMoves,       \* bound: enrolments and resumptions
    MaxFaults       \* bound: refused writes, thrown calls and dead workers

VARIABLES
    arrived,        \* messages received so far: message m is the m-th
    kind,           \* kind[m]: what sync and the classifier take the message for
    known,          \* the mailbox's sends or the lead's holder name the lead
    cursor,         \* EmailAccount.lastSyncAt
    stored,         \* stored[m]: InboundMessage: none, unplaced (no lead), placed
    classified,     \* messages with classifiedAt
    cadence,        \* cadence[s]: the enrollment's status
    started,        \* started[s]: its startedAt
    lead,           \* emailInvalid, and suppression by an opt-out
    sync,           \* sync[r]: a sync run in flight
    counted,        \* history: counted[m]: times m raised emailReplyCount
    bounced,        \* history: bounced[m]: times a bounce was applied
    woken,          \* history: woken[s]: arrived when s last became active
    unplaceable,    \* history: replies read while no lead was known
    reread,         \* history: messages a re-read acted on
    syncs, moves, faults

mail == <<arrived, kind, known>>
crm == <<stored, classified, cadence, started, lead>>
history == <<counted, bounced, woken, unplaceable, reread>>
bounds == <<syncs, moves, faults>>
vars == <<mail, cursor, crm, sync, history, bounds>>

Messages == 1 .. MaxMail
Kinds == {"reply", "optout", "auto", "bounce"}

\* since and last: the run reads the messages after the one and up to the other; todo: those
\* its phase has still to go through, oldest first; apply: those it may act on.
Idle == [at |-> "idle", resync |-> FALSE, since |-> 0, now |-> 0, last |-> 0,
         more |-> FALSE, knew |-> FALSE, cached |-> FALSE, invalid |-> FALSE,
         todo |-> {}, apply |-> {}, unsaved |-> FALSE]
Batch(w) == w.since + 1 .. w.last
First(w) == Min(w.todo)

Running == {s \in Cadences : cadence[s] = "active"}
Occupying == {s \in Cadences : cadence[s] \in {"active", "paused"}}

Init ==
    /\ arrived = 0
    /\ kind \in [Messages -> Kinds]
    /\ known \in BOOLEAN
    /\ cursor = 0
    /\ stored = [m \in Messages |-> "none"]
    /\ classified = {}
    /\ cadence = [s \in Cadences |-> "none"]
    /\ started = [s \in Cadences |-> 0]
    /\ lead = [invalid |-> FALSE, optedOut |-> FALSE]
    /\ sync = [r \in Runs |-> Idle]
    /\ counted = [m \in Messages |-> 0]
    /\ bounced = [m \in Messages |-> 0]
    /\ woken = [s \in Cadences |-> 0]
    /\ unplaceable = {}
    /\ reread = {}
    /\ syncs = 0 /\ moves = 0 /\ faults = 0

-----------------------------------------------------------------------------
\* The world around a run.

Arrive ==
    /\ arrived < MaxMail
    /\ arrived' = arrived + 1
    /\ UNCHANGED <<kind, known, cursor, crm, sync, history, bounds>>

\* A send to the address, or the lead's assignment, now names the lead.
Learn ==
    /\ ~known
    /\ known' = TRUE
    /\ UNCHANGED <<arrived, kind, cursor, crm, sync, history, bounds>>

\* A rep enrols the lead, or resumes a paused enrollment (its startedAt stays).
Activate(s) ==
    /\ cadence[s] \in {"none", "paused"}
    /\ moves < MaxMoves
    /\ moves' = moves + 1
    /\ ~lead.optedOut /\ ~lead.invalid
    /\ cadence' = [cadence EXCEPT ![s] = "active"]
    /\ started' = IF cadence[s] = "none" THEN [started EXCEPT ![s] = arrived] ELSE started
    /\ woken' = [woken EXCEPT ![s] = arrived]
    /\ UNCHANGED <<mail, cursor, stored, classified, lead, sync, counted, bounced,
                   unplaceable, reread, syncs, faults>>

-----------------------------------------------------------------------------
\* handleEmailSync.

\* The account is read: the run starts from the cursor, a re-read from an earlier time.
Begin(r) ==
    /\ sync[r] = Idle
    /\ syncs < MaxRuns
    /\ syncs' = syncs + 1
    /\ \E resync \in BOOLEAN, since \in 0 .. cursor :
         /\ ~resync => since = cursor
         /\ sync' = [sync EXCEPT ![r] = [Idle EXCEPT !.at = "read", !.resync = resync,
                                       !.since = since, !.now = arrived]]
    /\ UNCHANGED <<mail, cursor, crm, history, moves, faults>>

\* The run in record w leaves a phase whose list is done: the bounces it may act on come
\* after storing, unless the lead as read was invalid already; then the replies, of a lead
\* that, as read, was in a sequence; then the end.
Onward(w) ==
    LET bounces == {m \in Batch(w) :
                      kind[m] = "bounce" /\ m \in w.apply /\ w.knew /\ ~w.invalid}
        replies == {m \in Batch(w) : kind[m] # "bounce" /\ m \in w.apply /\ w.cached}
    IN CASE w.todo # {} -> w
         [] w.todo = {} /\ w.at = "store" /\ bounces # {} ->
              [w EXCEPT !.at = "bounce", !.todo = bounces]
         [] w.todo = {} /\ w.at \in {"store", "bounce"}
              /\ (w.at = "store" => bounces = {}) /\ replies # {} ->
              [w EXCEPT !.at = "reply", !.todo = replies]
         [] OTHER -> [w EXCEPT !.at = "close"]

\* Run r is done with its first message, and w is its record else.
Done(r, w) == sync' = [sync EXCEPT ![r] = Onward([w EXCEPT !.todo = @ \ {First(w)}])]

\* The provider answers with the oldest mail since then, and matchLeads reads the lead.
Read(r) ==
    LET last == IF arrived > sync[r].since + ReadLimit
                  THEN sync[r].since + ReadLimit ELSE arrived
    IN /\ sync[r].at = "read"
       /\ sync' = [sync EXCEPT ![r] =
            Onward([@ EXCEPT !.at = "store", !.last = last,
                             !.todo = sync[r].since + 1 .. last, !.more = last < arrived,
                             !.knew = known, !.cached = Occupying # {},
                             !.invalid = lead.invalid])]
       /\ UNCHANGED <<mail, cursor, crm, history, bounds>>

\* Mutant: what is stored already is acted on again.
IsNew(w, m) == TRUE

\* Whether a message is this run's to act on: it was not stored, or only now finds its lead.
Fresh(w, m) == stored[m] = "none" \/ (stored[m] = "unplaced" /\ w.knew)

\* Mail of nobody the CRM knows is passed over; a bounce never is.
Kept(w, m) == w.knew \/ kind[m] = "bounce"

\* One message is stored, or placed with the lead it had lacked.
Save(r) ==
    LET w == sync[r]
        m == First(w)
    IN /\ w.at = "store" /\ Kept(w, m)
       /\ stored' = IF Fresh(w, m)
                      THEN [stored EXCEPT ![m] = IF w.knew THEN "placed" ELSE "unplaced"]
                      ELSE stored
       /\ Done(r, IF Fresh(w, m) THEN [w EXCEPT !.apply = @ \cup {m}] ELSE w)
       /\ reread' = IF Fresh(w, m) /\ w.resync THEN reread \cup {m} ELSE reread
       /\ UNCHANGED <<mail, cursor, classified, cadence, started, lead, counted, bounced,
                      woken, unplaceable, bounds>>

PassOver(r) ==
    LET m == First(sync[r]) IN
    /\ sync[r].at = "store" /\ ~Kept(sync[r], m)
    /\ unplaceable' = unplaceable \cup {m}
    /\ Done(r, sync[r])
    /\ UNCHANGED <<mail, cursor, crm, counted, bounced, woken, reread, bounds>>

\* The write fails in a way that may pass next time: the run will not move the cursor.
NotSaved(r) ==
    /\ sync[r].at = "store" /\ Kept(sync[r], First(sync[r]))
    /\ faults < MaxFaults
    /\ faults' = faults + 1
    /\ Done(r, [sync[r] EXCEPT !.unsaved = TRUE])
    /\ UNCHANGED <<mail, cursor, crm, history, syncs, moves>>

\* handleApplyBounce: suppressRecipient, then every running cadence is paused.
ApplyBounce(r) ==
    LET m == First(sync[r]) IN
    /\ sync[r].at = "bounce"
    /\ lead' = [lead EXCEPT !.invalid = TRUE]
    /\ cadence' = [s \in Cadences |-> IF s \in Running THEN "paused" ELSE cadence[s]]
    /\ bounced' = [bounced EXCEPT ![m] = @ + 1]
    /\ Done(r, sync[r])
    /\ UNCHANGED <<mail, cursor, stored, classified, started, counted, woken, unplaceable,
                   reread, bounds>>

\* What a re-read passes over: an automatic answer, and a reply received before the
\* latest running enrollment started.
Outdated(m) ==
    \/ kind[m] = "auto"
    \/ Running = {}
    \/ Max({started[s] : s \in Running}) >= m

\* handleApplyReply up to its gate: a message classified before, or a lead with no
\* active enrollment, needs nothing.
Gate(r) ==
    LET m == First(sync[r]) IN
    /\ sync[r].at = "reply"
    /\ IF (sync[r].resync /\ Outdated(m)) \/ m \in classified \/ Running = {}
         THEN Done(r, sync[r])
         ELSE sync' = [sync EXCEPT ![r].at = "classify"]
    /\ UNCHANGED <<mail, cursor, crm, history, bounds>>

\* The classification is made and written; a sales reply is then counted.
Classify(r) ==
    LET m == First(sync[r]) IN
    /\ sync[r].at = "classify"
    /\ classified' = classified \cup {m}
    /\ counted' = IF kind[m] = "reply" THEN [counted EXCEPT ![m] = @ + 1] ELSE counted
    /\ sync' = [sync EXCEPT ![r].at = "pause"]
    /\ UNCHANGED <<mail, cursor, stored, cadence, started, lead, bounced, woken, unplaceable,
                   reread, bounds>>

\* Mutant: one cadence, the one the reply was matched to, is paused.
PauseMatched(r) ==
    LET m == First(sync[r]) IN
    /\ sync[r].at = "pause"
    /\ \E e \in Running : cadence' = [cadence EXCEPT ![e] = "paused"]
    /\ IF kind[m] = "optout" THEN sync' = [sync EXCEPT ![r].at = "stop"]
                             ELSE Done(r, [sync[r] EXCEPT !.at = "reply"])
    /\ UNCHANGED <<mail, cursor, stored, classified, started, lead, history, bounds>>

\* pauseOccurrence: every running cadence of the lead. For an opt-out, applyStop goes on.
Pause(r) ==
    LET m == First(sync[r]) IN
    /\ sync[r].at = "pause"
    /\ cadence' = [s \in Cadences |-> IF s \in Running THEN "paused" ELSE cadence[s]]
    /\ IF kind[m] = "optout" THEN sync' = [sync EXCEPT ![r].at = "stop"]
                             ELSE Done(r, [sync[r] EXCEPT !.at = "reply"])
    /\ UNCHANGED <<mail, cursor, stored, classified, started, lead, history, bounds>>

\* applyStop: every cadence ends and the address is suppressed.
Stop(r) ==
    /\ sync[r].at = "stop"
    /\ cadence' = [s \in Cadences |-> IF s \in Occupying THEN "ended" ELSE cadence[s]]
    /\ lead' = [lead EXCEPT !.optedOut = TRUE]
    /\ Done(r, [sync[r] EXCEPT !.at = "reply"])
    /\ UNCHANGED <<mail, cursor, stored, classified, started, history, bounds>>

\* Mutant: a run that stopped at its limit moves the cursor to now, as before 2026-10-09.
NowAlways(w) == IF w.unsaved THEN cursor ELSE w.now

\* Where a run leaves the cursor: unsaved mail fails the job; a read that stopped at its
\* limit goes to just before the newest message read; any other goes to now.
CursorAfter(w) ==
    IF w.unsaved THEN cursor
    ELSE IF w.more THEN w.last - 1 ELSE w.now

\* The end. A re-read of the past moves no cursor.
Close(r) ==
    /\ sync[r].at = "close"
    /\ cursor' = IF sync[r].resync THEN cursor ELSE CursorAfter(sync[r])
    /\ sync' = [sync EXCEPT ![r] = Idle]
    /\ UNCHANGED <<mail, crm, history, bounds>>

\* A call throws, or the worker dies: the job is retried, as a new run.
Fail(r) ==
    /\ sync[r] # Idle
    /\ faults < MaxFaults
    /\ faults' = faults + 1
    /\ sync' = [sync EXCEPT ![r] = Idle]
    /\ UNCHANGED <<mail, cursor, crm, history, syncs, moves>>

Next ==
    \/ Arrive \/ Learn
    \/ \E s \in Cadences : Activate(s)
    \/ \E r \in Runs :
         \/ Begin(r) \/ Read(r) \/ Save(r) \/ PassOver(r) \/ NotSaved(r) \/ ApplyBounce(r)
         \/ Gate(r) \/ Classify(r) \/ Pause(r) \/ Stop(r) \/ Close(r) \/ Fail(r)

Spec == Init /\ [][Next]_vars

-----------------------------------------------------------------------------
\* Properties.

Quiet == \A r \in Runs : sync[r] = Idle

\* The cursor lies in the mailbox, and the CRM's record of mail, enrollments and runs is in
\* states the code knows.
TypeOK ==
    /\ cursor \in 0 .. arrived
    /\ stored \in [Messages -> {"none", "unplaced", "placed"}]
    /\ \A m \in classified : stored[m] = "placed"
    /\ cadence \in [Cadences -> {"none", "active", "paused", "ended"}]
    /\ \A r \in Runs : sync[r].at \in {"idle", "read", "store", "bounce", "reply", "classify",
                                      "pause", "stop", "close"}

\* No mail is jumped over. Every message the cursor has passed is stored, unless it came
\* from nobody the CRM knew when it was read: with runs that overlap, stop at the read
\* limit, fail to save, die, or re-read the past (workers/sync.ts:374-391).
CursorCovers ==
    \A m \in 1 .. cursor : stored[m] # "none" \/ m \in unplaceable

\* A message has its effects once, however many overlapping runs and re-reads read it:
\* one reply raises the reply count once and one bounce is applied once
\* (workers/sync.ts:257-259).
AppliedOnce == \A m \in Messages : counted[m] <= 1 /\ bounced[m] <= 1

\* A reply stops the lead. With no fault and no run in flight, no cadence is running that
\* was already running when a stored reply arrived, in whichever sequence it was answered
\* (leadStop.ts:6-20). A re-read, which judges by the latest enrollment, is left out.
ReplyStopsCadences ==
    (Quiet /\ faults = 0) =>
      \A m \in Messages \ reread :
        (stored[m] = "placed" /\ kind[m] \in {"reply", "optout"}) =>
          \A s \in Running : m <= woken[s]

\* What sync.ts:400-402 says: every reply, an unsubscribe included, is classified once and
\* handled. With no fault, no re-read and no run in flight, an opt-out that arrived after
\* the lead was enrolled has suppressed the address.
OptOutIsHeard ==
    (Quiet /\ faults = 0) =>
      \A m \in Messages \ reread :
        (/\ stored[m] = "placed" /\ kind[m] = "optout"
         /\ ~lead.invalid
         /\ \E s \in Cadences : cadence[s] # "none" /\ started[s] < m)
          => lead.optedOut
=============================================================================
