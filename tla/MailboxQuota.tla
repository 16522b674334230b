----------------------------- MODULE MailboxQuota -----------------------------
(***************************************************************************)
(* The sending limits of one mailbox.  EmailAccount.dailySendCount is a    *)
(* reservation taken before the provider is called and given back when the *)
(* provider refused (workers/email.ts atomicReserveQuota, releaseQuota);   *)
(* the hourly ceiling counts rows instead (sentInLastHour); and a nightly  *)
(* sweep lowers the daily counter to what the rows account for             *)
(* (workers/maintenance.ts repairQuotaDrift).                              *)
(*                                                                         *)
(* A row has one sender at a time (OutboundSend), so each message stands   *)
(* for the execution that handles it.  Days are numbered; the whole run    *)
(* fits in one hour, which may hold a midnight, so that nothing ages out   *)
(* of the hourly count.  A claim left by a crash stays "sending": parked   *)
(* or not, it counts the same.                                             *)
(***************************************************************************)
EXTENDS Integers, FiniteSets

CONSTANTS
  Messages,      \* the messages that leave through this mailbox
  DailyCap,      \* EmailAccount.dailyCap
  HourlyCap,     \* EmailAccount.hourlyCap, of an account that has one
  MaxMidnights,  \* bound: midnights passed
  MaxSweeps,     \* bound: runs of repairQuotaDrift
  MaxFaults      \* bound: crashes and bounces, together

ASSUME QuotaAssumption ==
  /\ IsFiniteSet(Messages)
  /\ DailyCap \in Nat \ {0} /\ HourlyCap \in Nat \ {0}
  /\ MaxMidnights \in Nat /\ MaxSweeps \in Nat /\ MaxFaults \in Nat

VARIABLES
  hourlyCap,               \* EmailAccount.hourlyCap; 0 is no hourly ceiling
  count, countDay,         \* dailySendCount, dailySendDate
  status,                  \* OutboundMessage.status
  stamp,                   \* the day of claimedAt of a row in flight, of
                           \* sentAt of one sent; the others' are not read
  pc,                      \* where the execution that handles a message is
  refusedDay,              \* the day on which its provider refused it
  day,                     \* today
  drift,                   \* the running sweep, and what it has read
  sweeps, faults,          \* how many so far
  slotDay,                 \* history: the day whose counter paid for it
  wire,                    \* history: did the provider take it?
  lowered                  \* history: today's counter was lowered by the
                           \* sweep, or by a worker of an earlier day

counter == <<count, countDay>>
rows == <<status, stamp>>
vars == <<hourlyCap, count, countDay, status, stamp, pc,
          refusedDay, day, drift, sweeps, faults, slotDay, wire, lowered>>

(***************************************************************************)
(* Values                                                                  *)
(***************************************************************************)
Claimable == {"pending", "failed"}
InFlight == {"sending", "reconciliation_required"}
Statuses == Claimable \cup InFlight \cup {"sent", "bounced", "permanently_failed"}
Days == 0..MaxMidnights
NoDay == -1
NotRead == -1

\* Past the reservation, with the slot not yet given back or spent.
Giving == {"release", "release_full"}
Holding == {"calling", "accepted"} \cup Giving
PCs == {"idle", "hourly", "reserve", "full"} \cup Holding

Counts == 0..Cardinality(Messages)
SweepIdle == [at |-> "idle", today |-> 0, read |-> 0, sent |-> NotRead, flight |-> NotRead]

TypeOK ==
  /\ hourlyCap \in {0, HourlyCap}
  /\ count \in 0..DailyCap /\ countDay \in Days \cup {NoDay}
  /\ status \in [Messages -> Statuses]
  /\ stamp \in [Messages -> Days \cup {NoDay}]
  /\ slotDay \in [Messages -> Days \cup {NoDay}]
  /\ refusedDay \in [Messages -> Days \cup {NoDay}]
  /\ pc \in [Messages -> PCs]
  /\ day \in Days
  /\ drift \in [at : {"idle", "counting"}, today : Days, read : 0..DailyCap,
                sent : Counts \cup {NotRead}, flight : Counts \cup {NotRead}]
  /\ sweeps \in 0..MaxSweeps /\ faults \in 0..MaxFaults
  /\ wire \in [Messages -> BOOLEAN]
  /\ lowered \in BOOLEAN

Init ==
  /\ hourlyCap \in {0, HourlyCap}
  /\ count = 0 /\ countDay = NoDay
  /\ status = [m \in Messages |-> "pending"]
  /\ stamp = [m \in Messages |-> NoDay]
  /\ slotDay = [m \in Messages |-> NoDay]
  /\ refusedDay = [m \in Messages |-> NoDay]
  /\ pc = [m \in Messages |-> "idle"]
  /\ day = 0
  /\ drift = SweepIdle
  /\ sweeps = 0 /\ faults = 0
  /\ wire = [m \in Messages |-> FALSE]
  /\ lowered = FALSE

Goto(m, l) == pc' = [pc EXCEPT ![m] = l]
Write(m, s, d) ==
  /\ status' = [status EXCEPT ![m] = s]
  /\ stamp' = [stamp EXCEPT ![m] = d]
PutBack(m, s) == Write(m, s, NoDay)

(***************************************************************************)
(* The worker                                                              *)
(***************************************************************************)

\* The compare-and-set comes before every limit is looked at.
Claim(m) ==
  /\ pc[m] = "idle" /\ status[m] \in Claimable
  /\ Write(m, "sending", day)
  /\ Goto(m, "hourly")
  /\ UNCHANGED <<hourlyCap, counter, refusedDay, slotDay, wire, lowered>>

\* Mutant: a claim in flight is not counted.
SentInLastHourRecorded(m) ==
  Cardinality({x \in Messages \ {m} : status[x] = "sent"})

\* The row's own claim is excluded; "bounced" is not a status it counts.
SentInLastHour(m) ==
  Cardinality({x \in Messages \ {m} : status[x] \in {"sent"} \cup InFlight})

AtHourlyCap(m) == hourlyCap > 0 /\ SentInLastHour(m) >= hourlyCap

CheckHourly(m) ==
  /\ pc[m] = "hourly"
  /\ IF AtHourlyCap(m)
     THEN PutBack(m, "pending") /\ Goto(m, "idle")
     ELSE Goto(m, "reserve") /\ UNCHANGED rows
  /\ UNCHANGED <<hourlyCap, counter, refusedDay, slotDay, wire, lowered>>

\* Mutants: the counter starts again on its own day; a slot past the cap.
StartsAgainToday == countDay <= day
RoomAtCap == countDay < day \/ count <= DailyCap

\* atomicReserveQuota: the first send of a day starts the counter again.
StartsAgain == countDay < day
Room == StartsAgain \/ count < DailyCap

Reserve(m) ==
  /\ pc[m] = "reserve" /\ Room
  /\ count' = IF StartsAgain THEN 1 ELSE count + 1
  /\ countDay' = day
  /\ slotDay' = [slotDay EXCEPT ![m] = day]
  /\ Goto(m, "calling")
  /\ UNCHANGED <<hourlyCap, rows, refusedDay, wire, lowered>>

\* No room: deferred to the next reset, back among the pending rows.
DeferDaily(m) ==
  /\ pc[m] = "reserve" /\ ~Room
  /\ PutBack(m, "pending")
  /\ Goto(m, "idle")
  /\ UNCHANGED <<hourlyCap, counter, refusedDay, slotDay, wire, lowered>>

ProviderAccepts(m) ==
  /\ pc[m] = "calling"
  /\ wire' = [wire EXCEPT ![m] = TRUE]
  /\ Goto(m, "accepted")
  /\ UNCHANGED <<hourlyCap, counter, rows, refusedDay, slotDay, lowered>>

RecordSent(m) ==
  /\ pc[m] = "accepted"
  /\ Write(m, "sent", day)
  /\ Goto(m, "idle")
  /\ UNCHANGED <<hourlyCap, counter, refusedDay, slotDay, wire, lowered>>

\* No answer: the slot stays spent, whatever happened to the message.
ProviderSilent(m) ==
  /\ pc[m] = "calling"
  /\ Write(m, "reconciliation_required", stamp[m])
  /\ \/ wire' = [wire EXCEPT ![m] = TRUE] /\ UNCHANGED slotDay
     \/ slotDay' = [slotDay EXCEPT ![m] = NoDay] /\ UNCHANGED wire
  /\ Goto(m, "idle")
  /\ UNCHANGED <<hourlyCap, counter, refusedDay, lowered>>

\* Refused: the row is written first, the slot given back in a later
\* statement.  A daily sending limit of the provider's fills the counter too.
ProviderRefuses(m) ==
  /\ pc[m] = "calling"
  /\ \/ \E s \in Claimable \cup {"permanently_failed"} : PutBack(m, s) /\ Goto(m, "release")
     \/ PutBack(m, "pending") /\ Goto(m, "release_full")
  /\ refusedDay' = [refusedDay EXCEPT ![m] = IF pc'[m] = "release_full" THEN day ELSE @]
  /\ UNCHANGED <<hourlyCap, counter, slotDay, wire, lowered>>

\* A release reaches only a counter of today.
Releasable == countDay = day

\* releaseQuota, floored at zero.
ReleaseSlot(m) ==
  /\ pc[m] \in Giving
  /\ count' = IF Releasable /\ count > 0 THEN count - 1 ELSE count
  /\ lowered' = (lowered \/ (Releasable /\ slotDay[m] # day))
  /\ slotDay' = [slotDay EXCEPT ![m] = NoDay]
  /\ Goto(m, IF pc[m] = "release_full" THEN "full" ELSE "idle")
  /\ UNCHANGED <<hourlyCap, countDay, rows, refusedDay, wire>>

\* The provider has stopped the mailbox for the day on which it said so.
MarkFull(m) ==
  /\ pc[m] = "full"
  /\ count' = DailyCap
  /\ countDay' = refusedDay[m]
  /\ lowered' = (lowered \/ refusedDay[m] < day)
  /\ refusedDay' = [refusedDay EXCEPT ![m] = NoDay]
  /\ Goto(m, "idle")
  /\ UNCHANGED <<hourlyCap, rows, slotDay, wire>>

\* The worker dies: its claim stays, and so does a slot it holds.
Crash(m) ==
  /\ pc[m] # "idle" /\ faults < MaxFaults
  /\ faults' = faults + 1
  /\ refusedDay' = [refusedDay EXCEPT ![m] = NoDay]
  /\ slotDay' = [slotDay EXCEPT ![m] = IF wire[m] THEN @ ELSE NoDay]
  /\ Goto(m, "idle")
  /\ UNCHANGED <<hourlyCap, counter, rows, wire, lowered>>

\* Inbox sync: workers/sync.ts handleApplyBounce.
Bounce(m) ==
  /\ status[m] = "sent" /\ faults < MaxFaults
  /\ faults' = faults + 1
  /\ PutBack(m, "bounced")
  /\ UNCHANGED <<hourlyCap, counter, pc, refusedDay, slotDay, wire, lowered>>

Midnight ==
  /\ day < MaxMidnights
  /\ day' = day + 1
  /\ lowered' = FALSE
  /\ UNCHANGED <<hourlyCap, counter, rows, pc, refusedDay, slotDay, wire>>

(***************************************************************************)
(* repairQuotaDrift, for this account.  The counter is read, the two counts *)
(* run concurrently, and the write is unconditional.                       *)
(***************************************************************************)
DriftRead ==
  /\ drift.at = "idle" /\ sweeps < MaxSweeps
  /\ countDay = day /\ count > 0
  /\ sweeps' = sweeps + 1
  /\ drift' = [SweepIdle EXCEPT !.at = "counting", !.today = day, !.read = count]
  /\ UNCHANGED <<counter, lowered>>

DriftCountSent ==
  /\ drift.at = "counting" /\ drift.sent = NotRead
  /\ drift' = [drift EXCEPT !.sent =
       Cardinality({m \in Messages : status[m] = "sent" /\ stamp[m] >= drift.today})]
  /\ UNCHANGED <<counter, lowered, sweeps>>

Flight ==
  {m \in Messages : status[m] \in InFlight /\ stamp[m] >= drift.today}

DriftCountFlight ==
  /\ drift.at = "counting" /\ drift.flight = NotRead
  /\ drift' = [drift EXCEPT !.flight = Cardinality(Flight)]
  /\ UNCHANGED <<counter, lowered, sweeps>>

DriftWrite ==
  LET spent == drift.sent + drift.flight IN
  /\ drift.at = "counting" /\ drift.sent # NotRead /\ drift.flight # NotRead
  /\ IF drift.read > spent
     THEN count' = spent /\ lowered' = TRUE
     ELSE UNCHANGED <<count, lowered>>
  /\ drift' = SweepIdle
  /\ UNCHANGED <<countDay, sweeps>>

(***************************************************************************)
(* Specification                                                           *)
(***************************************************************************)
WorkerStep(m) ==
  \/ Claim(m) \/ CheckHourly(m) \/ Reserve(m) \/ DeferDaily(m)
  \/ ProviderAccepts(m) \/ RecordSent(m) \/ ProviderSilent(m)
  \/ ProviderRefuses(m) \/ ReleaseSlot(m) \/ MarkFull(m)

Moves ==
  \/ \E m \in Messages : WorkerStep(m) /\ UNCHANGED <<day, faults>>
  \/ \E m \in Messages : (Crash(m) \/ Bounce(m)) /\ UNCHANGED day
  \/ Midnight /\ UNCHANGED faults

DriftStep == DriftRead \/ DriftCountSent \/ DriftCountFlight \/ DriftWrite

Next ==
  \/ Moves /\ UNCHANGED <<drift, sweeps>>
  \/ DriftStep /\ UNCHANGED <<hourlyCap, rows, pc, refusedDay, day, faults, slotDay, wire>>

Spec == Init /\ [][Next]_vars

(***************************************************************************)
(* Properties                                                              *)
(***************************************************************************)

\* The messages that today's slots have put on the wire, and those that hold
\* one and may still be put there.
SpentToday == {m \in Messages : wire[m] /\ slotDay[m] = day}
HeldToday == {m \in Messages : pc[m] \in Holding /\ slotDay[m] = day}

\* No day sends more than dailyCap, "the one thing the cap exists to prevent"
\* (workers/email.ts releaseQuota).
DailyCapHolds == Cardinality(SpentToday) <= DailyCap

\* No hour puts more than hourlyCap on the wire (sentInLastHour).
OnTheWire == {m \in Messages : wire[m]}
HourlyCapHolds == hourlyCap > 0 => Cardinality(OnTheWire) <= hourlyCap

\* Until the sweep, or a worker of an earlier day, lowers it, the counter
\* covers every slot spent or held: reservations, refusals, crashes and
\* midnights alone never make it forget a send.
CounterCoversSlots ==
  ~lowered /\ countDay = day =>
    Cardinality(SpentToday \cup HeldToday) <= count /\ count <= DailyCap

\* Claim-before-count keeps the hourly ceiling among concurrent workers,
\* though nothing is reserved, for as long as no message has bounced.
HourlyCapUntilBounce ==
  (\A m \in Messages : status[m] # "bounced") => HourlyCapHolds

=============================================================================
