-------------------------- MODULE MailboxQuotaProofs --------------------------
(***************************************************************************)
(* Proofs about MailboxQuota, for any number of messages, any two caps and *)
(* any bound on midnights, sweeps and faults.                              *)
(***************************************************************************)
EXTENDS MailboxQuota, FiniteSetTheorems, TLAPS

(***************************************************************************)
(* Types                                                                   *)
(***************************************************************************)

\* What the two counts of the drift sweep, and every other count of rows, return.
LEMMA CountType ==
  ASSUME NEW S \in SUBSET Messages
  PROVE  IsFiniteSet(S) /\ Cardinality(S) \in Counts
<1>1. IsFiniteSet(Messages)
  BY QuotaAssumption
<1>2. IsFiniteSet(S) /\ Cardinality(S) <= Cardinality(Messages)
  BY <1>1, FS_Subset
<1>3. Cardinality(S) \in Nat /\ Cardinality(Messages) \in Nat
  BY <1>1, <1>2, FS_CardinalityType
<1> QED
  BY <1>2, <1>3 DEF Counts

\* The types hold at first.
LEMMA InitTypeOK == Init => TypeOK
<1> SUFFICES ASSUME Init PROVE TypeOK
  OBVIOUS
<1>1. 0 \in Days /\ 0 \in 0..DailyCap /\ 0 \in 0..MaxSweeps /\ 0 \in 0..MaxFaults
  BY QuotaAssumption DEF Days
<1>2. SweepIdle \in [at : {"idle", "counting"}, today : Days, read : 0..DailyCap,
                    sent : Counts \cup {NotRead}, flight : Counts \cup {NotRead}]
  BY <1>1 DEF SweepIdle
<1> QED
  BY <1>1, <1>2 DEF Init, TypeOK, PCs, Statuses, Claimable

\* The worker's writes keep every variable in its type.
LEMMA WorkerTypeOK ==
  ASSUME TypeOK, NEW m \in Messages, WorkerStep(m),
         UNCHANGED <<day, faults>>, UNCHANGED <<drift, sweeps>>
  PROVE  TypeOK'
<1> USE QuotaAssumption
<1> USE DEF TypeOK, Goto, Write, PutBack, counter, rows, Days, PCs, Holding, Giving,
        Statuses, Claimable, InFlight
<1>1. CASE Claim(m)
  BY <1>1 DEF Claim
<1>2. CASE CheckHourly(m)
  BY <1>2 DEF CheckHourly
<1>3. CASE Reserve(m)
  BY <1>3 DEF Reserve, Room, StartsAgain
<1>4. CASE DeferDaily(m)
  BY <1>4 DEF DeferDaily
<1>5. CASE ProviderAccepts(m)
  BY <1>5 DEF ProviderAccepts
<1>6. CASE RecordSent(m)
  BY <1>6 DEF RecordSent
<1>7. CASE ProviderSilent(m)
  BY <1>7 DEF ProviderSilent
<1>8. CASE ProviderRefuses(m)
  BY <1>8 DEF ProviderRefuses
<1>9. CASE ReleaseSlot(m)
  BY <1>9 DEF ReleaseSlot, Releasable
<1>10. CASE MarkFull(m)
  BY <1>10 DEF MarkFull
<1> QED
  BY <1>1, <1>2, <1>3, <1>4, <1>5, <1>6, <1>7, <1>8, <1>9, <1>10 DEF WorkerStep

\* So do the sweep's: what it writes is below the counter it read.
LEMMA DriftTypeOK ==
  ASSUME TypeOK, DriftStep,
         UNCHANGED <<hourlyCap, rows, pc, refusedDay, day, faults, slotDay, wire>>
  PROVE  TypeOK'
<1> USE QuotaAssumption
<1> USE DEF TypeOK, counter, rows
<1>1. CASE DriftRead
  <2>1. sweeps' \in 0..MaxSweeps
    BY <1>1 DEF DriftRead
  <2>2. drift' \in [at : {"idle", "counting"}, today : Days, read : 0..DailyCap,
                   sent : Counts \cup {NotRead}, flight : Counts \cup {NotRead}]
    BY <1>1 DEF DriftRead, SweepIdle
  <2> QED
    BY <1>1, <2>1, <2>2 DEF DriftRead
<1>2. CASE DriftCountSent
  <2>1. Cardinality({m \in Messages : status[m] = "sent" /\ stamp[m] >= drift.today}) \in Counts
    BY CountType
  <2> QED
    BY <1>2, <2>1 DEF DriftCountSent
<1>3. CASE DriftCountFlight
  <2>1. Cardinality(Flight) \in Counts
    BY CountType DEF Flight
  <2> QED
    BY <1>3, <2>1 DEF DriftCountFlight
<1>4. CASE DriftWrite
  <2>1. drift.sent \in Nat /\ drift.flight \in Nat
    BY <1>4 DEF DriftWrite, Counts, NotRead
  <2>2. SweepIdle \in [at : {"idle", "counting"}, today : Days, read : 0..DailyCap,
                       sent : Counts \cup {NotRead}, flight : Counts \cup {NotRead}]
    BY DEF SweepIdle, Days
  <2>3. count' \in 0..DailyCap
    BY <1>4, <2>1 DEF DriftWrite
  <2>4. lowered' \in BOOLEAN
    BY <1>4, Zenon DEF DriftWrite
  <2> QED
    BY <1>4, <2>2, <2>3, <2>4 DEF DriftWrite
<1> QED
  BY <1>1, <1>2, <1>3, <1>4 DEF DriftStep

\* Every step keeps the types.
LEMMA NextTypeOK == TypeOK /\ [Next]_vars => TypeOK'
<1> SUFFICES ASSUME TypeOK, [Next]_vars PROVE TypeOK'
  OBVIOUS
<1>1. ASSUME NEW m \in Messages, WorkerStep(m), UNCHANGED <<day, faults>>,
             UNCHANGED <<drift, sweeps>>
      PROVE  TypeOK'
  BY <1>1, WorkerTypeOK
<1>2. ASSUME NEW m \in Messages, Crash(m), UNCHANGED day, UNCHANGED <<drift, sweeps>>
      PROVE  TypeOK'
  BY <1>2, QuotaAssumption DEF Crash, TypeOK, Goto, PCs, counter, rows
<1>3. ASSUME NEW m \in Messages, Bounce(m), UNCHANGED day, UNCHANGED <<drift, sweeps>>
      PROVE  TypeOK'
  BY <1>3, QuotaAssumption DEF Bounce, TypeOK, PutBack, Write, Statuses, counter
<1>4. CASE Midnight /\ UNCHANGED faults /\ UNCHANGED <<drift, sweeps>>
  <2>1. day' \in Days
    BY <1>4, QuotaAssumption DEF Midnight, TypeOK, Days
  <2> QED
    BY <1>4, <2>1 DEF Midnight, TypeOK, counter, rows
<1>5. CASE DriftStep /\ UNCHANGED <<hourlyCap, rows, pc, refusedDay, day, faults, slotDay, wire>>
  BY <1>5, DriftTypeOK
<1>6. CASE UNCHANGED vars
  BY <1>6 DEF TypeOK, vars
<1> QED
  BY <1>1, <1>2, <1>3, <1>4, <1>5, <1>6 DEF Next, Moves

\* Every variable keeps its type: neither the worker nor the sweep takes the
\* counter out of 0..dailyCap.
THEOREM TypeCorrect == Spec => []TypeOK
BY InitTypeOK, NextTypeOK, PTL DEF Spec

(***************************************************************************)
(* The daily counter.  The property is about the day the counter is on;    *)
(* what has to be kept beside it is what lets the counter start again:     *)
(* when it is on another day, nothing of today's has been spent.           *)
(***************************************************************************)
Spent == SpentToday \cup HeldToday

DaysInOrder ==
  /\ countDay <= day
  /\ \A m \in Messages : slotDay[m] <= day /\ refusedDay[m] <= day

FreshDay == ~lowered /\ countDay # day => Spent = {}

DailyInv == DaysInOrder /\ FreshDay /\ CounterCoversSlots

\* No date is written that lies ahead: a reservation and a full counter are
\* dated today or earlier.
LEMMA DaysStayInOrder ==
  ASSUME TypeOK, DaysInOrder, [Next]_vars
  PROVE  DaysInOrder'
<1> USE DEF TypeOK, DaysInOrder, counter, Days, NoDay
<1>1. ASSUME NEW m \in Messages, WorkerStep(m), UNCHANGED day PROVE DaysInOrder'
  BY <1>1 DEF WorkerStep, Claim, CheckHourly, Reserve, DeferDaily, ProviderAccepts,
     RecordSent, ProviderSilent, ProviderRefuses, ReleaseSlot, MarkFull
<1>2. ASSUME NEW m \in Messages, Crash(m) \/ Bounce(m), UNCHANGED day PROVE DaysInOrder'
  BY <1>2 DEF Crash, Bounce
<1>3. CASE Midnight
  BY <1>3 DEF Midnight
<1>4. CASE DriftStep /\ UNCHANGED <<refusedDay, day, slotDay>>
  BY <1>4 DEF DriftStep, DriftRead, DriftCountSent, DriftCountFlight, DriftWrite
<1>5. CASE UNCHANGED vars
  BY <1>5 DEF vars
<1> QED
  BY <1>1, <1>2, <1>3, <1>4, <1>5 DEF Next, Moves

\* Only a reservation spends a slot of today's: every other step of a worker, a
\* crash and a bounce keep the spent slots or give some back.
LEMMA OnlyReserveSpends ==
  ASSUME TypeOK, NEW m \in Messages,
         (WorkerStep(m) /\ ~Reserve(m)) \/ Crash(m) \/ Bounce(m), UNCHANGED day
  PROVE  Spent' \subseteq Spent
<1> USE DEF TypeOK, Spent, SpentToday, HeldToday, Goto, Holding, Giving, Days, NoDay
<1>1. CASE Claim(m)
  BY <1>1 DEF Claim
<1>2. CASE CheckHourly(m)
  BY <1>2 DEF CheckHourly
<1>3. CASE DeferDaily(m)
  BY <1>3 DEF DeferDaily
<1>4. CASE ProviderAccepts(m)
  BY <1>4 DEF ProviderAccepts
<1>5. CASE RecordSent(m)
  BY <1>5 DEF RecordSent
<1>6. CASE ProviderSilent(m)
  BY <1>6 DEF ProviderSilent
<1>7. CASE ProviderRefuses(m)
  BY <1>7 DEF ProviderRefuses
<1>8. CASE ReleaseSlot(m)
  BY <1>8 DEF ReleaseSlot
<1>9. CASE MarkFull(m)
  BY <1>9 DEF MarkFull
<1>10. CASE Crash(m)
  BY <1>10 DEF Crash
<1>11. CASE Bounce(m)
  BY <1>11 DEF Bounce
<1> QED
  BY <1>1, <1>2, <1>3, <1>4, <1>5, <1>6, <1>7, <1>8, <1>9, <1>10, <1>11 DEF WorkerStep

\* A set of messages is finite, and its size a number.
LEMMA SpentFinite ==
  ASSUME NEW S \in SUBSET Messages
  PROVE  IsFiniteSet(S) /\ Cardinality(S) \in Nat
BY CountType, FS_CardinalityType

\* A smaller set of spent slots under the same counter stays covered.
LEMMA FewerStaysCovered ==
  ASSUME TypeOK, FreshDay, CounterCoversSlots, Spent' \subseteq Spent,
         UNCHANGED <<count, countDay, day, lowered>>
  PROVE  FreshDay' /\ CounterCoversSlots'
<1>1. Spent \in SUBSET Messages /\ Spent' \in SUBSET Spent
  BY DEF Spent, SpentToday, HeldToday
<1>2. Cardinality(Spent') <= Cardinality(Spent)
  BY <1>1, SpentFinite, FS_Subset
<1>3. Cardinality(Spent) \in Nat /\ Cardinality(Spent') \in Nat
  BY <1>1, SpentFinite
<1>4. FreshDay'
  BY DEF FreshDay
<1>5. CounterCoversSlots'
  <2> SUFFICES ASSUME ~lowered, countDay = day
               PROVE  Cardinality(Spent') <= count' /\ count' <= DailyCap
    BY DEF CounterCoversSlots, Spent
  <2>1. Cardinality(Spent) <= count /\ count <= DailyCap
    BY DEF CounterCoversSlots, Spent
  <2> QED
    BY <1>2, <1>3, <2>1, QuotaAssumption DEF TypeOK
<1> QED
  BY <1>4, <1>5

\* A reservation adds one slot and one to the counter; the first of a day finds
\* nothing spent, so that it may start the counter at one.
LEMMA ReserveCovered ==
  ASSUME TypeOK, DailyInv, NEW m \in Messages, Reserve(m), UNCHANGED day
  PROVE  FreshDay' /\ CounterCoversSlots'
<1> USE DEF TypeOK, DailyInv
<1>1. Spent' \subseteq Spent \cup {m} /\ Spent \in SUBSET Messages
  BY DEF Reserve, Spent, SpentToday, HeldToday, Goto
<1>2. /\ Cardinality(Spent') <= Cardinality(Spent \cup {m})
      /\ Cardinality(Spent \cup {m}) <= Cardinality(Spent) + 1
  <2>1. IsFiniteSet(Spent) /\ Cardinality(Spent) \in Nat
    BY <1>1, SpentFinite
  <2>2. /\ IsFiniteSet(Spent \cup {m})
        /\ Cardinality(Spent \cup {m})
             = IF m \in Spent THEN Cardinality(Spent) ELSE Cardinality(Spent) + 1
    BY <2>1, FS_AddElement
  <2>3. Cardinality(Spent') <= Cardinality(Spent \cup {m})
    BY <1>1, <2>2, FS_Subset
  <2> QED
    BY <2>1, <2>2, <2>3
<1>3. Cardinality(Spent) \in Nat /\ Cardinality(Spent') \in Nat
      /\ Cardinality(Spent \cup {m}) \in Nat
  <2>1. Spent' \in SUBSET Messages /\ Spent \cup {m} \in SUBSET Messages
    BY <1>1
  <2> QED
    BY <1>1, <2>1, SpentFinite
<1>4. FreshDay'
  BY DEF Reserve, FreshDay
<1>5. CounterCoversSlots'
  <2> SUFFICES ASSUME ~lowered
               PROVE  Cardinality(Spent') <= count' /\ count' <= DailyCap
    BY DEF CounterCoversSlots, Spent, Reserve
  <2>1. CASE StartsAgain
    <3>1. countDay # day
      BY <2>1 DEF StartsAgain, Days, NoDay
    <3>2. Spent = {}
      BY <3>1 DEF FreshDay
    <3>3. Cardinality(Spent) = 0
      BY <3>2, FS_EmptySet
    <3> QED
      BY <1>2, <1>3, <2>1, <3>3, QuotaAssumption DEF Reserve
  <2>2. CASE ~StartsAgain
    <3>1. countDay = day
      BY <2>2 DEF StartsAgain, DaysInOrder, Days, NoDay
    <3>2. Cardinality(Spent) <= count
      BY <3>1 DEF CounterCoversSlots, Spent
    <3> QED
      BY <1>2, <1>3, <2>2, <3>2, QuotaAssumption DEF Reserve, Room
  <2> QED
    BY <2>1, <2>2
<1> QED
  BY <1>4, <1>5

\* A release takes one from the counter only for a slot of today's, unless it
\* lowers a counter that is not its own.
LEMMA ReleaseCovered ==
  ASSUME TypeOK, DailyInv, NEW m \in Messages, ReleaseSlot(m), UNCHANGED day
  PROVE  FreshDay' /\ CounterCoversSlots'
<1> USE DEF TypeOK, DailyInv
<1>1. Spent' \subseteq Spent /\ Spent \in SUBSET Messages
  BY OnlyReserveSpends DEF WorkerStep, ReleaseSlot, Reserve, Giving, Spent, SpentToday, HeldToday
<1>2. Cardinality(Spent) \in Nat /\ Cardinality(Spent') \in Nat
  BY <1>1, SpentFinite
<1>3. Cardinality(Spent') <= Cardinality(Spent)
  BY <1>1, SpentFinite, FS_Subset
<1>4. FreshDay'
  BY <1>1 DEF ReleaseSlot, FreshDay, Releasable
<1>5. CounterCoversSlots'
  <2> SUFFICES ASSUME ~lowered', countDay' = day'
               PROVE  Cardinality(Spent') <= count' /\ count' <= DailyCap
    BY DEF CounterCoversSlots, Spent
  <2>1. ~lowered /\ countDay = day /\ slotDay[m] = day
    BY DEF ReleaseSlot, Releasable
  <2>2. Cardinality(Spent) <= count
    BY <2>1 DEF CounterCoversSlots, Spent
  <2>3. m \in Spent /\ Spent' \subseteq Spent \ {m}
    BY <1>1, <2>1 DEF ReleaseSlot, Spent, SpentToday, HeldToday, Holding, NoDay, Days
  <2>4. IsFiniteSet(Spent \ {m}) /\ Cardinality(Spent \ {m}) = Cardinality(Spent) - 1
    BY <1>1, <2>3, SpentFinite, FS_RemoveElement
  <2>5. Cardinality(Spent') <= Cardinality(Spent \ {m})
    BY <2>3, <2>4, FS_Subset
  <2> QED
    BY <1>2, <2>1, <2>2, <2>4, <2>5, QuotaAssumption DEF ReleaseSlot, Releasable
<1> QED
  BY <1>4, <1>5

\* A counter filled for today covers whatever was spent; one filled for an
\* earlier day forgets today's slots, and says so.
LEMMA MarkFullCovered ==
  ASSUME TypeOK, DailyInv, NEW m \in Messages, MarkFull(m), UNCHANGED day
  PROVE  FreshDay' /\ CounterCoversSlots'
<1> USE DEF TypeOK, DailyInv
<1>1. Spent' \subseteq Spent /\ Spent \in SUBSET Messages
  BY OnlyReserveSpends DEF WorkerStep, MarkFull, Reserve, Spent, SpentToday, HeldToday
<1>2. Cardinality(Spent) \in Nat /\ Cardinality(Spent') \in Nat
  BY <1>1, SpentFinite
<1>3. Cardinality(Spent') <= Cardinality(Spent)
  BY <1>1, SpentFinite, FS_Subset
<1>4. ~lowered' => countDay' = day
  <2>1. ~lowered' => ~(refusedDay[m] < day)
    BY Zenon DEF MarkFull
  <2>2. refusedDay[m] <= day /\ refusedDay[m] \in Int /\ day \in Int
    BY DEF DaysInOrder, Days, NoDay
  <2> QED
    BY <2>1, <2>2 DEF MarkFull
<1>5. FreshDay'
  BY <1>4 DEF FreshDay
<1>6. CounterCoversSlots'
  <2> SUFFICES ASSUME ~lowered', countDay' = day'
               PROVE  Cardinality(Spent') <= count' /\ count' <= DailyCap
    BY DEF CounterCoversSlots, Spent
  <2>1. ~lowered /\ count' = DailyCap
    BY DEF MarkFull
  <2>2. CASE countDay = day
    BY <1>2, <1>3, <2>1, <2>2, QuotaAssumption DEF CounterCoversSlots, Spent
  <2>3. CASE countDay # day
    <3>1. Cardinality(Spent) = 0
      BY <2>1, <2>3, FS_EmptySet DEF FreshDay
    <3> QED
      BY <1>2, <1>3, <2>1, <3>1, QuotaAssumption
  <2> QED
    BY <2>2, <2>3
<1> QED
  BY <1>5, <1>6

\* No slot is ever dated tomorrow, so a new day begins with nothing spent.
LEMMA MidnightCovered ==
  ASSUME TypeOK, DailyInv, Midnight
  PROVE  FreshDay' /\ CounterCoversSlots'
<1> USE DEF TypeOK, DailyInv
<1>1. Spent' = {}
  BY DEF Spent, SpentToday, HeldToday, Midnight, DaysInOrder, Days, NoDay
<1>2. countDay' # day'
  BY DEF Midnight, counter, DaysInOrder, Days, NoDay
<1> QED
  BY <1>1, <1>2 DEF FreshDay, CounterCoversSlots

\* The sweep moves the counter only by lowering it, and says so.
LEMMA DriftCovered ==
  ASSUME TypeOK, DailyInv, DriftStep,
         UNCHANGED <<hourlyCap, rows, pc, refusedDay, day, faults, slotDay, wire>>
  PROVE  FreshDay' /\ CounterCoversSlots'
<1> USE DEF DailyInv
<1>1. Spent' = Spent
  BY DEF Spent, SpentToday, HeldToday
<1>2. CASE UNCHANGED <<count, countDay, lowered>>
  BY <1>1, <1>2, FewerStaysCovered
<1>3. CASE lowered'
  BY <1>3 DEF FreshDay, CounterCoversSlots
<1>4. UNCHANGED <<count, countDay, lowered>> \/ lowered'
  BY DEF DriftStep, DriftRead, DriftCountSent, DriftCountFlight, DriftWrite, counter
<1> QED
  BY <1>2, <1>3, <1>4

\* The daily invariant holds at first.
LEMMA InitDaily == Init => DailyInv
<1> SUFFICES ASSUME Init PROVE DailyInv
  OBVIOUS
<1>1. DaysInOrder
  BY DEF Init, DaysInOrder, NoDay
<1>2. Spent = {}
  BY DEF Init, Spent, SpentToday, HeldToday, Holding, Giving
<1>3. countDay # day
  BY DEF Init, NoDay
<1> QED
  BY <1>1, <1>2, <1>3 DEF DailyInv, FreshDay, CounterCoversSlots

\* Every step keeps the daily invariant.
LEMMA NextDaily == TypeOK /\ DailyInv /\ [Next]_vars => DailyInv'
<1> SUFFICES ASSUME TypeOK, DailyInv, [Next]_vars PROVE DailyInv'
  OBVIOUS
<1>1. DaysInOrder'
  BY DaysStayInOrder DEF DailyInv
<1>2. FreshDay' /\ CounterCoversSlots'
  <2>1. ASSUME NEW m \in Messages, WorkerStep(m) /\ ~Reserve(m) /\ ~ReleaseSlot(m) /\ ~MarkFull(m),
               UNCHANGED day
        PROVE  FreshDay' /\ CounterCoversSlots'
    <3>1. Spent' \subseteq Spent
      BY <2>1, OnlyReserveSpends
    <3>2. UNCHANGED <<count, countDay, lowered>>
      BY <2>1 DEF WorkerStep, Claim, CheckHourly, DeferDaily, ProviderAccepts, RecordSent,
         ProviderSilent, ProviderRefuses, counter
    <3> QED
      BY <2>1, <3>1, <3>2, FewerStaysCovered DEF DailyInv
  <2>2. ASSUME NEW m \in Messages, Reserve(m) \/ ReleaseSlot(m) \/ MarkFull(m), UNCHANGED day
        PROVE  FreshDay' /\ CounterCoversSlots'
    BY <2>2, ReserveCovered, ReleaseCovered, MarkFullCovered
  <2>3. ASSUME NEW m \in Messages, Crash(m) \/ Bounce(m), UNCHANGED day
        PROVE  FreshDay' /\ CounterCoversSlots'
    <3>1. Spent' \subseteq Spent
      BY <2>3, OnlyReserveSpends
    <3>2. UNCHANGED <<count, countDay, lowered>>
      BY <2>3 DEF Crash, Bounce, counter
    <3> QED
      BY <2>3, <3>1, <3>2, FewerStaysCovered DEF DailyInv
  <2>4. CASE Midnight
    BY <2>4, MidnightCovered
  <2>5. CASE DriftStep
             /\ UNCHANGED <<hourlyCap, rows, pc, refusedDay, day, faults, slotDay, wire>>
    BY <2>5, DriftCovered
  <2>6. CASE UNCHANGED vars
    <3>1. Spent' = Spent
      BY <2>6 DEF vars, Spent, SpentToday, HeldToday
    <3> QED
      BY <2>6, <3>1, FewerStaysCovered DEF vars, DailyInv
  <2> QED
    BY <2>1, <2>2, <2>3, <2>4, <2>5, <2>6 DEF Next, Moves
<1> QED
  BY <1>1, <1>2 DEF DailyInv

\* Reservations, refusals, releases, crashes and midnights never make the counter
\* forget a send of the day it is on (atomicReserveQuota, releaseQuota): only the
\* nightly sweep, or a worker of an earlier day, lowers it below the slots spent.
THEOREM CounterCovers == Spec => []CounterCoversSlots
<1>1. TypeOK /\ DailyInv => CounterCoversSlots
  BY DEF DailyInv
<1> QED
  BY <1>1, InitTypeOK, NextTypeOK, InitDaily, NextDaily, PTL DEF Spec

(***************************************************************************)
(* The hourly ceiling                                                      *)
(*                                                                         *)
(* Nothing is reserved for it.  What keeps it is that a row is claimed     *)
(* before the rows are counted: every execution past the check is in the   *)
(* count of the next one, until a bounce takes its row out.                *)
(***************************************************************************)
Passing == {"reserve", "calling", "accepted"}

\* What the row of an execution says while it runs, and after the provider
\* took its message.
RowOfExecution ==
  \A m \in Messages :
    /\ pc[m] \in {"hourly"} \cup Passing => status[m] = "sending"
    /\ pc[m] \in Giving \cup {"full"} => status[m] \in Claimable \cup {"permanently_failed"}
    /\ wire[m] => /\ pc[m] \in {"accepted", "idle"}
                  /\ status[m] \in {"sent", "bounced"} \cup InFlight

Passed == {m \in Messages : wire[m] \/ pc[m] \in Passing}
NoBounce == \A m \in Messages : status[m] # "bounced"

PassedUnderCap == hourlyCap > 0 /\ NoBounce => Cardinality(Passed) <= hourlyCap

HourlyInv == RowOfExecution /\ PassedUnderCap

\* A worker's row stays as its place in the handler says.
LEMMA RowsStay ==
  ASSUME TypeOK, RowOfExecution, [Next]_vars
  PROVE  RowOfExecution'
<1> USE DEF TypeOK, RowOfExecution, Goto, PutBack, Write, rows, Passing, Giving, Claimable,
        InFlight
<1>1. ASSUME NEW m \in Messages, WorkerStep(m) PROVE RowOfExecution'
  <2>1. CASE Claim(m)
    BY <2>1 DEF Claim
  <2>2. CASE CheckHourly(m)
    BY <2>2 DEF CheckHourly
  <2>3. CASE Reserve(m)
    BY <2>3 DEF Reserve
  <2>4. CASE DeferDaily(m)
    BY <2>4 DEF DeferDaily
  <2>5. CASE ProviderAccepts(m)
    BY <2>5 DEF ProviderAccepts
  <2>6. CASE RecordSent(m)
    BY <2>6 DEF RecordSent
  <2>7. CASE ProviderSilent(m)
    BY <2>7 DEF ProviderSilent
  <2>8. CASE ProviderRefuses(m)
    BY <2>8 DEF ProviderRefuses
  <2>9. CASE ReleaseSlot(m)
    BY <2>9 DEF ReleaseSlot
  <2>10. CASE MarkFull(m)
    BY <2>10 DEF MarkFull
  <2> QED
    BY <1>1, <2>1, <2>2, <2>3, <2>4, <2>5, <2>6, <2>7, <2>8, <2>9, <2>10 DEF WorkerStep
<1>2. ASSUME NEW m \in Messages, Crash(m) PROVE RowOfExecution'
  BY <1>2 DEF Crash
<1>3. ASSUME NEW m \in Messages, Bounce(m) PROVE RowOfExecution'
  BY <1>3 DEF Bounce
<1>4. CASE UNCHANGED <<status, pc, wire>>
  BY <1>4
<1> QED
  BY <1>1, <1>2, <1>3, <1>4 DEF Next, Moves, Midnight, DriftStep, vars

\* A bounce is never taken back: no worker holds a row that has bounced.
LEMMA BouncedStays ==
  ASSUME TypeOK, RowOfExecution, [Next]_vars, NoBounce'
  PROVE  NoBounce
<1> SUFFICES ASSUME NEW x \in Messages, status[x] = "bounced" PROVE status'[x] = "bounced"
  BY DEF NoBounce
<1> USE DEF TypeOK, RowOfExecution, PutBack, Write, rows, Passing, Giving, Claimable, InFlight
<1>1. ASSUME NEW m \in Messages, WorkerStep(m) PROVE status'[x] = "bounced"
  BY <1>1 DEF WorkerStep, Claim, CheckHourly, Reserve, DeferDaily, ProviderAccepts,
     RecordSent, ProviderSilent, ProviderRefuses, ReleaseSlot, MarkFull
<1>2. ASSUME NEW m \in Messages, Bounce(m) PROVE status'[x] = "bounced"
  BY <1>2 DEF Bounce
<1>3. CASE UNCHANGED status
  BY <1>3
<1> QED
  BY <1>1, <1>2, <1>3 DEF Next, Moves, Midnight, Crash, DriftStep, vars

\* Only the hourly check lets an execution pass, and only below the ceiling.
LEMMA OnlyTheCheckPasses ==
  ASSUME TypeOK, RowOfExecution, [Next]_vars
  PROVE  \/ Passed' \subseteq Passed
         \/ \E m \in Messages :
              CheckHourly(m) /\ ~AtHourlyCap(m) /\ Passed' \subseteq Passed \cup {m}
<1> USE DEF TypeOK, RowOfExecution, Passed, Passing, Goto, Giving
<1>1. ASSUME NEW m \in Messages, CheckHourly(m)
      PROVE  \/ Passed' \subseteq Passed
             \/ ~AtHourlyCap(m) /\ Passed' \subseteq Passed \cup {m}
  BY <1>1 DEF CheckHourly
<1>2. ASSUME NEW m \in Messages, WorkerStep(m), ~CheckHourly(m) PROVE Passed' \subseteq Passed
  BY <1>2 DEF WorkerStep, Claim, Reserve, DeferDaily, ProviderAccepts, RecordSent,
     ProviderSilent, ProviderRefuses, ReleaseSlot, MarkFull
<1>3. ASSUME NEW m \in Messages, Crash(m) \/ Bounce(m) PROVE Passed' \subseteq Passed
  BY <1>3 DEF Crash, Bounce
<1>4. CASE UNCHANGED <<pc, wire>>
  BY <1>4
<1> QED
  BY <1>1, <1>2, <1>3, <1>4 DEF Next, Moves, Midnight, DriftStep, vars

\* Whatever has passed is in the rows the check counts, its own excepted.
LEMMA CheckSeesThePassed ==
  ASSUME TypeOK, RowOfExecution, NoBounce, NEW m \in Messages, pc[m] = "hourly"
  PROVE  /\ m \notin Passed
         /\ Cardinality(Passed) <= SentInLastHour(m)
         /\ Cardinality(Passed) \in Nat /\ SentInLastHour(m) \in Nat
<1> DEFINE Counted == {x \in Messages \ {m} : status[x] \in {"sent"} \cup InFlight}
<1>1. m \notin Passed
  BY DEF Passed, Passing, RowOfExecution
<1>2. Passed \in SUBSET Counted /\ Counted \in SUBSET Messages
  BY <1>1 DEF Passed, Passing, RowOfExecution, NoBounce, InFlight
<1>3. IsFiniteSet(Counted) /\ Cardinality(Counted) \in Nat /\ Cardinality(Passed) \in Nat
  BY <1>2, SpentFinite
<1>4. Cardinality(Passed) <= Cardinality(Counted)
  BY <1>2, <1>3, FS_Subset
<1> QED
  BY <1>1, <1>3, <1>4 DEF SentInLastHour

\* Every step keeps the hourly invariant.
LEMMA NextHourly == TypeOK /\ HourlyInv /\ [Next]_vars => HourlyInv'
<1> SUFFICES ASSUME TypeOK, HourlyInv, [Next]_vars PROVE HourlyInv'
  OBVIOUS
<1>1. RowOfExecution /\ RowOfExecution'
  BY RowsStay DEF HourlyInv
<1>2. PassedUnderCap'
  <2> SUFFICES ASSUME hourlyCap' > 0, NoBounce' PROVE Cardinality(Passed') <= hourlyCap'
    BY DEF PassedUnderCap
  <2>1. hourlyCap' = hourlyCap
    BY DEF Next, Moves, WorkerStep, Claim, CheckHourly, Reserve, DeferDaily,
       ProviderAccepts, RecordSent, ProviderSilent, ProviderRefuses, ReleaseSlot, MarkFull,
       Crash, Bounce, Midnight, vars
  <2>2. NoBounce
    BY <1>1, BouncedStays
  <2>3. Cardinality(Passed) <= hourlyCap
    BY <2>1, <2>2 DEF HourlyInv, PassedUnderCap
  <2>4. Passed \in SUBSET Messages /\ Passed' \in SUBSET Messages
    BY DEF Passed
  <2>5. /\ IsFiniteSet(Passed) /\ Cardinality(Passed) \in Nat
        /\ IsFiniteSet(Passed') /\ Cardinality(Passed') \in Nat
    BY <2>4, SpentFinite
  <2>6. hourlyCap \in Nat
    BY QuotaAssumption DEF TypeOK
  <2>7. CASE Passed' \subseteq Passed
    <3>1. Cardinality(Passed') <= Cardinality(Passed)
      BY <2>5, <2>7, FS_Subset
    <3> QED
      BY <2>1, <2>3, <2>5, <2>6, <3>1
  <2>8. ASSUME NEW m \in Messages, CheckHourly(m), ~AtHourlyCap(m),
               Passed' \subseteq Passed \cup {m}
        PROVE  Cardinality(Passed') <= hourlyCap
    <3>1. /\ m \notin Passed /\ Cardinality(Passed) <= SentInLastHour(m)
          /\ SentInLastHour(m) \in Nat
      BY <1>1, <2>2, <2>8, CheckSeesThePassed DEF CheckHourly
    <3>2. SentInLastHour(m) < hourlyCap
      BY <2>1, <2>6, <2>8, <3>1 DEF AtHourlyCap
    <3>3. IsFiniteSet(Passed \cup {m}) /\ Cardinality(Passed \cup {m}) = Cardinality(Passed) + 1
      BY <2>5, <3>1, FS_AddElement
    <3>4. Cardinality(Passed') <= Cardinality(Passed \cup {m})
      BY <2>8, <3>3, FS_Subset
    <3> QED
      BY <2>5, <2>6, <3>1, <3>2, <3>3, <3>4
  <2> QED
    BY <1>1, <2>1, <2>7, <2>8, OnlyTheCheckPasses
<1> QED
  BY <1>1, <1>2 DEF HourlyInv

\* The hourly invariant holds at first.
LEMMA InitHourly == Init => HourlyInv
<1> SUFFICES ASSUME Init PROVE HourlyInv
  OBVIOUS
<1>1. RowOfExecution
  BY DEF Init, RowOfExecution, Passing, Giving
<1>2. Passed = {}
  BY DEF Init, Passed, Passing
<1>3. PassedUnderCap
  BY <1>2, FS_EmptySet, QuotaAssumption DEF PassedUnderCap, Init
<1> QED
  BY <1>1, <1>3 DEF HourlyInv

\* Claiming before counting keeps the hourly ceiling, though nothing is reserved
\* for it (sentInLastHour): with any number of concurrent sends, crashes and silent
\* providers, no more than hourlyCap messages are on the wire until one bounces.
THEOREM HourlyCeiling == Spec => []HourlyCapUntilBounce
<1>1. TypeOK /\ HourlyInv => HourlyCapUntilBounce
  <2> SUFFICES ASSUME TypeOK, HourlyInv, NoBounce, hourlyCap > 0
               PROVE  Cardinality(OnTheWire) <= hourlyCap
    BY DEF HourlyCapUntilBounce, HourlyCapHolds, NoBounce
  <2>1. OnTheWire \in SUBSET Passed /\ Passed \in SUBSET Messages
    BY DEF OnTheWire, Passed
  <2>2. /\ Cardinality(OnTheWire) <= Cardinality(Passed)
        /\ Cardinality(OnTheWire) \in Nat /\ Cardinality(Passed) \in Nat
    BY <2>1, SpentFinite, FS_Subset
  <2> QED
    BY <2>2, QuotaAssumption DEF HourlyInv, PassedUnderCap, TypeOK
<1> QED
  BY <1>1, InitTypeOK, NextTypeOK, InitHourly, NextHourly, PTL DEF Spec

=============================================================================
