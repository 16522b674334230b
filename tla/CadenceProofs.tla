----------------------------- MODULE CadenceProofs -----------------------------
(***************************************************************************)
(* What holds of Cadence for every number of enrollments, steps and        *)
(* processes.  A step may be behind its cadence by an email of the same    *)
(* step sent for another enrollment (a redriven row is resolved by lead    *)
(* and sequence): with a single enrollment that email is the step's own.   *)
(***************************************************************************)
EXTENDS Cadence, WellFoundedInduction, TLAPS

(***************************************************************************)
(* Where a process can be, and what it then holds                          *)
(***************************************************************************)
ExecutorPCs == {"idle", "check", "create", "send", "unlock", "rollback"}
MailerPCs == {"idle", "flying"} \cup Settling
SweeperPCs == {"idle", "revive", "ensure"} \cup Settling
ClerkPCs == {"idle", "next", "schedule", "pausing", "end", "skip_all", "end_again",
             "restore", "reopen", "rejob", "settle"}

PlaceOf(p, l) ==
  /\ p \in Executors => l \in ExecutorPCs
  /\ p \in Mailers => l \in MailerPCs
  /\ p \in Sweepers => l \in SweeperPCs
  /\ p \in Clerks => l \in ClerkPCs

\* A message's reference names no task, or a task of the message's step.
Fits(t, r) == r = NoRef \/ (r.task \in Tasks /\ r.task[2] = t[2])

Placed(p, l, t, r) ==
  /\ t \in Tasks \cup {NoTask} /\ r \in Refs /\ PlaceOf(p, l)
  /\ p \notin Clerks /\ l # "idle" => t \in Tasks /\ Fits(t, r)
  /\ l \in {"reopen", "rejob"} => t \in Tasks
  /\ l \in {"complete", "advance", "skip", "stop"} => r # NoRef
  /\ l \in {"next", "schedule"} => NextOf(r) \in Tasks
  /\ l = "restore" => r.enrollment \in Enrollments

ProcType ==
  /\ pc \in [Procs -> PCs]
  /\ at \in [Procs -> Tasks \cup {NoTask}]
  /\ ref \in [Procs -> Refs]
  /\ \A p \in Procs : Placed(p, pc[p], at[p], ref[p])

EnrollmentType ==
  /\ enr \in [Enrollments -> EnrollmentStatuses]
  /\ current \in [Enrollments -> 1..NumSteps]
  /\ midway \in [Enrollments -> BOOLEAN]

TaskType ==
  /\ task \in [Tasks -> TaskStatuses]
  /\ lock \in [Tasks -> BOOLEAN]
  /\ row \in [Tasks -> RowStatuses]

QueueType ==
  /\ job \subseteq Tasks
  /\ mail \subseteq Tasks \X Refs
  /\ \A m \in mail : Fits(m[1], m[2])

HistoryType ==
  /\ delivered \in [Tasks -> Nat]
  /\ repSkipped \in [Tasks -> BOOLEAN]
  /\ ops \in 0..MaxOps /\ sweeps \in 0..MaxSweeps /\ faults \in 0..MaxFaults

FullType == ProcType /\ EnrollmentType /\ TaskType /\ QueueType /\ HistoryType

(***************************************************************************)
(* The invariants                                                          *)
(***************************************************************************)

\* Some enrollment's email of the step was taken.
Mailed(k) == \E u \in Tasks : u[2] = k /\ delivered[u] > 0

\* A step is passed only after an email of that step, and whoever settles a sent
\* message is about such a step.
EarnedInv ==
  /\ \A t \in Tasks : t[2] < current[t[1]] \/ enr[t[1]] = "completed" => Mailed(t[2])
  /\ \A t \in Tasks : row[t] = "sent" => delivered[t] > 0
  /\ \A p \in Procs : pc[p] \in {"complete", "advance"} => Mailed(ref[p].task[2])

\* A message with the provider has one sender, was not delivered and cannot be sent
\* by another; no message exists for a step the cadence has not reached.
Flies(v, t) == pc[v] = "flying" /\ at[v] = t
FlightInv ==
  /\ \A t \in Tasks : delivered[t] <= 1
  /\ \A t \in Tasks : row[t] \in {"none", "queued"} => delivered[t] = 0
  /\ \A t \in Tasks, v \in Mailers :
       Flies(v, t) => row[t] \notin {"none", "queued"} /\ delivered[t] = 0
  /\ \A t \in Tasks, v, w \in Mailers : Flies(v, t) /\ Flies(w, t) => v = w

\* Steps on a message: it is created, claimed, parked, brought down by its sender,
\* or resolved by evidence.  Nobody else starts sending.
KeepFlying == \A v \in Mailers : pc'[v] = "flying" => pc[v] = "flying" /\ at'[v] = at[v]

Creates(x) ==
  /\ pc[x] = "create" /\ KeepFlying /\ UNCHANGED delivered
  /\ row' = [row EXCEPT ![at[x]] = IF @ = "none" THEN "queued" ELSE @]

Claims(v, t) ==
  /\ row[t] = "queued" /\ SetRow(t, "flying") /\ UNCHANGED delivered
  /\ pc[v] = "idle" /\ at'[v] = t
  /\ \A w \in Mailers \ {v} : pc'[w] = pc[w] /\ at'[w] = at[w]

Parks(t) == row[t] = "flying" /\ SetRow(t, "unknown") /\ KeepFlying /\ UNCHANGED delivered

Lands(v, s) ==
  /\ pc[v] = "flying" /\ SetRow(at[v], s) /\ KeepFlying /\ pc'[v] # "flying"
  /\ \/ s \in {"queued", "dead", "unknown"} /\ UNCHANGED delivered
     \/ s \in {"sent", "unknown"} /\ delivered' = [delivered EXCEPT ![at[v]] = @ + 1]

Resolves(t, s) ==
  /\ row[t] = "unknown" /\ s \in {"sent", "dead"} /\ SetRow(t, s)
  /\ s = "sent" => delivered[t] > 0
  /\ KeepFlying /\ UNCHANGED delivered

Reached(t) == t[2] <= current[t[1]]
ReachedInv ==
  /\ \A t \in Tasks : row[t] # "none" => Reached(t)
  /\ \A x \in Executors : pc[x] = "create" => Reached(at[x])

(***************************************************************************)
(* What the operators of the model return                                  *)
(***************************************************************************)

\* A nonempty set of naturals has a least element.
LEMMA Least ==
  ASSUME NEW S \in SUBSET Nat, S # {}
  PROVE  \E x \in S : \A y \in S : x <= y
  <1> DEFINE R == OpToRel(<, Nat)
  <1>1. IsWellFoundedOn(R, Nat)
    BY NatLessThanWellFounded
  <1>2. \A x, y \in Nat : <<x, y>> \in R \/ y <= x
    BY DEF OpToRel
  <1> HIDE DEF R
  <1>3. PICK x \in S : \A y \in S : <<y, x>> \notin R
    BY <1>1, WFMin
  <1> QED
    BY <1>2, <1>3

\* A task is one step of one enrollment.
LEMMA TaskParts ==
  ASSUME NEW t \in Tasks
  PROVE  /\ t[1] \in Enrollments /\ t[2] \in 1..NumSteps /\ t = <<t[1], t[2]>>
         /\ t # NoTask
  BY DEF Tasks, Enrollments, NoTask

\* A reference to a task is a reference that fits the task's message.
LEMMA RefToFits ==
  ASSUME NEW t \in Tasks
  PROVE  RefTo(t) \in Refs /\ Fits(t, RefTo(t)) /\ RefTo(t) # NoRef
  BY CadenceAssumption DEF RefTo, Refs, Fits, Tasks, Enrollments, NoRef, NoTask

\* A row that names nothing fits every task.
LEMMA NoRefFits ==
  ASSUME NEW t
  PROVE  NoRef \in Refs /\ Fits(t, NoRef)
  BY CadenceAssumption DEF NoRef, Refs, Fits

\* What a row resolves to fits it.
LEMMA ResolvedFits ==
  ASSUME NEW t \in Tasks
  PROVE  Resolved(t) \in Refs /\ Fits(t, Resolved(t))
  <1>1. CASE StepTasks(t) = {}
    BY <1>1, NoRefFits DEF Resolved
  <1>2. CASE StepTasks(t) # {}
    <2> DEFINE F(u) == MaxEnrollments - u[1]
               newest == CHOOSE u \in StepTasks(t) : \A w \in StepTasks(t) : u[1] >= w[1]
               open == IF OpenEnrollments = {} THEN 0 ELSE CHOOSE e \in OpenEnrollments : TRUE
    <2>1. \A u \in StepTasks(t) : u \in Tasks /\ u[1] \in 1..MaxEnrollments /\ u[2] = t[2]
      BY DEF StepTasks, Tasks, Enrollments
    <2>2. {F(u) : u \in StepTasks(t)} \in SUBSET Nat
      BY <2>1, CadenceAssumption
    <2>3. PICK x \in {F(u) : u \in StepTasks(t)} : \A y \in {F(u) : u \in StepTasks(t)} : x <= y
      BY <1>2, <2>2, Least
    <2>4. PICK u \in StepTasks(t) : x = F(u)
      BY <2>3
    <2>5. \A w \in StepTasks(t) : u[1] >= w[1]
      <3> SUFFICES ASSUME NEW w \in StepTasks(t) PROVE u[1] >= w[1]
        OBVIOUS
      <3>1. F(u) <= F(w)
        BY <2>3, <2>4
      <3> QED
        BY <2>1, <3>1, CadenceAssumption
    <2>6. newest \in StepTasks(t)
      BY <2>5
    <2>7. open \in 0..MaxEnrollments
      <3>1. OpenEnrollments \subseteq 1..MaxEnrollments
        BY DEF OpenEnrollments, Enrollments
      <3>2. OpenEnrollments # {} => (CHOOSE e \in OpenEnrollments : TRUE) \in OpenEnrollments
        OBVIOUS
      <3>3. 1..MaxEnrollments \subseteq 0..MaxEnrollments /\ 0 \in 0..MaxEnrollments
        BY CadenceAssumption
      <3>4. CASE OpenEnrollments = {}
        BY <3>3, <3>4
      <3>5. CASE OpenEnrollments # {}
        <4>1. (CHOOSE e \in OpenEnrollments : TRUE) \in 0..MaxEnrollments
          BY <3>1, <3>2, <3>3, <3>5, Zenon
        <4> QED
          BY <3>5, <4>1, Zenon
      <3> QED
        BY <3>4, <3>5
    <2>8. Resolved(t) = [task |-> newest, enrollment |-> open]
      BY <1>2 DEF Resolved
    <2> HIDE DEF newest, open
    <2>9. newest \in Tasks /\ newest[2] = t[2]
      BY <2>1, <2>6
    <2>10. newest \in Enrollments \X (0..NumSteps)
      <3>1. 1..NumSteps \subseteq 0..NumSteps
        BY CadenceAssumption
      <3> QED
        BY <2>9, <3>1 DEF Tasks
    <2> QED
      BY <2>7, <2>8, <2>9, <2>10 DEF Refs, Fits
  <1> QED
    BY <1>1, <1>2

(***************************************************************************)
(* Every step keeps the types                                              *)
(***************************************************************************)

\* A process that begins somewhere it can be keeps the processes well placed.
LEMMA BeginType ==
  ASSUME ProcType, NEW p \in Procs, NEW l \in PCs, NEW t, NEW r,
         Placed(p, l, t, r), Begin(p, l, t, r)
  PROVE  ProcType'
  <1>1. t \in Tasks \cup {NoTask} /\ r \in Refs
    BY DEF Placed
  <1>2. /\ pc' \in [Procs -> PCs] /\ at' \in [Procs -> Tasks \cup {NoTask}]
        /\ ref' \in [Procs -> Refs]
    BY <1>1 DEF ProcType, Begin
  <1>3. ASSUME NEW q \in Procs PROVE Placed(q, pc'[q], at'[q], ref'[q])
    <2>1. CASE q = p
      BY <2>1 DEF ProcType, Begin
    <2>2. CASE q # p
      BY <2>2 DEF ProcType, Begin
    <2> QED
      BY <2>1, <2>2
  <1> QED
    BY <1>2, <1>3 DEF ProcType, Placed, PlaceOf, Fits, NextOf

\* What a process stands on, by where it is.
LEMMA Stands ==
  ASSUME ProcType, NEW p \in Procs
  PROVE  /\ at[p] \in Tasks \cup {NoTask} /\ ref[p] \in Refs
         /\ p \notin Clerks /\ pc[p] # "idle" =>
              /\ at[p] \in Tasks /\ Fits(at[p], ref[p])
         /\ pc[p] \in {"reopen", "rejob"} => at[p] \in Tasks
         /\ pc[p] \in {"complete", "advance", "skip", "stop"} =>
              ref[p] # NoRef
         /\ pc[p] \in {"next", "schedule"} => NextOf(ref[p]) \in Tasks
         /\ pc[p] = "restore" => ref[p].enrollment \in Enrollments
  BY DEF ProcType, Placed

\* A process at rest is well placed.
LEMMA ReturnType ==
  ASSUME ProcType, NEW p \in Procs, Return(p)
  PROVE  ProcType'
  <1>1. Placed(p, "idle", NoTask, NoRef)
    BY NoRefFits DEF Placed, PlaceOf, ExecutorPCs, MailerPCs, SweeperPCs, ClerkPCs
  <1> QED
    BY <1>1, BeginType DEF Return, PCs

\* A process that goes on, with what it holds.
LEMMA GotoType ==
  ASSUME ProcType, NEW p \in Procs, NEW l \in PCs, Goto(p, l),
         Placed(p, l, at[p], ref[p])
  PROVE  ProcType'
  <1>1. Begin(p, l, at[p], ref[p])
    BY DEF Goto, Begin, ProcType
  <1> QED
    BY <1>1, BeginType

\* An executor goes on along its handler.
LEMMA ExecutorGoesOn ==
  ASSUME ProcType, NEW x \in Executors, NEW l \in ExecutorPCs, Goto(x, l), pc[x] # "idle"
  PROVE  ProcType'
  <1>1. x \in Procs /\ x \notin Mailers \cup Sweepers \cup Clerks
    BY ProcAssumption DEF Procs
  <1>2. Placed(x, l, at[x], ref[x])
    BY <1>1, Stands DEF Placed, PlaceOf, ExecutorPCs
  <1> QED
    BY <1>1, <1>2, GotoType DEF ExecutorPCs, PCs

\* An execution takes a task, or the task's job is put aside.
LEMMA WakesProc ==
  ASSUME FullType, NEW x \in Executors, NEW t \in job,
         Ignore(x, t) \/ Defer(x, t) \/ Close(x, t) \/ LockTask(x, t)
  PROVE  ProcType'
  <1>1. x \in Procs /\ x \notin Mailers \cup Sweepers \cup Clerks /\ t \in Tasks
    BY ProcAssumption DEF Procs, FullType, QueueType
  <1>2. CASE UNCHANGED procVars
    BY <1>2 DEF FullType, ProcType, procVars, Placed, PlaceOf, Fits, NextOf
  <1>3. CASE LockTask(x, t)
    <2>1. Placed(x, "check", t, RefTo(t))
      BY <1>1, RefToFits DEF Placed, PlaceOf, ExecutorPCs
    <2> QED
      BY <1>1, <1>3, <2>1, BeginType DEF FullType, LockTask, PCs
  <1> QED
    BY <1>2, <1>3 DEF Ignore, Defer, Close

\* The executors' steps keep the processes well formed.
LEMMA ExecuteProc ==
  ASSUME FullType, NEW x \in Executors, Execute(x)
  PROVE  ProcType'
  <1>1. ASSUME NEW t \in job, Ignore(x, t) \/ Defer(x, t) \/ Close(x, t) \/ LockTask(x, t)
        PROVE  ProcType'
    BY <1>1, WakesProc
  <1>2. CASE Check(x)
    BY <1>2, ExecutorGoesOn DEF Check, FullType, ExecutorPCs
  <1>3. CASE CreateRow(x) \/ Throw(x)
    BY <1>3, ExecutorGoesOn DEF CreateRow, Throw, FullType, ExecutorPCs
  <1>4. CASE QueueSend(x) \/ Unlock(x)
    BY <1>4, ReturnType DEF QueueSend, Unlock, FullType, Procs
  <1> QED
    BY <1>1, <1>2, <1>3, <1>4 DEF Execute

\* Whoever settles a message is a mail worker or a sweep.
LEMMA SettlerGoesOn ==
  ASSUME ProcType, NEW v \in Mailers \cup Sweepers, NEW l \in Settling, Goto(v, l),
         pc[v] # "idle",
         l \in {"complete", "advance", "skip", "stop"} => ref[v] # NoRef,
         l \in {"next", "schedule"} => NextOf(ref[v]) \in Tasks
  PROVE  ProcType'
  <1>1. v \in Procs /\ v \notin Executors \cup Clerks
    BY ProcAssumption DEF Procs
  <1>2. PlaceOf(v, l) /\ l \in PCs
    BY <1>1 DEF PlaceOf, MailerPCs, SweeperPCs, PCs
  <1>3. Placed(v, l, at[v], ref[v])
    BY <1>1, <1>2, Stands DEF Placed, Settling
  <1> QED
    BY <1>1, <1>2, <1>3, GotoType

\* The step behind an owned one exists, unless it is the last.
LEMMA NextExists ==
  ASSUME EnrollmentType, NEW r \in Refs, Owns(r), current[r.enrollment] < NumSteps
  PROVE  NextOf(r) \in Tasks
  BY CadenceAssumption DEF EnrollmentType, Owns, NextOf, Tasks

\* Settling a send keeps the processes well formed.
LEMMA SettleProc ==
  ASSUME FullType, NEW v \in Mailers \cup Sweepers, Settle(v)
  PROVE  ProcType'
  <1> USE DEF Settling
  <1>1. v \in Procs /\ ProcType
    BY DEF Procs, FullType
  <1>2. CASE Complete(v)
    BY <1>1, <1>2, SettlerGoesOn, Stands DEF Complete
  <1>3. CASE Advance(v)
    <2>1. CASE Goto(v, "next") /\ Owns(ref[v]) /\ current[ref[v].enrollment] < NumSteps
      <3>1. NextOf(ref[v]) \in Tasks
        BY <1>1, <2>1, NextExists, Stands DEF FullType
      <3> QED
        BY <1>1, <1>3, <2>1, <3>1, SettlerGoesOn DEF Advance
    <2>2. CASE Return(v)
      BY <1>1, <2>2, ReturnType
    <2> QED
      BY <1>3, <2>1, <2>2 DEF Advance
  <1>4. CASE CreateTask(v)
    BY <1>1, <1>4, SettlerGoesOn, Stands DEF CreateTask
  <1>5. CASE GiveBack(v)
    BY <1>1, <1>5, SettlerGoesOn, Stands DEF GiveBack
  <1>6. CASE Schedule(v) \/ Stop(v) \/ SettleFails(v)
    BY <1>1, <1>6, ReturnType DEF Schedule, Stop, SettleFails
  <1> QED
    BY <1>2, <1>3, <1>4, <1>5, <1>6 DEF Settle

\* A message taken from the queue is one the worker sends or settles.
LEMMA TakeMailProc ==
  ASSUME FullType, NEW v \in Mailers, NEW m \in mail, TakeMail(v, m[1], m[2])
  PROVE  ProcType'
  <1>1. v \in Procs /\ ProcType /\ v \notin Executors \cup Sweepers \cup Clerks
    BY ProcAssumption DEF Procs, FullType
  <1>2. m[1] \in Tasks /\ m[2] \in Refs /\ Fits(m[1], m[2])
    BY DEF FullType, QueueType
  <1>3. CASE UNCHANGED procVars
    BY <1>1, <1>3 DEF ProcType, procVars, Placed, PlaceOf, Fits, NextOf
  <1>4. CASE Begin(v, Branch(row[m[1]]), m[1], m[2])
              /\ (Branch(row[m[1]]) = "flying" \/ m[2] # NoRef)
    <2>1. Branch(row[m[1]]) \in {"flying", "complete", "skip", "idle"}
      BY DEF Branch
    <2>2. Placed(v, Branch(row[m[1]]), m[1], m[2])
      BY <1>1, <1>2, <1>4, <2>1 DEF Placed, PlaceOf, MailerPCs, Settling
    <2> QED
      BY <1>1, <1>4, <2>1, <2>2, BeginType DEF PCs, Settling
  <1> QED
    BY <1>3, <1>4 DEF TakeMail

\* The mailers' steps keep the processes well formed.
LEMMA MailProc ==
  ASSUME FullType, NEW v \in Mailers, Mail(v)
  PROVE  ProcType'
  <1>1. v \in Procs /\ ProcType
    BY DEF Procs, FullType
  <1>2. ASSUME NEW m \in mail, TakeMail(v, m[1], m[2]) PROVE ProcType'
    BY <1>2, TakeMailProc
  <1>3. CASE PutBack(v) \/ Silent(v)
    BY <1>1, <1>3, ReturnType DEF PutBack, Silent
  <1>4. CASE Accept(v)
    <2>1. CASE ref[v] = NoRef
      BY <1>1, <1>4, <2>1, ReturnType DEF Accept
    <2>2. CASE ref[v] # NoRef
      BY <1>1, <1>4, <2>2, SettlerGoesOn DEF Accept, Settling
    <2> QED
      BY <2>1, <2>2
  <1>5. CASE Refuse(v)
    <2>1. CASE Return(v)
      BY <1>1, <2>1, ReturnType
    <2>2. CASE Goto(v, "skip") /\ ref[v] # NoRef
      BY <1>1, <1>5, <2>2, SettlerGoesOn DEF Refuse, Settling
    <2> QED
      BY <1>5, <2>1, <2>2 DEF Refuse
  <1>6. CASE Settle(v)
    BY <1>6, SettleProc
  <1> QED
    BY <1>2, <1>3, <1>4, <1>5, <1>6 DEF Mail

\* The sweeps keep the processes well formed.
LEMMA SweepProc ==
  ASSUME FullType, NEW s \in Sweepers, Sweep(s)
  PROVE  ProcType'
  <1>1. s \in Procs /\ ProcType /\ s \notin Executors \cup Mailers \cup Clerks
    BY ProcAssumption DEF Procs, FullType
  <1>2. CASE UNCHANGED procVars
    BY <1>1, <1>2 DEF ProcType, procVars, Placed, PlaceOf, Fits, NextOf
  <1>3. ASSUME NEW t \in Tasks, Reconcile(s, t), ~UNCHANGED procVars
        PROVE  ProcType'
    <2>1. PICK l \in {"complete", "skip"} : Begin(s, l, t, Resolved(t)) /\ Resolved(t) # NoRef
      BY <1>3 DEF Reconcile, Branch
    <2>2. Placed(s, l, t, Resolved(t))
      BY <1>1, <2>1, ResolvedFits DEF Placed, PlaceOf, SweeperPCs, Settling
    <2> QED
      BY <1>1, <2>1, <2>2, BeginType DEF PCs, Settling
  <1>4. ASSUME NEW e \in Enrollments, FindDrift(s, e) PROVE ProcType'
    <2>1. <<e, current[e]>> \in Tasks
      BY DEF FullType, EnrollmentType, Tasks
    <2>2. Placed(s, "revive", <<e, current[e]>>, RefTo(<<e, current[e]>>))
      BY <1>1, <2>1, RefToFits DEF Placed, PlaceOf, SweeperPCs
    <2> QED
      BY <1>1, <1>4, <2>2, BeginType DEF FindDrift, PCs
  <1>5. CASE ReviveTask(s)
    <2>1. Placed(s, "ensure", at[s], ref[s])
      BY <1>1, <1>5, Stands DEF ReviveTask, Placed, PlaceOf, SweeperPCs
    <2> QED
      BY <1>1, <1>5, <2>1, GotoType DEF ReviveTask, PCs
  <1>6. CASE EnsureJob(s)
    BY <1>1, <1>6, ReturnType DEF EnsureJob
  <1>7. CASE Settle(s)
    BY <1>7, SettleProc
  <1> QED
    BY <1>2, <1>3, <1>4, <1>5, <1>6, <1>7 DEF Sweep, SweepStale, Redrive, RequeueTask

\* A clerk is bound to a place only where a request works on something.
LEMMA ClerkBegins ==
  ASSUME ProcType, NEW c \in Clerks, NEW l \in ClerkPCs, NEW t \in Tasks \cup {NoTask},
         NEW r \in Refs, Begin(c, l, t, r),
         l \in {"reopen", "rejob"} => t \in Tasks,
         l \in {"next", "schedule"} => NextOf(r) \in Tasks,
         l = "restore" => r.enrollment \in Enrollments
  PROVE  ProcType'
  <1>1. c \in Procs /\ c \notin Executors \cup Mailers \cup Sweepers
    BY ProcAssumption DEF Procs
  <1>2. Placed(c, l, t, r)
    BY <1>1 DEF Placed, PlaceOf, ClerkPCs
  <1> QED
    BY <1>1, <1>2, BeginType DEF ClerkPCs, PCs, Settling

\* A clerk that goes on with its task keeps the processes well formed.
LEMMA ClerkGoesOn ==
  ASSUME ProcType, NEW c \in Clerks, NEW l \in ClerkPCs \ {"restore"}, Goto(c, l),
         l \in {"reopen", "rejob"} => at[c] \in Tasks,
         l \in {"next", "schedule"} => NextOf(ref[c]) \in Tasks
  PROVE  ProcType'
  <1>1. c \in Procs /\ Begin(c, l, at[c], ref[c])
    BY DEF Procs, Goto, Begin, ProcType
  <1> QED
    BY <1>1, Stands, ClerkBegins

\* The reference of an operation on an enrollment.
LEMMA AtEnrollment ==
  ASSUME NEW e \in Enrollments
  PROVE  /\ [task |-> <<e, 0>>, enrollment |-> e] \in Refs
         /\ NextOf([task |-> <<e, 0>>, enrollment |-> e]) \in Tasks
  BY CadenceAssumption DEF Refs, NextOf, Tasks, Enrollments

\* The clerks' steps keep the processes well formed.
LEMMA ClerkProc ==
  ASSUME FullType, NEW c \in Clerks, Clerk(c)
  PROVE  ProcType'
  <1> USE DEF ClerkPCs
  <1>1. c \in Procs /\ ProcType
    BY DEF Procs, FullType
  <1>2. CASE UNCHANGED procVars
    BY <1>1, <1>2 DEF ProcType, procVars, Placed, PlaceOf, Fits, NextOf
  <1>3. CASE Return(c)
    BY <1>1, <1>3, ReturnType
  <1>4. ASSUME NEW e \in Enrollments, Enroll(c, e) \/ Resume(c, e) PROVE ProcType'
    BY <1>1, <1>4, AtEnrollment, ClerkBegins DEF Enroll, Resume
  <1>5. ASSUME NEW e \in Enrollments, Pause(c, e) PROVE ProcType'
    BY <1>1, <1>5, NoRefFits, ClerkBegins DEF Pause
  <1>6. CASE End(c)
    BY <1>1, <1>6, NoRefFits, ClerkBegins DEF End
  <1>7. CASE Goto(c, "end_again") \/ Goto(c, "skip_all")
    BY <1>1, <1>7, ClerkGoesOn
  <1>8. CASE Restore(c)
    <2>1. <<ref[c].enrollment, current[ref[c].enrollment]>> \in Tasks /\ ref[c] \in Refs
      BY <1>1, <1>8, Stands DEF Restore, FullType, EnrollmentType, Tasks
    <2> QED
      BY <1>1, <1>8, <2>1, ClerkBegins DEF Restore
  <1>9. CASE Reopen(c)
    BY <1>1, <1>9, Stands, ClerkGoesOn DEF Reopen
  <1>10. CASE Rejob(c)
    BY <1>1, <1>3, <1>10, ClerkGoesOn DEF Rejob
  <1>11. CASE CreateTask(c)
    BY <1>1, <1>11, Stands, ClerkGoesOn DEF CreateTask
  <1> QED
    BY <1>2, <1>3, <1>4, <1>5, <1>6, <1>7, <1>8, <1>9, <1>10, <1>11
       DEF Clerk, SkipPending, Unenroll, SettleResume, RunNow, RepSkip, Schedule

\* Every step keeps the processes well formed.
LEMMA ProcStep ==
  ASSUME FullType, [Next]_vars
  PROVE  ProcType'
  <1>1. CASE UNCHANGED procVars
    BY <1>1 DEF FullType, ProcType, procVars, Placed, PlaceOf, Fits, NextOf
  <1>2. ASSUME NEW p \in Procs, Crash(p) PROVE ProcType'
    BY <1>2, ReturnType DEF Crash, FullType
  <1> QED
    BY <1>1, <1>2, ExecuteProc, MailProc, SweepProc, ClerkProc
       DEF Next, vars, procVars, LoseTask, LoseMail

(***************************************************************************)
(* The types of the data.                                                  *)
(***************************************************************************)
LEMMA EnrollmentStep ==
  ASSUME FullType, [Next]_vars
  PROVE  EnrollmentType'
  <1> USE DEF EnrollmentType, SetEnrollment, SetMidway
  <1>1. CASE UNCHANGED cadenceVars
    BY <1>1 DEF FullType, cadenceVars
  <1>2. ASSUME NEW x \in Executors, NEW t \in job, Defer(x, t) PROVE EnrollmentType'
    BY <1>2 DEF Defer, Wakes, FullType
  <1>3. ASSUME NEW v \in Procs, Advance(v) \/ Schedule(v) \/ Stop(v) PROVE EnrollmentType'
    <2>1. CASE Advance(v)
      <3> DEFINE e == ref[v].enrollment
      <3>1. CASE SetEnrollment(e, "completed") /\ UNCHANGED <<current, midway>>
        BY <3>1 DEF FullType, EnrollmentStatuses, Ended
      <3>2. CASE /\ Owns(ref[v]) /\ current[e] < NumSteps
                 /\ current' = [current EXCEPT ![e] = @ + 1]
                 /\ SetMidway(e, TRUE) /\ UNCHANGED enr
        <4>1. e \in Enrollments /\ current[e] + 1 \in 1..NumSteps
          BY <3>2, CadenceAssumption DEF FullType, Owns
        <4> QED
          BY <3>2, <4>1 DEF FullType
      <3> QED
        BY <2>1, <3>1, <3>2, <1>1 DEF Advance
    <2>2. CASE Schedule(v)
      BY <1>3, <2>2 DEF Schedule, FullType
    <2>3. CASE Stop(v)
      BY <1>3, <2>3 DEF Stop, FullType, EnrollmentStatuses, Open
    <2> QED
      BY <1>3, <2>1, <2>2, <2>3
  <1>4. ASSUME NEW s \in Sweepers, EnsureJob(s) PROVE EnrollmentType'
    BY <1>4 DEF EnsureJob, FullType
  <1>5. ASSUME NEW c \in Clerks, NEW e \in Enrollments, Enroll(c, e) \/ Pause(c, e) \/ Resume(c, e)
        PROVE  EnrollmentType'
    BY <1>5 DEF Enroll, Pause, Resume, FullType, EnrollmentStatuses, Open
  <1>6. ASSUME NEW c \in Clerks, Unenroll(c) \/ SettleResume(c) PROVE EnrollmentType'
    BY <1>6 DEF Unenroll, SettleResume, FullType, EnrollmentStatuses, Ended
  <1> QED
    BY <1>1, <1>2, <1>3, <1>4, <1>5, <1>6
       DEF Next, vars, cadenceVars, Procs, Execute, Ignore, Wakes, Close, LockTask, Check,
       CreateRow,
           QueueSend, Throw, Unlock, Mail, TakeMail, PutBack, Accept, Refuse, Silent, Settle,
           Complete, CreateTask, GiveBack, SettleFails, Sweep, SweepStale, Reconcile, Redrive,
           RequeueTask, FindDrift, ReviveTask, Clerk, SkipPending, End, Restore, Reopen, Rejob,
           RunNow, RepSkip, Crash, LoseTask, LoseMail

\* Every step keeps the types of tasks, locks and rows.
LEMMA TaskStep ==
  ASSUME FullType, [Next]_vars
  PROVE  TaskType'
  <1> USE DEF TaskType, SetTask, SetLock, SetRow, TaskStatuses, RowStatuses
  <1>1. CASE UNCHANGED <<task, lock, row>>
    BY <1>1 DEF FullType
  <1>2. ASSUME NEW x \in Executors, NEW t \in job, Close(x, t) \/ LockTask(x, t) PROVE TaskType'
    BY <1>2 DEF Close, LockTask, Wakes, FullType
  <1>3. ASSUME NEW x \in Executors, CreateRow(x) PROVE TaskType'
    BY <1>3 DEF CreateRow, FullType, taskVars
  <1>4. ASSUME NEW x \in Executors, Unlock(x) PROVE TaskType'
    BY <1>4 DEF Unlock, FullType
  <1>5. ASSUME NEW v \in Mailers, NEW m \in mail, TakeMail(v, m[1], m[2]) PROVE TaskType'
    BY <1>5 DEF TakeMail, FullType, taskVars
  <1>6. ASSUME NEW v \in Mailers, PutBack(v) \/ Accept(v) \/ Refuse(v) \/ Silent(v) PROVE TaskType'
    <2>1. UNCHANGED <<task, lock>>
          /\ \E s \in {"queued", "sent", "dead", "unknown"} : SetRow(at[v], s)
      BY <1>6 DEF PutBack, Accept, Refuse, Silent, taskVars
    <2> QED
      BY <2>1 DEF FullType
  <1>7. ASSUME NEW v \in Procs, Complete(v) \/ CreateTask(v) \/ GiveBack(v) PROVE TaskType'
    BY <1>7 DEF Complete, CreateTask, GiveBack, FullType, taskVars
  <1>8. ASSUME NEW s \in Sweepers, NEW t \in Tasks, SweepStale(s, t) \/ Reconcile(s, t)
        PROVE TaskType'
    BY <1>8 DEF SweepStale, Reconcile, FullType, taskVars
  <1>9. ASSUME NEW s \in Sweepers, ReviveTask(s) PROVE TaskType'
    BY <1>9 DEF ReviveTask, FullType
  <1>10. ASSUME NEW c \in Clerks, SkipPending(c) \/ Restore(c) \/ Reopen(c) PROVE TaskType'
    BY <1>10 DEF SkipPending, Restore, Reopen, FullType
  <1>11. ASSUME NEW c \in Clerks, NEW t \in Tasks, RunNow(c, t) \/ RepSkip(c, t) PROVE TaskType'
    BY <1>11 DEF RunNow, RepSkip, FullType
  <1> QED
    BY <1>1, <1>2, <1>3, <1>4, <1>5, <1>6, <1>7, <1>8, <1>9, <1>10, <1>11
       DEF Next, vars, taskVars, Procs, Execute, Ignore, Defer, Wakes, Check,
           QueueSend, Throw, Mail, Settle, Advance, Schedule, Stop,
           SettleFails, Sweep, Redrive, RequeueTask, FindDrift, EnsureJob,
           Clerk, Enroll, Pause, Resume, End, Unenroll, Rejob, SettleResume, Crash, LoseTask,
           LoseMail

\* Every job in the queue is some task's.
LEMMA JobStep ==
  ASSUME FullType, [Next]_vars
  PROVE  job' \subseteq Tasks
  <1> USE DEF QueueTask, RetryTask
  <1>1. job \subseteq Tasks /\ ProcType
    BY DEF FullType, QueueType
  <1>2. CASE job' \subseteq job
    BY <1>1, <1>2
  <1>3. ASSUME NEW x \in Executors, Unlock(x) PROVE job' \subseteq Tasks
    <2>1. at[x] \in Tasks
      BY <1>1, <1>3, ProcAssumption, Stands DEF Unlock, Procs
    <2> QED
      BY <1>1, <1>3, <2>1 DEF Unlock
  <1>4. ASSUME NEW v \in Procs, Schedule(v) PROVE job' \subseteq Tasks
    BY <1>1, <1>4, Stands DEF Schedule
  <1>5. ASSUME NEW s \in Sweepers, EnsureJob(s) PROVE job' \subseteq Tasks
    <2>1. at[s] \in Tasks
      BY <1>1, <1>5, ProcAssumption, Stands DEF EnsureJob, Procs
    <2> QED
      BY <1>1, <1>5, <2>1 DEF EnsureJob
  <1>6. ASSUME NEW s \in Sweepers, NEW t \in Tasks, RequeueTask(s, t) PROVE job' \subseteq Tasks
    BY <1>1, <1>6 DEF RequeueTask
  <1>7. ASSUME NEW c \in Clerks, Rejob(c) PROVE job' \subseteq Tasks
    BY <1>1, <1>7, Stands DEF Rejob, Procs
  <1>8. ASSUME NEW c \in Clerks, NEW t \in Tasks, RunNow(c, t) PROVE job' \subseteq Tasks
    BY <1>1, <1>8 DEF RunNow
  <1>9. ASSUME NEW p \in Procs, Crash(p) PROVE job' \subseteq Tasks
    <2>1. p \in Executors => at[p] \in Tasks
      BY <1>1, <1>9, ProcAssumption, Stands DEF Crash
    <2> QED
      BY <1>1, <1>9, <2>1 DEF Crash
  <1> QED
    BY <1>2, <1>3, <1>4, <1>5, <1>6, <1>7, <1>8, <1>9
       DEF Next, vars, queues, Procs, Execute, Ignore, Defer, Wakes, Close, LockTask, Check,
       CreateRow,
           QueueSend, Throw, Mail, TakeMail, PutBack, Accept, Refuse, Silent, Settle,
           Complete, Advance, CreateTask, GiveBack, Stop, SettleFails, Sweep, SweepStale, Reconcile,
           Redrive, FindDrift, ReviveTask, Clerk, Enroll, Pause, Resume, SkipPending, End,
           Unenroll, Restore, Reopen, SettleResume, RepSkip, LoseTask, LoseMail

\* Every job of the outbound queue names a reference that fits its task.
LEMMA MailStep ==
  ASSUME FullType, [Next]_vars
  PROVE  /\ mail' \subseteq Tasks \X Refs
         /\ \A m \in mail' : Fits(m[1], m[2])
  <1> DEFINE Good(S) == S \subseteq Tasks \X Refs /\ \A m \in S : Fits(m[1], m[2])
  <1> SUFFICES Good(mail')
    OBVIOUS
  <1>0. Good(mail) /\ ProcType
    BY DEF FullType, QueueType
  <1>1. \A t \in Tasks, r \in Refs : Fits(t, r) => Good(mail \cup {<<t, r>>})
    BY <1>0
  <1>2. \A S \in SUBSET mail : Good(S)
    BY <1>0
  <1> HIDE DEF Good
  <1>3. CASE mail' \subseteq mail
    BY <1>2, <1>3
  <1>4. ASSUME NEW p \in Procs \ Clerks, pc[p] # "idle",
               mail' \in {mail, mail \cup {<<at[p], ref[p]>>}}
        PROVE  Good(mail')
    <2>1. at[p] \in Tasks /\ ref[p] \in Refs /\ Fits(at[p], ref[p])
      BY <1>0, <1>4, Stands
    <2> QED
      BY <1>0, <1>1, <1>4, <2>1
  <1>5. ASSUME NEW x \in Executors, QueueSend(x) PROVE Good(mail')
    <2>1. at[x] \in Tasks
      BY <1>0, <1>5, ProcAssumption, Stands DEF QueueSend, Procs
    <2> QED
      BY <1>1, <1>5, <2>1, RefToFits DEF QueueSend, QueueMail
  <1>6. ASSUME NEW v \in Mailers, PutBack(v) \/ Refuse(v) PROVE Good(mail')
    BY <1>4, <1>6, ProcAssumption DEF PutBack, Refuse, QueueMail, RetryMail, Procs
  <1>7. ASSUME NEW v \in Mailers \cup Sweepers, Stop(v) PROVE Good(mail')
    BY <1>3, <1>4, <1>7, ProcAssumption DEF Stop, RetryMail, Procs
  <1>8. ASSUME NEW s \in Sweepers, NEW t \in Tasks, Redrive(s, t) PROVE Good(mail')
    BY <1>1, <1>8, ResolvedFits DEF Redrive, QueueMail
  <1>9. ASSUME NEW p \in Procs, Crash(p) PROVE Good(mail')
    BY <1>3, <1>4, <1>9, ProcAssumption DEF Crash, RetryMail
  <1> QED
    BY <1>3, <1>5, <1>6, <1>7, <1>8, <1>9
       DEF Next, vars, queues, Execute, Ignore, Defer, Wakes, Close, LockTask, Check, CreateRow,
           Throw, Unlock, Mail, TakeMail, Accept, Silent, Settle,
           Complete, Advance, CreateTask, Schedule, GiveBack, SettleFails, Sweep, SweepStale,
           Reconcile,
           RequeueTask, FindDrift, ReviveTask, EnsureJob, Clerk, Enroll, Pause, Resume, SkipPending,
           End, Unenroll, Restore, Reopen, Rejob, SettleResume, RunNow, RepSkip, LoseTask, LoseMail

\* Every step keeps the types of the histories.
LEMMA HistoryStep ==
  ASSUME FullType, [Next]_vars
  PROVE  HistoryType'
  <1> USE CadenceAssumption DEF HistoryType, history, bounds, Fault, Operation, PicksUp
  <1>0. HistoryType /\ ProcType
    BY DEF FullType
  <1>1. CASE UNCHANGED <<delivered, repSkipped, ops, sweeps, faults>>
    BY <1>0, <1>1
  <1>2. CASE /\ UNCHANGED <<delivered, repSkipped>>
             /\ ops' \in 0..MaxOps /\ sweeps' \in 0..MaxSweeps /\ faults' \in 0..MaxFaults
    BY <1>0, <1>2
  <1>3. ASSUME NEW p \in Procs, Throw(p) \/ SettleFails(p) \/ Crash(p) PROVE HistoryType'
    BY <1>0, <1>3 DEF Throw, SettleFails, Crash
  <1>4. ASSUME NEW v \in Mailers, Accept(v) \/ Silent(v) PROVE HistoryType'
    BY <1>0, <1>4 DEF Accept, Silent
  <1>5. ASSUME NEW s \in Sweepers, NEW t, SweepStale(s, t) \/ Reconcile(s, t) \/ Redrive(s, t)
                                            \/ RequeueTask(s, t) \/ FindDrift(s, t)
        PROVE  HistoryType'
    BY <1>0, <1>5 DEF SweepStale, Reconcile, Redrive, RequeueTask, FindDrift
  <1>6. ASSUME NEW c \in Clerks, NEW e, Enroll(c, e) \/ Pause(c, e) \/ Resume(c, e) \/ End(c)
        PROVE  HistoryType'
    <2>1. UNCHANGED <<delivered, repSkipped, sweeps, faults>> /\ ops' \in {ops, ops + 1}
      BY <1>6 DEF Enroll, Pause, Resume, End
    <2>2. ops' = ops \/ (ops < MaxOps /\ ops' = ops + 1)
      BY <1>6, Zenon DEF Enroll, Pause, Resume, End
    <2>3. ops' \in 0..MaxOps
      BY <1>0, <2>2
    <2> QED
      BY <1>0, <1>2, <2>1, <2>3
  <1>7. ASSUME NEW c \in Clerks, Reopen(c) PROVE HistoryType'
    BY <1>0, <1>7 DEF Reopen
  <1>8. ASSUME NEW c \in Clerks, NEW t \in Tasks, RunNow(c, t) \/ RepSkip(c, t) PROVE HistoryType'
    <2>1. UNCHANGED <<delivered, sweeps, faults>> /\ ops < MaxOps /\ ops' = ops + 1
      BY <1>8 DEF RunNow, RepSkip
    <2>2. repSkipped' \in [Tasks -> BOOLEAN]
      BY <1>0, <1>8, Zenon DEF RunNow, RepSkip
    <2> QED
      BY <1>0, <2>1, <2>2
  <1>9. ASSUME NEW t, LoseTask(t) \/ LoseMail(t) PROVE HistoryType'
    BY <1>0, <1>9 DEF LoseTask, LoseMail
  <1> QED
    BY <1>1, <1>3, <1>4, <1>5, <1>6, <1>7, <1>8, <1>9
       DEF Next, vars, Procs, Execute, Ignore, Defer, Wakes, Close, LockTask, Check, CreateRow,
           QueueSend, Unlock, Mail, TakeMail, PutBack, Refuse, Settle, Complete, Advance,
           CreateTask,
           Schedule, GiveBack, Stop, Sweep, ReviveTask, EnsureJob, Clerk, SkipPending, Unenroll,
           Restore, Rejob, SettleResume

\* The types hold at first.
LEMMA InitType == Init => FullType
  <1> SUFFICES ASSUME Init PROVE FullType
    OBVIOUS
  <1>1. ProcType
    <2>1. \A p \in Procs : Placed(p, "idle", NoTask, NoRef)
      BY NoRefFits DEF Placed, PlaceOf, ExecutorPCs, MailerPCs, SweeperPCs, ClerkPCs
    <2> QED
      BY <2>1, NoRefFits DEF Init, ProcType, PCs
  <1>2. EnrollmentType /\ TaskType /\ QueueType /\ HistoryType
    BY CadenceAssumption DEF Init, EnrollmentType, TaskType, QueueType, HistoryType,
        EnrollmentStatuses,
       TaskStatuses, RowStatuses
  <1> QED
    BY <1>1, <1>2 DEF FullType

\* Every step keeps the types.
LEMMA TypeStep == FullType /\ [Next]_vars => FullType'
  BY ProcStep, EnrollmentStep, TaskStep, JobStep, MailStep, HistoryStep DEF FullType, QueueType

\* The types hold throughout.
LEMMA TypeInvariant == Spec => []FullType
  BY InitType, TypeStep, PTL DEF Spec

\* The cadence's rows, jobs and processes keep their types: a process that settles a step
\* holds a reference, one that creates a step's task has a step to create.
THEOREM TypeCorrect == Spec => []TypeOK
  <1>1. FullType => TypeOK
    BY DEF FullType, ProcType, EnrollmentType, TaskType, QueueType, HistoryType, TypeOK
  <1> QED
    BY <1>1, TypeInvariant, PTL

(***************************************************************************)
(* Messages: what a step does to one, and to whoever sends it              *)
(***************************************************************************)

\* A process that goes anywhere but into sending leaves the senders alone.
LEMMA BeginKeepsFlying ==
  ASSUME ProcType, NEW p \in Procs, NEW l \in PCs \ {"flying"}, NEW t, NEW r, Begin(p, l, t, r)
  PROVE  KeepFlying /\ pc'[p] # "flying"
  BY DEF ProcType, Begin, KeepFlying, Procs

\* A process that is not at its call goes on without ending one.
LEMMA GotoKeepsFlying ==
  ASSUME ProcType, NEW p \in Procs, NEW l \in PCs \ {"flying"}, Goto(p, l)
  PROVE  KeepFlying /\ pc'[p] # "flying"
  BY DEF ProcType, Goto, KeepFlying, Procs

\* Nor does a process that returns.
LEMMA ReturnKeepsFlying ==
  ASSUME ProcType, NEW p \in Procs, Return(p)
  PROVE  KeepFlying /\ pc'[p] # "flying"
  BY BeginKeepsFlying DEF Return, PCs

\* A mailer that takes a job leaves the rows, claims its own, or parks it.
LEMMA TakeMailRow ==
  ASSUME FullType, NEW v \in Mailers, NEW m \in mail, TakeMail(v, m[1], m[2])
  PROVE  \/ UNCHANGED <<row, delivered>> /\ KeepFlying
         \/ Claims(v, m[1])
         \/ Parks(m[1])
  <1> DEFINE l == Branch(row[m[1]])
  <1>1. v \in Procs /\ ProcType /\ m[1] \in Tasks /\ pc[v] = "idle" /\ UNCHANGED delivered
    BY DEF Procs, FullType, QueueType, TakeMail, history
  <1>2. l \in {"flying", "complete", "skip", "idle"} /\ (l = "flying" <=> row[m[1]] = "queued")
    BY DEF Branch
  <1>3. CASE l = "flying"
    <2>1. Begin(v, "flying", m[1], m[2]) /\ SetRow(m[1], "flying")
      BY <1>2, <1>3 DEF TakeMail
    <2> QED
      BY <1>1, <1>2, <1>3, <2>1 DEF Begin, Claims, ProcType, Procs
  <1>4. CASE l # "flying"
    <2>1. KeepFlying
      <3>1. CASE UNCHANGED procVars
        BY <3>1 DEF procVars, KeepFlying
      <3>2. CASE Begin(v, l, m[1], m[2])
        BY <1>1, <1>2, <1>4, <3>2, BeginKeepsFlying DEF PCs, Settling
      <3> QED
        BY <3>1, <3>2 DEF TakeMail
    <2> QED
      BY <1>1, <1>4, <2>1 DEF TakeMail, Parks
  <1> QED
    BY <1>3, <1>4

\* A call to the provider lands its row in a status that ends or retries it.
LEMMA MailRow ==
  ASSUME FullType, NEW v \in Mailers, PutBack(v) \/ Accept(v) \/ Refuse(v) \/ Silent(v)
  PROVE  \E s \in {"queued", "sent", "dead", "unknown"} : Lands(v, s)
  <1>1. v \in Procs /\ ProcType /\ pc[v] = "flying"
    BY DEF Procs, FullType, PutBack, Accept, Refuse, Silent
  <1>2. KeepFlying /\ pc'[v] # "flying"
    <2>1. Return(v) \/ Goto(v, "complete") \/ Goto(v, "skip")
      BY DEF PutBack, Accept, Refuse, Silent
    <2> QED
      BY <1>1, <2>1, ReturnKeepsFlying, GotoKeepsFlying DEF PCs, Settling
  <1>3. CASE PutBack(v) \/ Refuse(v)
    BY <1>1, <1>2, <1>3 DEF PutBack, Refuse, Lands, history
  <1>4. CASE Accept(v)
    BY <1>1, <1>2, <1>4 DEF Accept, Lands
  <1>5. CASE Silent(v)
    BY <1>1, <1>2, <1>5 DEF Silent, Lands
  <1> QED
    BY <1>3, <1>4, <1>5

\* Settling a step concerns no message.
LEMMA SettleRow ==
  ASSUME FullType, NEW v \in Mailers \cup Sweepers, Settle(v)
  PROVE  UNCHANGED <<row, delivered>> /\ KeepFlying
  <1>1. v \in Procs /\ ProcType
    BY DEF Procs, FullType
  <1>2. UNCHANGED <<row, delivered>>
    BY DEF Settle, Complete, Advance, CreateTask, Schedule, GiveBack, Stop, SettleFails, history
  <1>3. Return(v) \/ \E l \in {"advance", "next", "schedule", "stop"} : Goto(v, l)
    BY DEF Settle, Complete, Advance, CreateTask, Schedule, GiveBack, Stop, SettleFails
  <1> QED
    BY <1>1, <1>2, <1>3, ReturnKeepsFlying, GotoKeepsFlying DEF PCs, Settling

\* An executor touches a row only to create it.
LEMMA ExecuteRow ==
  ASSUME FullType, NEW x \in Executors, Execute(x)
  PROVE  (UNCHANGED <<row, delivered>> /\ KeepFlying) \/ Creates(x)
  <1>1. x \in Procs /\ ProcType
    BY DEF Procs, FullType
  <1>2. KeepFlying
    <2>1. CASE UNCHANGED procVars
      BY <2>1 DEF procVars, KeepFlying
    <2>2. CASE Return(x) \/ \E l \in ExecutorPCs : Goto(x, l)
      BY <1>1, <2>2, ReturnKeepsFlying, GotoKeepsFlying DEF ExecutorPCs, PCs
    <2>3. ASSUME NEW t \in job, LockTask(x, t) PROVE KeepFlying
      BY <1>1, <2>3, BeginKeepsFlying DEF LockTask, PCs
    <2>4. Check(x) => \E l \in ExecutorPCs : Goto(x, l)
      BY DEF Check, ExecutorPCs
    <2> QED
      BY <2>1, <2>2, <2>3, <2>4
         DEF Execute, Ignore, Defer, Close, CreateRow, QueueSend, Throw, Unlock, ExecutorPCs
  <1>3. CASE CreateRow(x)
    BY <1>2, <1>3 DEF CreateRow, Creates, history
  <1> QED
    BY <1>2, <1>3
       DEF Execute, Ignore, Defer, Close, LockTask, Wakes, Check, QueueSend, Throw, Unlock, history

\* A sweep parks a row, or resolves one that was parked.
LEMMA SweepRow ==
  ASSUME FullType, NEW s \in Sweepers, Sweep(s)
  PROVE  \/ UNCHANGED <<row, delivered>> /\ KeepFlying
         \/ \E t \in Tasks : Parks(t) \/ \E v \in {"sent", "dead"} : Resolves(t, v)
  <1>1. s \in Procs /\ ProcType
    BY DEF Procs, FullType
  <1>2. UNCHANGED procVars => KeepFlying
    BY DEF procVars, KeepFlying
  <1>3. ASSUME NEW t \in Tasks, SweepStale(s, t) PROVE Parks(t)
    BY <1>2, <1>3 DEF SweepStale, Parks, history
  <1>4. ASSUME NEW t \in Tasks, Reconcile(s, t) PROVE \E v \in {"sent", "dead"} : Resolves(t, v)
    <2>1. PICK v \in {"sent", "dead"} :
            /\ v = "sent" => delivered[t] > 0
            /\ SetRow(t, v)
            /\ UNCHANGED procVars \/ Begin(s, Branch(v), t, Resolved(t))
      BY <1>4 DEF Reconcile
    <2>2. Branch(v) \in PCs \ {"flying"}
      BY DEF Branch, PCs, Settling
    <2>3. KeepFlying
      BY <1>1, <1>2, <2>1, <2>2, BeginKeepsFlying
    <2> QED
      BY <1>4, <2>1, <2>3 DEF Reconcile, Resolves, history
  <1>5. ASSUME NEW t \in Tasks, Redrive(s, t) \/ RequeueTask(s, t)
        PROVE  UNCHANGED <<row, delivered>> /\ KeepFlying
    BY <1>2, <1>5 DEF Redrive, RequeueTask, history
  <1>6. ASSUME NEW e \in Enrollments, FindDrift(s, e)
        PROVE  UNCHANGED <<row, delivered>> /\ KeepFlying
    BY <1>1, <1>6, BeginKeepsFlying DEF FindDrift, PCs, history
  <1>7. CASE ReviveTask(s) \/ EnsureJob(s)
    BY <1>1, <1>7, ReturnKeepsFlying, GotoKeepsFlying DEF ReviveTask, EnsureJob, PCs, history
  <1>8. CASE Settle(s)
    BY <1>8, SettleRow
  <1> QED
    BY <1>3, <1>4, <1>5, <1>6, <1>7, <1>8 DEF Sweep

\* No clerk touches a row.
LEMMA ClerkRow ==
  ASSUME FullType, NEW c \in Clerks, Clerk(c)
  PROVE  UNCHANGED <<row, delivered>> /\ KeepFlying
  <1>1. c \in Procs /\ ProcType
    BY DEF Procs, FullType
  <1>2. UNCHANGED <<row, delivered>>
    BY DEF Clerk, Enroll, Pause, Resume, End, SkipPending, Unenroll, Restore, Reopen, Rejob,
       SettleResume, RunNow, RepSkip, CreateTask, Schedule, history
  <1>3. \/ UNCHANGED procVars \/ \E l \in ClerkPCs : Goto(c, l)
        \/ \E l \in ClerkPCs : \E t, r : Begin(c, l, t, r)
    BY DEF Clerk, Enroll, Pause, Resume, End, SkipPending, Unenroll, Restore, Reopen, Rejob,
       SettleResume, RunNow, RepSkip, CreateTask, Schedule, ClerkPCs, Return
  <1> QED
    BY <1>1, <1>2, <1>3, ReturnKeepsFlying, GotoKeepsFlying, BeginKeepsFlying
       DEF ClerkPCs, PCs, Settling, procVars, KeepFlying

\* What any step does to the messages.
LEMMA RowMoves ==
  ASSUME FullType, [Next]_vars
  PROVE  \/ UNCHANGED <<row, delivered>> /\ KeepFlying
         \/ \E x \in Executors : Creates(x)
         \/ \E v \in Mailers, t \in Tasks : Claims(v, t)
         \/ \E t \in Tasks : Parks(t)
         \/ \E v \in Mailers : \E s \in {"queued", "sent", "dead", "unknown"} : Lands(v, s)
         \/ \E t \in Tasks : \E s \in {"sent", "dead"} : Resolves(t, s)
  <1>0. ProcType /\ \A m \in mail : m[1] \in Tasks
    BY DEF FullType, QueueType
  <1>1. CASE UNCHANGED <<row, delivered, pc, at>>
    BY <1>1 DEF KeepFlying
  <1>2. ASSUME NEW x \in Executors, Execute(x)
        PROVE  (UNCHANGED <<row, delivered>> /\ KeepFlying) \/ Creates(x)
    BY <1>2, ExecuteRow
  <1>3. ASSUME NEW v \in Mailers, NEW m \in mail, TakeMail(v, m[1], m[2])
        PROVE  \/ UNCHANGED <<row, delivered>> /\ KeepFlying
               \/ \E t \in Tasks : Claims(v, t) \/ Parks(t)
    BY <1>0, <1>3, TakeMailRow
  <1>4. ASSUME NEW v \in Mailers, PutBack(v) \/ Accept(v) \/ Refuse(v) \/ Silent(v)
        PROVE  \E s \in {"queued", "sent", "dead", "unknown"} : Lands(v, s)
    BY <1>4, MailRow
  <1>5. ASSUME NEW v \in Mailers, Settle(v) PROVE UNCHANGED <<row, delivered>> /\ KeepFlying
    BY <1>5, SettleRow
  <1>6. ASSUME NEW p \in Procs, Crash(p) PROVE UNCHANGED <<row, delivered>> /\ KeepFlying
    BY <1>0, <1>6, ReturnKeepsFlying DEF Crash, history
  <1>7. ASSUME NEW t, LoseTask(t) \/ LoseMail(t) PROVE UNCHANGED <<row, delivered, pc, at>>
    BY <1>7 DEF LoseTask, LoseMail, history, procVars
  <1>8. UNCHANGED vars => UNCHANGED <<row, delivered, pc, at>>
    BY DEF vars
  <1>9. CASE \E v \in Mailers : Mail(v)
    BY <1>3, <1>4, <1>5, <1>9 DEF Mail
  <1> QED
    BY <1>1, <1>2, <1>6, <1>7, <1>8, <1>9, SweepRow, ClerkRow DEF Next

\* A message flies once, for one sender, and is delivered at most once.
LEMMA FlightStep ==
  ASSUME FullType, FlightInv, [Next]_vars
  PROVE  FlightInv'
  <1>0. /\ row \in [Tasks -> RowStatuses] /\ delivered \in [Tasks -> Nat]
        /\ \A v \in Mailers : v \in Procs /\ (pc[v] # "idle" => at[v] \in Tasks)
        /\ \A x \in Executors : x \in Procs /\ (pc[x] # "idle" => at[x] \in Tasks)
    <2>1. ProcType
      BY DEF FullType
    <2> QED
      BY <2>1, Stands, ProcAssumption DEF FullType, TaskType, HistoryType, Procs
  <1>1. KeepFlying => \A v \in Mailers, t \in Tasks : Flies(v, t)' => Flies(v, t)
    BY DEF KeepFlying, Flies
  <1>2. CASE UNCHANGED <<row, delivered>> /\ KeepFlying
    BY <1>1, <1>2 DEF FlightInv
  <1>3. ASSUME NEW x \in Executors, Creates(x) PROVE FlightInv'
    BY <1>0, <1>1, <1>3 DEF FlightInv, Creates
  <1>4. ASSUME NEW v \in Mailers, NEW u \in Tasks, Claims(v, u) PROVE FlightInv'
    <2>1. \A w \in Mailers, t \in Tasks : Flies(w, t)' => Flies(w, t) \/ (w = v /\ t = u)
      BY <1>4 DEF Claims, Flies
    <2>2. row' = [row EXCEPT ![u] = "flying"] /\ row[u] = "queued" /\ UNCHANGED delivered
      BY <1>4 DEF Claims, SetRow
    <2>3. \A w \in Mailers : ~Flies(w, u)
      BY <2>2 DEF FlightInv
    <2>4. \A t \in Tasks : row'[t] \in {"none", "queued"} => row[t] \in {"none", "queued"}
      BY <1>0, <2>2
    <2>5. \A t \in Tasks, w \in Mailers :
             Flies(w, t)' => row'[t] \notin {"none", "queued"} /\ delivered'[t] = 0
      <3> SUFFICES ASSUME NEW t \in Tasks, NEW w \in Mailers, Flies(w, t)'
                   PROVE  row'[t] \notin {"none", "queued"} /\ delivered'[t] = 0
        OBVIOUS
      <3>1. CASE t = u
        BY <1>0, <2>2, <3>1 DEF FlightInv
      <3>2. CASE t # u
        BY <1>0, <2>1, <2>2, <3>2 DEF FlightInv
      <3> QED
        BY <3>1, <3>2
    <2>6. \A t \in Tasks, w, x \in Mailers : Flies(w, t)' /\ Flies(x, t)' => w = x
      BY <2>1, <2>3 DEF FlightInv
    <2> QED
      BY <2>2, <2>4, <2>5, <2>6 DEF FlightInv
  <1>5. ASSUME NEW u \in Tasks, Parks(u) PROVE FlightInv'
    BY <1>0, <1>1, <1>5 DEF FlightInv, Parks, SetRow
  <1>6. ASSUME NEW v \in Mailers, NEW s \in {"queued", "sent", "dead", "unknown"}, Lands(v, s)
        PROVE  FlightInv'
    <2>0. PICK u \in Tasks : u = at[v]
      BY <1>0, <1>6 DEF Lands
    <2>1. u \in Tasks /\ Flies(v, u) /\ row' = [row EXCEPT ![u] = s] /\ KeepFlying
      BY <2>0, <1>6 DEF Lands, Flies, SetRow
    <2>2. \A w \in Mailers : ~Flies(w, u)'
      <3> SUFFICES ASSUME NEW w \in Mailers, Flies(w, u)' PROVE FALSE
        OBVIOUS
      <3>1. Flies(w, u)
        BY <1>1, <2>1
      <3>2. w = v
        BY <2>1, <3>1 DEF FlightInv
      <3> QED
        BY <1>6, <3>2 DEF Lands, Flies
    <2>3. delivered[u] = 0
      BY <2>1 DEF FlightInv
    <2>4. /\ \A t \in Tasks : t # u => delivered'[t] = delivered[t] /\ row'[t] = row[t]
          /\ row'[u] = s /\ delivered'[u] \in {0, 1} /\ (s = "queued" => delivered'[u] = 0)
      BY <1>0, <1>6, <2>0, <2>1, <2>3 DEF Lands
    <2> QED
      BY <1>1, <2>1, <2>2, <2>4 DEF FlightInv
  <1>7. ASSUME NEW u \in Tasks, NEW s \in {"sent", "dead"}, Resolves(u, s) PROVE FlightInv'
    BY <1>0, <1>1, <1>7 DEF FlightInv, Resolves, SetRow
  <1> QED
    BY <1>2, <1>3, <1>4, <1>5, <1>6, <1>7, RowMoves

(***************************************************************************)
(* Steps passed                                                            *)
(***************************************************************************)

\* Deliveries are not undone, and a sent message was delivered.
LEMMA SentStep ==
  ASSUME FullType, [Next]_vars, \A t \in Tasks : row[t] = "sent" => delivered[t] > 0
  PROVE  /\ \A t \in Tasks : delivered'[t] >= delivered[t]
         /\ \A t \in Tasks : row'[t] = "sent" => delivered'[t] > 0
         /\ \A k : Mailed(k) => Mailed(k)'
  <1>0. /\ row \in [Tasks -> RowStatuses] /\ delivered \in [Tasks -> Nat]
        /\ \A v \in Mailers : pc[v] # "idle" => at[v] \in Tasks
        /\ \A x \in Executors : pc[x] # "idle" => at[x] \in Tasks
    <2>1. ProcType
      BY DEF FullType
    <2> QED
      BY <2>1, Stands, ProcAssumption DEF FullType, TaskType, HistoryType, Procs
  <1>1. /\ \A t \in Tasks : delivered'[t] >= delivered[t]
        /\ \A t \in Tasks : row'[t] = "sent" => delivered'[t] > 0
    <2>1. ASSUME NEW v \in Mailers, NEW s \in {"queued", "sent", "dead", "unknown"}, Lands(v, s)
          PROVE  /\ \A t \in Tasks : delivered'[t] >= delivered[t]
                 /\ \A t \in Tasks : row'[t] = "sent" => delivered'[t] > 0
      BY <1>0, <2>1 DEF Lands, SetRow
    <2>2. ASSUME NEW x \in Executors, Creates(x)
          PROVE  /\ \A t \in Tasks : delivered'[t] >= delivered[t]
                 /\ \A t \in Tasks : row'[t] = "sent" => delivered'[t] > 0
      BY <1>0, <2>2 DEF Creates
    <2>3. ASSUME NEW v \in Mailers, NEW t \in Tasks, Claims(v, t)
          PROVE  /\ \A u \in Tasks : delivered'[u] >= delivered[u]
                 /\ \A u \in Tasks : row'[u] = "sent" => delivered'[u] > 0
      BY <1>0, <2>3 DEF Claims, SetRow
    <2>4. ASSUME NEW t \in Tasks, NEW s \in {"sent", "dead"}, Parks(t) \/ Resolves(t, s)
          PROVE  /\ \A u \in Tasks : delivered'[u] >= delivered[u]
                 /\ \A u \in Tasks : row'[u] = "sent" => delivered'[u] > 0
      BY <1>0, <2>4 DEF Parks, Resolves, SetRow
    <2>5. CASE UNCHANGED <<row, delivered>>
      BY <1>0, <2>5
    <2> QED
      BY <2>1, <2>2, <2>3, <2>4, <2>5, RowMoves
  <1>2. \A u \in Tasks : delivered[u] > 0 => delivered'[u] > 0
    <2>1. \A u \in Tasks : delivered'[u] \in Nat
      BY TypeStep DEF FullType, HistoryType
    <2> QED
      BY <1>0, <1>1, <2>1
  <1> QED
    BY <1>1, <1>2 DEF Mailed

\* An enrollment moves on, or is completed, by an advance that owns it.
LEMMA CurrentMoves ==
  ASSUME FullType, [Next]_vars
  PROVE  \/ /\ UNCHANGED current
            /\ \A e \in Enrollments : enr'[e] = "completed" => enr[e] = "completed"
         \/ \E v \in Mailers \cup Sweepers :
              LET e == ref[v].enrollment IN
              /\ pc[v] = "advance" /\ Owns(ref[v]) /\ e \in Enrollments
              /\ \/ UNCHANGED current /\ enr' = [enr EXCEPT ![e] = "completed"]
                    /\ current[e] = NumSteps
                 \/ current' = [current EXCEPT ![e] = @ + 1] /\ UNCHANGED enr
  <1> DEFINE Stays == /\ UNCHANGED current
                      /\ \A e \in Enrollments : enr'[e] = "completed" => enr[e] = "completed"
  <1>0. enr \in [Enrollments -> EnrollmentStatuses]
    BY DEF FullType, EnrollmentType
  <1>1. CASE UNCHANGED <<enr, current>>
    BY <1>1
  <1>2. ASSUME NEW v \in Mailers \cup Sweepers, Advance(v) PROVE
          \/ Stays
          \/ LET e == ref[v].enrollment IN
              /\ pc[v] = "advance" /\ Owns(ref[v]) /\ e \in Enrollments
              /\ \/ UNCHANGED current /\ enr' = [enr EXCEPT ![e] = "completed"]
                    /\ current[e] = NumSteps
                 \/ current' = [current EXCEPT ![e] = @ + 1] /\ UNCHANGED enr
    BY <1>2 DEF Advance, Owns, SetEnrollment, cadenceVars
  <1>3. ASSUME NEW v \in Procs, Stop(v) PROVE Stays
    BY <1>0, <1>3 DEF Stop
  <1>4. ASSUME NEW c \in Clerks, NEW e \in Enrollments, Enroll(c, e) \/ Pause(c, e) \/ Resume(c, e)
        PROVE  Stays
    BY <1>0, <1>4 DEF Enroll, Pause, Resume, SetEnrollment
  <1>5. ASSUME NEW c \in Clerks, Unenroll(c) PROVE Stays
    BY <1>0, <1>5 DEF Unenroll
  <1> HIDE DEF Stays
  <1>6. CASE ~Stays /\ \A v \in Mailers \cup Sweepers : ~Advance(v)
    <2>1. UNCHANGED <<enr, current>>
      BY <1>3, <1>4, <1>5, <1>6
         DEF Next, vars, cadenceVars, Procs, Execute, Ignore, Defer, Wakes, Close, LockTask, Check,
             CreateRow, QueueSend, Throw, Unlock, Mail, TakeMail, PutBack, Accept, Refuse, Silent,
             Settle, Complete, CreateTask, Schedule, GiveBack, SettleFails, Sweep, SweepStale,
             Reconcile, Redrive, RequeueTask, FindDrift, ReviveTask, EnsureJob, Clerk, SkipPending,
             End, Restore, Reopen, Rejob, SettleResume, RunNow, RepSkip, Crash, LoseTask, LoseMail
    <2> QED
      BY <1>1, <2>1
  <1> QED
    BY <1>2, <1>6 DEF Stays

\* What has been reached stays reached.
LEMMA ReachedStays ==
  ASSUME FullType, [Next]_vars, NEW t \in Tasks, Reached(t)
  PROVE  Reached(t)'
  <1>1. current \in [Enrollments -> 1..NumSteps] /\ t[1] \in Enrollments /\ t[2] \in 1..NumSteps
    BY TaskParts DEF FullType, EnrollmentType
  <1>2. current'[t[1]] = current[t[1]] \/ current'[t[1]] = current[t[1]] + 1
    BY <1>1, CurrentMoves
  <1> QED
    BY <1>1, <1>2, CadenceAssumption DEF Reached

\* An execution creates a message for the step its enrollment is on.
LEMMA CreateMoves ==
  ASSUME FullType, [Next]_vars, NEW x \in Executors, pc'[x] = "create"
  PROVE  \/ pc[x] = "create" /\ at'[x] = at[x]
         \/ at'[x] = at[x] /\ current[at[x][1]] = at[x][2] /\ at[x] \in Tasks
  <1>0. x \in Procs /\ ProcType /\ x \notin Mailers \cup Sweepers \cup Clerks
    BY ProcAssumption DEF FullType, Procs
  <1>1. CASE UNCHANGED <<pc, at>>
    BY <1>1
  <1>2. CASE Check(x)
    BY <1>0, <1>2, Stands DEF Check, Goto, ProcType
  <1>3. ASSUME NEW t \in job, Ignore(x, t) \/ Defer(x, t) \/ Close(x, t) \/ LockTask(x, t)
        PROVE  UNCHANGED <<pc, at>> \/ pc'[x] = "check"
    BY <1>0, <1>3 DEF Ignore, Defer, Close, LockTask, Begin, procVars, ProcType
  <1>4. CASE CreateRow(x) \/ QueueSend(x) \/ Throw(x) \/ Unlock(x)
    BY <1>0, <1>4 DEF CreateRow, QueueSend, Throw, Unlock, Goto, Return, Begin, ProcType
  <1>5. ASSUME NEW p \in Procs, Crash(p) PROVE pc'[x] = "idle" \/ (pc'[x] = pc[x] /\ at'[x] = at[x])
    BY <1>0, <1>5 DEF Crash, Return, Begin, ProcType
  <1>6. ASSUME NEW p \in Procs \ {x}, Execute(p) \/ Mail(p) \/ Sweep(p) \/ Clerk(p)
        PROVE  pc'[x] = pc[x] /\ at'[x] = at[x]
    <2>1. UNCHANGED <<pc, at>> \/ \E l, t, r : Begin(p, l, t, r) \/ Goto(p, l)
      BY <1>6
         DEF Execute, Ignore, Defer, Close, LockTask, Check,
             CreateRow, QueueSend, Throw, Unlock, Mail, TakeMail, PutBack, Accept, Refuse, Silent,
             Settle, Complete, Advance, CreateTask, Schedule, GiveBack, Stop, SettleFails, Sweep,
             SweepStale, Reconcile, Redrive, RequeueTask, FindDrift, ReviveTask, EnsureJob, Clerk,
             Enroll, Pause, Resume, SkipPending, Unenroll, Return, procVars,
             End, Restore, Reopen, Rejob, SettleResume, RunNow, RepSkip
    <2> QED
      BY <1>0, <1>6, <2>1 DEF Begin, Goto, ProcType
  <1>7. CASE Execute(x)
    BY <1>1, <1>2, <1>3, <1>4, <1>7 DEF Execute
  <1>8. UNCHANGED vars \/ (\E t : LoseTask(t) \/ LoseMail(t)) => UNCHANGED <<pc, at>>
    BY DEF vars, LoseTask, LoseMail, procVars
  <1> QED
    BY <1>0, <1>1, <1>5, <1>6, <1>7, <1>8 DEF Next, Procs

\* No message exists for a step that was not reached.
LEMMA ReachedStep ==
  ASSUME FullType, FlightInv, ReachedInv, [Next]_vars
  PROVE  ReachedInv'
  <1>0. /\ row \in [Tasks -> RowStatuses]
        /\ \A v \in Mailers : pc[v] # "idle" => at[v] \in Tasks
        /\ \A x \in Executors : pc[x] # "idle" => at[x] \in Tasks
    <2>1. ProcType
      BY DEF FullType
    <2> QED
      BY <2>1, Stands, ProcAssumption DEF FullType, TaskType, Procs
  <1>1. ASSUME NEW t \in Tasks, row'[t] # "none" PROVE Reached(t)'
    <2>1. CASE row[t] # "none"
      BY <2>1, ReachedStays DEF ReachedInv
    <2>2. CASE row[t] = "none"
      <3>1. ASSUME NEW x \in Executors, Creates(x) PROVE Reached(t)
        BY <1>0, <1>1, <2>2, <3>1 DEF Creates, ReachedInv
      <3>2. ASSUME NEW v \in Mailers, NEW u \in Tasks, Claims(v, u) PROVE FALSE
        BY <1>0, <1>1, <2>2, <3>2 DEF Claims, SetRow
      <3>3. ASSUME NEW u \in Tasks, NEW s \in {"sent", "dead"}, Parks(u) \/ Resolves(u, s)
            PROVE  FALSE
        BY <1>0, <1>1, <2>2, <3>3 DEF Parks, Resolves, SetRow
      <3>4. ASSUME NEW v \in Mailers, NEW s \in {"queued", "sent", "dead", "unknown"}, Lands(v, s)
            PROVE  FALSE
        <4>1. row[at[v]] # "none" /\ at[v] \in Tasks
          BY <1>0, <3>4 DEF Lands, FlightInv, Flies
        <4> QED
          BY <1>0, <1>1, <2>2, <3>4, <4>1 DEF Lands, SetRow
      <3> QED
        BY <1>1, <2>2, <3>1, <3>2, <3>3, <3>4, RowMoves, ReachedStays
    <2> QED
      BY <2>1, <2>2
  <1>2. ASSUME NEW x \in Executors, pc'[x] = "create" PROVE Reached(at[x])'
    <2>1. at'[x] = at[x] /\ at[x] \in Tasks /\ Reached(at[x])
      <3>1. CASE pc[x] = "create" /\ at'[x] = at[x]
        BY <1>0, <3>1 DEF ReachedInv
      <3>2. CASE at'[x] = at[x] /\ current[at[x][1]] = at[x][2] /\ at[x] \in Tasks
        <4>1. at[x][2] \in 1..NumSteps
          BY <3>2, TaskParts
        <4> QED
          BY <3>2, <4>1, CadenceAssumption DEF Reached
      <3> QED
        BY <1>2, <3>1, <3>2, CreateMoves
    <2>2. PICK t \in Tasks : t = at[x]
      BY <2>1
    <2>3. Reached(t)'
      BY <2>1, <2>2, ReachedStays
    <2> QED
      BY <2>1, <2>2, <2>3 DEF Reached
  <1> QED
    BY <1>1, <1>2 DEF ReachedInv

\* Whoever settles a sent message came from a message that was delivered.
LEMMA SettlingMoves ==
  ASSUME FullType, [Next]_vars, \A t \in Tasks : row[t] = "sent" => delivered[t] > 0,
         NEW p \in Procs, pc'[p] \in {"complete", "advance"}
  PROVE  \/ pc[p] \in {"complete", "advance"} /\ ref'[p] = ref[p]
         \/ \E t \in Tasks : ref'[p].task[2] = t[2] /\ delivered'[t] > 0
  <1>0. ProcType /\ \A m \in mail : m[1] \in Tasks /\ Fits(m[1], m[2])
    BY DEF FullType, QueueType
  <1> DEFINE Old == pc'[p] = pc[p] /\ ref'[p] = ref[p]
             New == \E t \in Tasks : ref'[p].task[2] = t[2] /\ delivered'[t] > 0
  <1> HIDE DEF New
  <1>1. ASSUME NEW m \in mail, p \in Mailers, TakeMail(p, m[1], m[2])
        PROVE  New
    <2>1. /\ Begin(p, Branch(row[m[1]]), m[1], m[2])
          /\ Branch(row[m[1]]) # "flying" => m[2] # NoRef
          /\ UNCHANGED delivered
      BY <1>0, <1>1 DEF TakeMail, procVars, history
    <2>2. pc'[p] = Branch(row[m[1]]) /\ ref'[p] = m[2]
      BY <1>0, <2>1 DEF Begin, ProcType
    <2>3. row[m[1]] = "sent" /\ m[2] # NoRef
      BY <2>1, <2>2 DEF Branch
    <2>4. m[1] \in Tasks /\ m[2].task[2] = m[1][2] /\ delivered'[m[1]] > 0
      BY <1>0, <2>1, <2>3 DEF Fits
    <2> QED
      BY <2>2, <2>4 DEF New
  <1>2. ASSUME p \in Mailers, Accept(p) PROVE New
    <2>1. p \notin Clerks
      BY <1>2, ProcAssumption
    <2>2. ref[p] # NoRef /\ UNCHANGED ref
      BY <1>0, <1>2 DEF Accept, Goto, Return, Begin, ProcType
    <2>3. at[p] \in Tasks /\ ref[p].task[2] = at[p][2]
      BY <1>0, <1>2, <2>1, <2>2, Stands DEF Accept, Fits
    <2>4. delivered'[at[p]] > 0
      BY <1>2, <2>3 DEF Accept, FullType, HistoryType
    <2> QED
      BY <2>2, <2>3, <2>4 DEF New
  <1>3. ASSUME p \in Sweepers, NEW t \in Tasks, Reconcile(p, t)
        PROVE  New
    <2>1. PICK v \in {"sent", "dead"} :
            /\ v = "sent" => delivered[t] > 0
            /\ \/ UNCHANGED procVars
               \/ Resolved(t) # NoRef /\ Begin(p, Branch(v), t, Resolved(t))
      BY <1>3 DEF Reconcile
    <2>2. pc[p] = "idle" /\ UNCHANGED delivered
      BY <1>3 DEF Reconcile, PicksUp, history
    <2>3. Resolved(t) # NoRef /\ Begin(p, Branch(v), t, Resolved(t))
      BY <2>1, <2>2 DEF procVars
    <2>4. pc'[p] = Branch(v) /\ ref'[p] = Resolved(t)
      BY <1>0, <2>3 DEF Begin, ProcType
    <2>5. v = "sent"
      BY <2>4 DEF Branch
    <2>6. ref'[p].task[2] = t[2] /\ delivered'[t] > 0
      BY <2>1, <2>2, <2>3, <2>4, <2>5, ResolvedFits DEF Fits
    <2> QED
      BY <2>6 DEF New
  <1>4. CASE Complete(p)
    BY <1>4 DEF Complete, Goto
  <1>5. CASE UNCHANGED procVars
    BY <1>5 DEF procVars
  <1>6. ASSUME NEW l \in PCs \ {"complete", "advance"}, NEW t, NEW r,
               Begin(p, l, t, r) \/ Goto(p, l)
        PROVE  FALSE
    BY <1>0, <1>6 DEF Begin, Goto, ProcType
  <1>7. ASSUME NEW q \in Procs \ {p}, NEW l, NEW t, NEW r, Begin(q, l, t, r) \/ Goto(q, l)
        PROVE  Old
    BY <1>0, <1>7 DEF Begin, Goto, ProcType
  <1>8. ASSUME NEW q \in Procs \ {p}, Execute(q) \/ Mail(q) \/ Sweep(q) \/ Clerk(q) \/ Crash(q)
        PROVE  Old
    <2>1. UNCHANGED procVars \/ \E l, t, r : Begin(q, l, t, r) \/ Goto(q, l)
      BY <1>8
         DEF Execute, Ignore, Defer, Close, LockTask, Check,
             CreateRow, QueueSend, Throw, Unlock, Mail, TakeMail, PutBack, Accept, Refuse, Silent,
             Settle, Complete, Advance, CreateTask, Schedule, GiveBack, Stop, SettleFails, Sweep,
             SweepStale, Reconcile, Redrive, RequeueTask, FindDrift, ReviveTask, EnsureJob, Clerk,
             Enroll, Pause, Resume, SkipPending, Unenroll, Return, procVars, Crash,
             End, Restore, Reopen, Rejob, SettleResume, RunNow, RepSkip
    <2> QED
      BY <1>5, <1>7, <2>1 DEF procVars
  <1>9. ASSUME Execute(p) \/ PutBack(p) \/ Refuse(p) \/ Silent(p) \/ Clerk(p) \/ Crash(p)
        PROVE  \/ UNCHANGED procVars
               \/ \E l \in PCs \ {"complete", "advance"} : \E t, r :
                    Begin(p, l, t, r) \/ Goto(p, l)
    BY <1>9
       DEF Execute, Ignore, Defer, Close, LockTask, Check, Crash,
           CreateRow, QueueSend, Throw, Unlock, PutBack, Refuse, Silent,
           CreateTask, Schedule, Clerk, Enroll, Pause, Resume, SkipPending, Unenroll, Return,
           End, Restore, Reopen, Rejob, SettleResume, RunNow, RepSkip, PCs, Settling
  <1>10. ASSUME Advance(p) \/ CreateTask(p) \/ Schedule(p) \/ GiveBack(p) \/ Stop(p)
               \/ SettleFails(p)
        PROVE  \E l \in PCs \ {"complete", "advance"} : \E t, r : Begin(p, l, t, r) \/ Goto(p, l)
    BY <1>10
       DEF Advance, CreateTask, Schedule, GiveBack, Stop, SettleFails, Return, PCs, Settling
  <1>11. ASSUME NEW t, SweepStale(p, t) \/ Redrive(p, t) \/ RequeueTask(p, t) \/ FindDrift(p, t)
                        \/ ReviveTask(p) \/ EnsureJob(p)
        PROVE  \/ UNCHANGED procVars
               \/ \E l \in PCs \ {"complete", "advance"} : \E u, r :
                    Begin(p, l, u, r) \/ Goto(p, l)
    BY <1>11 DEF SweepStale, Redrive, RequeueTask, FindDrift, ReviveTask, EnsureJob, Return, PCs
  <1>12. Settle(p) => Old \/ (ref'[p] = ref[p] /\ pc[p] \in {"complete", "advance"})
    BY <1>4, <1>6, <1>10 DEF Settle, Complete, Goto
  <1>13. CASE Execute(p) \/ Clerk(p) \/ Crash(p)
    BY <1>5, <1>6, <1>9, <1>13 DEF procVars
  <1>14. CASE p \in Mailers /\ Mail(p)
    BY <1>1, <1>2, <1>5, <1>6, <1>9, <1>12, <1>14 DEF Mail, New, procVars
  <1>15. CASE p \in Sweepers /\ Sweep(p)
    BY <1>3, <1>5, <1>6, <1>11, <1>12, <1>15 DEF Sweep, New, procVars
  <1>16. UNCHANGED vars \/ (\E t : LoseTask(t) \/ LoseMail(t)) => UNCHANGED procVars
    BY DEF vars, LoseTask, LoseMail, procVars
  <1> QED
    BY <1>5, <1>8, <1>13, <1>14, <1>15, <1>16 DEF Next, Procs

\* Every step keeps the steps passed earned.
LEMMA EarnedStep ==
  ASSUME FullType, EarnedInv, [Next]_vars
  PROVE  EarnedInv'
  <1>0. /\ \A t \in Tasks : t[1] \in Enrollments /\ t[2] \in 1..NumSteps
        /\ current \in [Enrollments -> 1..NumSteps]
        /\ enr \in [Enrollments -> EnrollmentStatuses]
    BY TaskParts DEF FullType, EnrollmentType
  <1>1. /\ \A t \in Tasks : row'[t] = "sent" => delivered'[t] > 0
        /\ \A k : Mailed(k) => Mailed(k)'
    BY SentStep DEF EarnedInv
  <1>2. ASSUME NEW t \in Tasks, t[2] < current'[t[1]] \/ enr'[t[1]] = "completed"
        PROVE  Mailed(t[2])'
    <2>1. SUFFICES Mailed(t[2])
      BY <1>1
    <2>2. CASE t[2] < current[t[1]] \/ enr[t[1]] = "completed"
      BY <2>2 DEF EarnedInv
    <2>3. CASE ~(t[2] < current[t[1]] \/ enr[t[1]] = "completed")
      <3>1. PICK v \in Mailers \cup Sweepers :
              LET e == ref[v].enrollment IN
              /\ pc[v] = "advance" /\ Owns(ref[v]) /\ e \in Enrollments
              /\ \/ UNCHANGED current /\ enr' = [enr EXCEPT ![e] = "completed"]
                    /\ current[e] = NumSteps
                 \/ current' = [current EXCEPT ![e] = @ + 1] /\ UNCHANGED enr
        BY <1>0, <1>2, <2>3, CurrentMoves
      <3>2. t[1] = ref[v].enrollment /\ t[2] = current[t[1]]
        BY <1>0, <1>2, <2>3, <3>1, CadenceAssumption
      <3>3. t[2] = ref[v].task[2]
        BY <3>1, <3>2 DEF Owns
      <3>4. Mailed(ref[v].task[2])
        BY <3>1 DEF EarnedInv, Procs
      <3> QED
        BY <3>3, <3>4
    <2> QED
      BY <2>2, <2>3
  <1>3. ASSUME NEW p \in Procs, pc'[p] \in {"complete", "advance"}
        PROVE  Mailed(ref[p].task[2])'
    <2>1. CASE pc[p] \in {"complete", "advance"} /\ ref'[p] = ref[p]
      <3>1. PICK k : k = ref[p].task[2]
        OBVIOUS
      <3>2. Mailed(k)'
        BY <1>1, <2>1, <3>1 DEF EarnedInv
      <3> QED
        BY <2>1, <3>1, <3>2 DEF Mailed
    <2>2. CASE \E t \in Tasks : ref'[p].task[2] = t[2] /\ delivered'[t] > 0
      BY <2>2 DEF Mailed
    <2> QED
      BY <1>3, <2>1, <2>2, SettlingMoves DEF EarnedInv
  <1> QED
    BY <1>1, <1>2, <1>3 DEF EarnedInv, Mailed

Inv == FullType /\ EarnedInv /\ FlightInv /\ ReachedInv

\* The invariant holds at first, and every step keeps it.
LEMMA Invariant == Spec => []Inv
  <1>1. Init => EarnedInv /\ FlightInv /\ ReachedInv
    BY TaskParts, CadenceAssumption
       DEF Init, EarnedInv, FlightInv, ReachedInv, Flies, Tasks, Enrollments, Procs
  <1>2. Inv /\ [Next]_vars => Inv'
    BY TypeStep, EarnedStep, FlightStep, ReachedStep DEF Inv
  <1>3. Init => Inv
    BY <1>1, InitType DEF Inv
  <1> QED
    BY <1>2, <1>3, PTL DEF Spec

(***************************************************************************)
(* What holds of every cadence                                             *)
(***************************************************************************)

\* A step is behind its cadence only if an email of that step was taken, this
\* enrollment's or another's of the lead.
StepWasMailed == \A t \in Tasks : Behind(t) => Mailed(t[2])

\* No step's email of an enrollment is taken twice.
MailedOnce == \A t \in Tasks : delivered[t] <= 1

\* An email goes out for the step its enrollment is on, or late, when another
\* enrollment's email of that step has stood in for it; never early.
InOrderAcross ==
  [][\A t \in Tasks : delivered'[t] # delivered[t] =>
       \/ t[2] = current[t[1]]
       \/ t[2] < current[t[1]] /\ \E u \in Tasks \ {t} : u[2] = t[2] /\ delivered[u] > 0]_vars

\* What the invariant says of rows and mail.
LEMMA InvImplies == Inv => StepWasMailed /\ MailedOnce
  BY DEF Inv, EarnedInv, FlightInv, StepWasMailed, MailedOnce, Behind

\* With one enrollment the email of a step is the task's own.
LEMMA OneEnrollment ==
  ASSUME MaxEnrollments = 1, NEW t \in Tasks, NEW u \in Tasks, u[2] = t[2]
  PROVE  u = t
  <1>1. t[1] = 1 /\ u[1] = 1
    BY DEF Tasks, Enrollments
  <1> QED
    BY <1>1, TaskParts

\* A delivery is of a message never delivered before, for a step that was reached.
LEMMA DeliveryInOrder ==
  ASSUME Inv, [Next]_vars, NEW t \in Tasks, delivered'[t] # delivered[t]
  PROVE  /\ delivered[t] = 0
         /\ \/ t[2] = current[t[1]]
            \/ t[2] < current[t[1]] /\ \E u \in Tasks \ {t} : u[2] = t[2] /\ delivered[u] > 0
  <1>0. FullType /\ EarnedInv /\ FlightInv /\ ReachedInv
    BY DEF Inv
  <1>1. delivered \in [Tasks -> Nat]
    BY <1>0 DEF FullType, HistoryType
  <1>2. PICK v \in Mailers : pc[v] = "flying" /\ at[v] = t
    <2>1. PICK v \in Mailers, s \in {"queued", "sent", "dead", "unknown"} : Lands(v, s)
      BY <1>0, RowMoves DEF Creates, Claims, Parks, Resolves
    <2> QED
      BY <1>1, <2>1 DEF Lands
  <1>3. delivered[t] = 0 /\ Reached(t)
    BY <1>0, <1>2 DEF FlightInv, Flies, ReachedInv
  <1>4. CASE t[2] < current[t[1]]
    <2>1. Mailed(t[2])
      BY <1>0, <1>4 DEF EarnedInv
    <2> QED
      BY <1>3, <1>4, <2>1 DEF Mailed
  <1>5. current[t[1]] \in 1..NumSteps /\ t[2] \in 1..NumSteps
    BY <1>0, TaskParts DEF FullType, EnrollmentType
  <1> QED
    BY <1>3, <1>4, <1>5, CadenceAssumption DEF Reached

\* However a lead is enrolled, paused, resumed and enrolled again, a cadence passes a
\* step only after the provider took an email of that step.
THEOREM PassedStepsWereMailed == Spec => []StepWasMailed
  BY Invariant, InvImplies, PTL

\* Redrives, sweeps, crashes and late answers do not send one step's email twice.
THEOREM EachStepMailedOnce == Spec => []MailedOnce
  BY Invariant, InvImplies, PTL

\* Emails go out in the order of the steps, but for those another enrollment's email
\* has overtaken.
THEOREM InOrder == Spec => InOrderAcross
  <1>1. Inv /\ [Next]_vars =>
          [\A t \in Tasks : delivered'[t] # delivered[t] =>
             \/ t[2] = current[t[1]]
             \/ t[2] < current[t[1]]
                /\ \E u \in Tasks \ {t} : u[2] = t[2] /\ delivered[u] > 0]_vars
    BY DeliveryInOrder
  <1> QED
    BY <1>1, Invariant, PTL DEF Spec, InOrderAcross

\* In a lead's only enrollment a step is behind the cadence only if the provider took that
\* step's email (releaseSequenceStep).
THEOREM AdvanceEarned ==
  ASSUME MaxEnrollments = 1
  PROVE  Spec => []AdvanceIsEarned
  <1>1. Inv => AdvanceIsEarned
    <2> SUFFICES ASSUME Inv, NEW t \in Tasks, Behind(t) PROVE delivered[t] > 0
      BY DEF AdvanceIsEarned
    <2>1. PICK u \in Tasks : u[2] = t[2] /\ delivered[u] > 0
      BY InvImplies DEF StepWasMailed, Mailed
    <2> QED
      BY <2>1, OneEnrollment
  <1> QED
    BY <1>1, Invariant, PTL

\* In a lead's only enrollment no email is sent for a step the cadence has passed, or has
\* not reached, however late a job is requeued, redriven or resumed.
THEOREM OrderKept ==
  ASSUME MaxEnrollments = 1
  PROVE  Spec => SentInOrder
  <1>1. Inv /\ [Next]_vars =>
          [\A t \in Tasks : delivered'[t] # delivered[t] => t[2] = current[t[1]]]_vars
    <2> SUFFICES ASSUME Inv, [Next]_vars, NEW t \in Tasks, delivered'[t] # delivered[t]
                 PROVE  t[2] = current[t[1]]
      OBVIOUS
    <2> QED
      BY DeliveryInOrder, OneEnrollment
  <1> QED
    BY <1>1, Invariant, PTL DEF Spec, SentInOrder
=============================================================================
