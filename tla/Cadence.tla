-------------------------------- MODULE Cadence --------------------------------
(***************************************************************************)
(* One lead on one email cadence: its successive enrollments, the task of  *)
(* each step, the jobs that execute tasks (workers/sequence.ts), the       *)
(* emails they queue and what settles them (workers/email.ts,              *)
(* lib/sequences/stepOutcome.ts), the nightly sweeps                       *)
(* (workers/maintenance.ts) and the reps who pause, resume, end, skip and  *)
(* re-enroll.                                                              *)
(*                                                                         *)
(* One action is one database statement with the reads that decide it, or  *)
(* one provider call.  Every step is an email the CRM sends itself.        *)
(*                                                                         *)
(* Abstractions.  Due dates pass freely: whatever waits may be due.  The   *)
(* claim of a row and its crashes are OutboundSend's; here a row is        *)
(* queued, flying, unknown, sent or dead.  A task's lock may be stale at   *)
(* any moment.  Left out: steps completed by hand and the advance by       *)
(* lead+sequence that follows them, the fields the lead caches, and the    *)
(* bulk pause of a closed lead.                                            *)
(***************************************************************************)
EXTENDS Naturals, FiniteSets

CONSTANTS
  MaxEnrollments,  \* occurrences of the cadence, one after another
  NumSteps,        \* steps of the sequence
  Executors,       \* executions of SEQUENCE_EXECUTE_TASK
  Mailers,         \* executions of EMAIL_SEND
  Sweepers,        \* the maintenance worker (concurrency 1)
  Clerks,          \* requests of reps, and replies that stop a cadence
  MaxOps,          \* bound: clerk operations after the first enrollment
  MaxSweeps,       \* bound: rows, tasks and enrollments the sweeps pick up
  MaxFaults        \* bound: crashes, failed writes, lost jobs

ASSUME CadenceAssumption ==
  /\ MaxEnrollments \in Nat \ {0} /\ NumSteps \in Nat \ {0}
  /\ MaxOps \in Nat /\ MaxSweeps \in Nat /\ MaxFaults \in Nat

\* Four kinds of process: an execution is none of the others.
ASSUME ProcAssumption ==
  /\ Executors \cap (Mailers \cup Sweepers \cup Clerks) = {}
  /\ Mailers \cap (Sweepers \cup Clerks) = {}
  /\ Sweepers \cap Clerks = {}

Enrollments == 1..MaxEnrollments
\* enrollmentStepTaskId: a task is named by its occurrence and its step.
Tasks == Enrollments \X (1..NumSteps)
Procs == Executors \cup Mailers \cup Sweepers \cup Clerks

VARIABLES
  enr,        \* SequenceEnrollment.status
  current,    \* SequenceEnrollment.currentStep
  midway,     \* lastEvaluatedAt < lastTransitionAt: "mid-resume"
  task, lock, \* Task.status and lockedAt of each step's task
  row,        \* OutboundMessage.status of each task's message
  job,        \* SEQUENCE_EXECUTE_TASK jobs waiting, by task
  mail,       \* EMAIL_SEND jobs waiting: the row and its step reference
  pc, at, ref, \* each process: where, on which task or row, for which step
  delivered,  \* history: how often the provider took the row
  repSkipped, \* history: a rep skipped the task, and nobody resumed since
  ops, sweeps, faults

cadenceVars == <<enr, current, midway>>
taskVars == <<task, lock>>
queues == <<job, mail>>
procVars == <<pc, at, ref>>
history == <<delivered, repSkipped>>
bounds == <<ops, sweeps, faults>>
vars == <<enr, current, midway, task, lock, row, job, mail, pc, at, ref,
          delivered, repSkipped, ops, sweeps, faults>>

(***************************************************************************)
(* Values                                                                  *)
(***************************************************************************)
Open == {"active", "paused"}  \* the statuses that occupy the lead
Ended == {"completed", "unenrolled"}
EnrollmentStatuses == {"none"} \cup Open \cup Ended
TaskStatuses == {"absent", "pending", "completed", "skipped"}
RowStatuses == {"none", "queued", "flying", "unknown", "sent", "dead"}

\* SequenceStepRef: the task that a send settles, and the enrollment; an
\* enrollment of 0 is a reference that names none.
NoTask == <<0, 0>>
NoRef == [task |-> NoTask, enrollment |-> 0]
RefTo(t) == [task |-> t, enrollment |-> t[1]]
Refs == [task : Enrollments \X (0..NumSteps) \cup {NoTask}, enrollment : 0..MaxEnrollments]

Settling == {"complete", "advance", "next", "schedule", "skip", "stop"}
PCs == Settling \cup
  {"idle", "check", "create", "send", "unlock", "rollback", "flying",
   "revive", "ensure", "pausing", "end", "skip_all", "end_again", "restore", "reopen", "rejob", "settle"}

TypeOK ==
  /\ enr \in [Enrollments -> EnrollmentStatuses]
  /\ current \in [Enrollments -> 1..NumSteps]
  /\ midway \in [Enrollments -> BOOLEAN]
  /\ task \in [Tasks -> TaskStatuses]
  /\ lock \in [Tasks -> BOOLEAN]
  /\ row \in [Tasks -> RowStatuses]
  /\ job \subseteq Tasks
  /\ mail \subseteq Tasks \X Refs
  /\ pc \in [Procs -> PCs]
  /\ at \in [Procs -> Tasks \cup {NoTask}]
  /\ ref \in [Procs -> Refs]
  /\ delivered \in [Tasks -> Nat]
  /\ repSkipped \in [Tasks -> BOOLEAN]
  /\ ops \in 0..MaxOps
  /\ sweeps \in 0..MaxSweeps
  /\ faults \in 0..MaxFaults

Init ==
  /\ enr = [e \in Enrollments |-> "none"]
  /\ current = [e \in Enrollments |-> 1]
  /\ midway = [e \in Enrollments |-> FALSE]
  /\ task = [t \in Tasks |-> "absent"]
  /\ lock = [t \in Tasks |-> FALSE]
  /\ row = [t \in Tasks |-> "none"]
  /\ job = {} /\ mail = {}
  /\ pc = [p \in Procs |-> "idle"]
  /\ at = [p \in Procs |-> NoTask]
  /\ ref = [p \in Procs |-> NoRef]
  /\ delivered = [t \in Tasks |-> 0]
  /\ repSkipped = [t \in Tasks |-> FALSE]
  /\ ops = 0 /\ sweeps = 0 /\ faults = 0

(***************************************************************************)
(* Shared effects                                                          *)
(***************************************************************************)
Goto(p, l) == pc' = [pc EXCEPT ![p] = l] /\ UNCHANGED <<at, ref>>
Begin(p, l, t, r) ==
  /\ pc' = [pc EXCEPT ![p] = l]
  /\ at' = [at EXCEPT ![p] = t]
  /\ ref' = [ref EXCEPT ![p] = r]
Return(p) == Begin(p, "idle", NoTask, NoRef)

SetTask(t, s) == task' = [task EXCEPT ![t] = s]
SetRow(t, s) == row' = [row EXCEPT ![t] = s]
SetEnrollment(e, s) == enr' = [enr EXCEPT ![e] = s]
SetLock(t, b) == lock' = [lock EXCEPT ![t] = b]
SetMidway(e, b) == midway' = [midway EXCEPT ![e] = b]

QueueTask(t) == job' = job \cup {t}
QueueMail(t, r) == mail' = mail \cup {<<t, r>>}

\* The handler threw, or its process died: the job is retried or spent.
RetryTask(t) == job' \in {job, job \cup {t}}
RetryMail(t, r) == mail' \in {mail, mail \cup {<<t, r>>}}

Fault == faults < MaxFaults /\ faults' = faults + 1

OpenEnrollments == {e \in Enrollments : enr[e] \in Open}

(***************************************************************************)
(* handleExecuteTask: from a task's job to its email job.                  *)
(***************************************************************************)

\* The task, the enrollment and the eligibility rules are read.  A job whose
\* task is closed or whose occurrence has stopped does nothing.
Wakes(x, t) ==
  /\ pc[x] = "idle" /\ t \in job
  /\ UNCHANGED <<enr, current, row, mail, history, bounds>>
Runnable(t) == task[t] = "pending" /\ enr[t[1]] = "active"

\* Nothing to do, or a person is needed.
Ignore(x, t) ==
  /\ Wakes(x, t)
  /\ job' = job \ {t}
  /\ UNCHANGED <<midway, taskVars, procVars>>

\* Not yet: lastEvaluatedAt, and the same job for a later time.
Defer(x, t) ==
  /\ Wakes(x, t) /\ Runnable(t)
  /\ SetMidway(t[1], FALSE)
  /\ UNCHANGED <<taskVars, job, procVars>>

\* Never: a closing block skips the task and leaves the enrollment alone.
Close(x, t) ==
  /\ Wakes(x, t) /\ Runnable(t) /\ ~lock[t]
  /\ SetTask(t, "skipped")
  /\ job' = job \ {t}
  /\ UNCHANGED <<midway, lock, procVars>>

\* Allowed, which it is only on the enrollment's current step.
LockTask(x, t) ==
  /\ Wakes(x, t) /\ Runnable(t) /\ current[t[1]] = t[2] /\ ~lock[t]
  /\ SetLock(t, TRUE)
  /\ job' = job \ {t}
  /\ Begin(x, "check", t, RefTo(t))
  /\ UNCHANGED <<midway, task>>

\* Ownership and step again, as close to the send as there is.
Check(x) ==
  LET t == at[x] IN
  /\ pc[x] = "check"
  /\ Goto(x, IF enr[t[1]] = "active" /\ current[t[1]] = t[2] THEN "create" ELSE "unlock")
  /\ UNCHANGED <<cadenceVars, taskVars, row, queues, history, bounds>>

\* createOutboundMessage: an existing row is left alone.
CreateRow(x) ==
  /\ pc[x] = "create"
  /\ row' = [row EXCEPT ![at[x]] = IF @ = "none" THEN "queued" ELSE @]
  /\ Goto(x, "send")
  /\ UNCHANGED <<cadenceVars, taskVars, queues, history, bounds>>

\* The task stays pending and locked until the outcome is known.
QueueSend(x) ==
  /\ pc[x] = "send"
  /\ QueueMail(at[x], RefTo(at[x]))
  /\ Return(x)
  /\ UNCHANGED <<cadenceVars, taskVars, row, job, history, bounds>>

Throw(x) ==
  /\ pc[x] \in {"check", "create", "send"} /\ Fault
  /\ Goto(x, "rollback")
  /\ UNCHANGED <<cadenceVars, taskVars, row, queues, history, ops, sweeps>>

Unlock(x) ==
  LET t == at[x] IN
  /\ pc[x] \in {"unlock", "rollback"}
  /\ lock' = [lock EXCEPT ![t] = @ /\ task[t] # "pending"]
  /\ IF pc[x] = "rollback" THEN RetryTask(t) ELSE UNCHANGED job
  /\ Return(x)
  /\ UNCHANGED <<cadenceVars, task, row, mail, history, bounds>>

Execute(x) ==
  \/ \E t \in job : Ignore(x, t) \/ Defer(x, t) \/ Close(x, t) \/ LockTask(x, t)
  \/ Check(x) \/ CreateRow(x) \/ QueueSend(x) \/ Throw(x) \/ Unlock(x)

(***************************************************************************)
(* handleEmailSend: the outcome of a send.                                 *)
(***************************************************************************)

\* Mutant: a sent row is no longer terminal.
BranchResends(s) ==
  IF s \in {"queued", "sent"} THEN "flying" ELSE IF s = "dead" THEN "skip" ELSE "idle"

\* What the worker does with the row it reads.
Branch(s) ==
  IF s = "queued" THEN "flying"
  ELSE IF s = "sent" THEN "complete"
  ELSE IF s = "dead" THEN "skip"
  ELSE "idle"

\* The claim, or what is left to settle; a claim past its lease is parked.
TakeMail(v, t, r) ==
  LET l == Branch(row[t]) IN
  /\ pc[v] = "idle" /\ <<t, r>> \in mail
  /\ mail' = mail \ {<<t, r>>}
  /\ \/ l = "flying" /\ SetRow(t, "flying")
     \/ row[t] = "flying" /\ SetRow(t, "unknown")
     \/ l # "flying" /\ UNCHANGED row
  /\ IF l = "idle" \/ (l # "flying" /\ r = NoRef) THEN UNCHANGED procVars
     ELSE Begin(v, l, t, r)
  /\ UNCHANGED <<cadenceVars, taskVars, job, history, bounds>>

\* A limit or a blocked mailbox: back in the queue, the step left open.
PutBack(v) ==
  /\ pc[v] = "flying"
  /\ SetRow(at[v], "queued")
  /\ \/ QueueMail(at[v], ref[v])
     \/ UNCHANGED mail
  /\ Return(v)
  /\ UNCHANGED <<cadenceVars, taskVars, job, history, bounds>>

\* The provider's yes and the write of "sent"; a crash between the two is a
\* silent provider.
Accept(v) ==
  /\ pc[v] = "flying"
  /\ delivered' = [delivered EXCEPT ![at[v]] = @ + 1]
  /\ SetRow(at[v], "sent")
  /\ IF ref[v] = NoRef THEN Return(v) ELSE Goto(v, "complete")
  /\ UNCHANGED <<cadenceVars, taskVars, queues, repSkipped, bounds>>

\* Refused for now (retryable) or for good: the step is given back.
Refuse(v) ==
  /\ pc[v] = "flying"
  /\ \/ SetRow(at[v], "queued") /\ ref[v] = NoRef
        /\ Return(v) /\ RetryMail(at[v], ref[v])
     \/ SetRow(at[v], "dead") /\ ref[v] = NoRef
        /\ Return(v) /\ UNCHANGED mail
     \/ \E s \in {"queued", "dead"} : SetRow(at[v], s) /\ ref[v] # NoRef
        /\ Goto(v, "skip") /\ UNCHANGED mail
  /\ UNCHANGED <<cadenceVars, taskVars, job, history, bounds>>

\* No answer: it may or may not have been delivered.
Silent(v) ==
  /\ pc[v] = "flying"
  /\ delivered' \in {delivered, [delivered EXCEPT ![at[v]] = @ + 1]}
  /\ SetRow(at[v], "unknown")
  /\ Return(v)
  /\ UNCHANGED <<cadenceVars, taskVars, queues, repSkipped, bounds>>

(***************************************************************************)
(* finalizeSequenceStep and releaseSequenceStep, run by the mail worker    *)
(* and by the sweeps.  Any error is logged and swallowed.                  *)
(***************************************************************************)

\* The sent counters, left out, hang off the compare-and-set; the advance does not.
Complete(v) ==
  LET t == ref[v].task IN
  /\ pc[v] = "complete"
  /\ IF task[t] = "pending"
     THEN SetTask(t, "completed") /\ SetLock(t, FALSE)
     ELSE UNCHANGED taskVars
  /\ Goto(v, "advance")
  /\ UNCHANGED <<cadenceVars, row, queues, delivered, repSkipped, bounds>>

\* Mutant: an advance that forgets which step was completed.
OwnsAnyStep(r) ==
  LET e == r.enrollment IN e \in Enrollments /\ enr[e] = "active"

\* advanceOccurrence: the enrollment named is still active on this step.
Owns(r) ==
  LET e == r.enrollment IN
  e \in Enrollments /\ enr[e] = "active" /\ current[e] = r.task[2]

\* Mutant: the last step is not told apart.
AdvancePastEnd(v) ==
  LET e == ref[v].enrollment IN
  /\ pc[v] = "advance"
  /\ IF Owns(ref[v])
     THEN current' = [current EXCEPT ![e] = @ + 1] /\ SetMidway(e, TRUE) /\ Goto(v, "next")
     ELSE UNCHANGED <<current, midway>> /\ Return(v)
  /\ UNCHANGED <<enr, taskVars, row, queues, history, bounds>>

\* Completed, moved on or, once the occurrence has changed, nothing.
Advance(v) ==
  LET e == ref[v].enrollment IN
  /\ pc[v] = "advance"
  /\ \/ /\ Owns(ref[v]) /\ current[e] = NumSteps
        /\ SetEnrollment(e, "completed")
        /\ Return(v)
        /\ UNCHANGED <<current, midway>>
     \/ /\ Owns(ref[v]) /\ current[e] < NumSteps
        /\ current' = [current EXCEPT ![e] = @ + 1]
        /\ SetMidway(e, TRUE)
        /\ Goto(v, "next")
        /\ UNCHANGED enr
     \/ ~Owns(ref[v]) /\ Return(v) /\ UNCHANGED cadenceVars
  /\ UNCHANGED <<taskVars, row, queues, history, bounds>>

\* createTaskForStep: the deterministic id makes a second creator reuse the
\* row it finds, whatever its status.
NextOf(r) == <<r.enrollment, r.task[2] + 1>>

CreateTask(v) ==
  LET t == NextOf(ref[v]) IN
  /\ pc[v] = "next"
  /\ task' = [task EXCEPT ![t] = IF @ = "absent" THEN "pending" ELSE @]
  /\ Goto(v, "schedule")
  /\ UNCHANGED <<cadenceVars, lock, row, queues, history, bounds>>

\* applyStepScheduling, not strict: an active enrollment is marked evaluated
\* and the job queued in any case.
Schedule(v) ==
  LET t == NextOf(ref[v]) IN
  /\ pc[v] = "schedule"
  /\ midway' = [midway EXCEPT ![t[1]] = @ /\ enr[t[1]] # "active"]
  /\ QueueTask(t)
  /\ Return(v)
  /\ UNCHANGED <<enr, current, taskVars, row, mail, history, bounds>>

GiveBack(v) ==
  LET t == ref[v].task IN
  /\ pc[v] = "skip"
  /\ IF task[t] = "pending" THEN SetTask(t, "skipped") /\ SetLock(t, FALSE)
     ELSE UNCHANGED taskVars
  /\ Goto(v, "stop")
  /\ UNCHANGED <<cadenceVars, row, queues, history, bounds>>

\* The enrollment named, or, if none is, any of this lead and sequence.  A
\* refused row is queued again: the error is thrown on and BullMQ retries.
Stop(v) ==
  LET e == ref[v].enrollment
      targets == IF e = 0 THEN Enrollments ELSE {e}
  IN
  /\ pc[v] = "stop"
  /\ enr' = [d \in Enrollments |->
               IF d \in targets /\ enr[d] = "active" THEN "paused" ELSE enr[d]]
  /\ IF v \in Mailers /\ row[at[v]] = "queued" THEN RetryMail(at[v], ref[v])
     ELSE UNCHANGED mail
  /\ Return(v)
  /\ UNCHANGED <<current, midway, taskVars, row, job, history, bounds>>

SettleFails(v) ==
  /\ pc[v] \in Settling /\ Fault
  /\ Return(v)
  /\ UNCHANGED <<cadenceVars, taskVars, row, queues, history, ops, sweeps>>

Settle(v) ==
  \/ Complete(v) \/ Advance(v) \/ CreateTask(v) \/ Schedule(v)
  \/ GiveBack(v) \/ Stop(v) \/ SettleFails(v)

Mail(v) ==
  \/ \E m \in mail : TakeMail(v, m[1], m[2])
  \/ PutBack(v) \/ Accept(v) \/ Refuse(v) \/ Silent(v)
  \/ Settle(v)

(***************************************************************************)
(* The nightly sweeps.                                                     *)
(***************************************************************************)

PicksUp(s) == pc[s] = "idle" /\ sweeps < MaxSweeps /\ sweeps' = sweeps + 1

\* resolveStepRefForOutbound: the newest open or completed task of that
\* step of the sequence, and the enrollment that occupies the lead.
StepTasks(t) == {u \in Tasks : u[2] = t[2] /\ task[u] \in {"pending", "completed"}}
Resolved(t) ==
  IF StepTasks(t) = {} THEN NoRef
  ELSE [task |-> CHOOSE u \in StepTasks(t) : \A w \in StepTasks(t) : u[1] >= w[1],
        enrollment |-> IF OpenEnrollments = {} THEN 0
                       ELSE CHOOSE e \in OpenEnrollments : TRUE]

\* repairStaleSending: a claim past its lease.
SweepStale(s, t) ==
  /\ PicksUp(s) /\ row[t] = "flying"
  /\ SetRow(t, "unknown")
  /\ UNCHANGED <<cadenceVars, taskVars, queues, procVars, history, ops, faults>>

\* Mutant: the message is resolved and the step behind it forgotten.
ReconcileMessageOnly(s, t) ==
  /\ PicksUp(s) /\ row[t] = "unknown"
  /\ \E verdict \in {"sent", "dead"} :
       (verdict = "sent" => delivered[t] > 0) /\ SetRow(t, verdict)
  /\ UNCHANGED <<cadenceVars, taskVars, queues, procVars, history, ops, faults>>

\* reconcileAmbiguousSends: evidence of delivery, or the end of the grace,
\* and then whatever step the row resolves to.
Reconcile(s, t) ==
  /\ PicksUp(s) /\ row[t] = "unknown"
  /\ \E verdict \in {"sent", "dead"} :
       /\ verdict = "sent" => delivered[t] > 0
       /\ SetRow(t, verdict)
       /\ IF Resolved(t) = NoRef THEN UNCHANGED procVars
          ELSE Begin(s, Branch(verdict), t, Resolved(t))
  /\ UNCHANGED <<cadenceVars, taskVars, queues, history, ops, faults>>

\* repairStalePendingOutbound: a claimable row, with a reference made anew.
Redrive(s, t) ==
  /\ PicksUp(s) /\ row[t] = "queued"
  /\ QueueMail(t, Resolved(t))
  /\ UNCHANGED <<cadenceVars, taskVars, row, job, procVars, history, ops, faults>>

\* repairMissingDelayed: an overdue task that nobody has locked.
RequeueTask(s, t) ==
  /\ PicksUp(s) /\ task[t] = "pending" /\ ~lock[t]
  /\ QueueTask(t)
  /\ UNCHANGED <<cadenceVars, taskVars, row, mail, procVars, history, ops, faults>>

\* repairEnrollmentScheduleDrift: an active enrollment with no pending task
\* for its step.  A grace keeps one that is being created out of it.
BeingCreated(e) ==
  \E c \in Clerks : pc[c] \in {"next", "schedule"} /\ ref[c].enrollment = e
FindDrift(s, e) ==
  LET t == <<e, current[e]>> IN
  /\ PicksUp(s) /\ ~BeingCreated(e) /\ enr[e] = "active" /\ task[t] # "pending"
  /\ Begin(s, "revive", t, RefTo(t))
  /\ UNCHANGED <<cadenceVars, taskVars, row, queues, history, ops, faults>>

\* ensureOccurrenceStepTask: created, or reset from whatever closed it.
ReviveTask(s) ==
  LET t == at[s] IN
  /\ pc[s] = "revive"
  /\ SetTask(t, "pending")
  /\ lock' = [lock EXCEPT ![t] = @ /\ task[t] = "pending"]
  /\ Goto(s, "ensure")
  /\ UNCHANGED <<cadenceVars, row, queues, history, bounds>>

\* Strict: refused once the enrollment has stopped.  ensureJob adds nothing
\* when the job of that payload has already run.
EnsureJob(s) ==
  LET t == at[s] IN
  /\ pc[s] = "ensure"
  /\ IF enr[t[1]] = "active"
     THEN SetMidway(t[1], FALSE) /\ job' \in {job, job \cup {t}}
     ELSE UNCHANGED <<midway, job>>
  /\ Return(s)
  /\ UNCHANGED <<enr, current, taskVars, row, mail, history, bounds>>

Sweep(s) ==
  \/ \E t \in Tasks : SweepStale(s, t) \/ Reconcile(s, t) \/ Redrive(s, t) \/ RequeueTask(s, t)
  \/ \E e \in Enrollments : FindDrift(s, e)
  \/ ReviveTask(s) \/ EnsureJob(s)
  \/ Settle(s)

(***************************************************************************)
(* Reps, and replies that stop a cadence.                                  *)
(***************************************************************************)
Operation == ops < MaxOps /\ ops' = ops + 1

\* prepareEnrollment and finalizeFirstStep: occupancyKey admits one open
\* enrollment of this lead on this sequence.  The first is not counted.
Enroll(c, e) ==
  /\ pc[c] = "idle"
  /\ enr[e] = "none" /\ \A d \in 1..(e - 1) : enr[d] \in Ended
  /\ IF e = 1 THEN UNCHANGED ops ELSE Operation
  /\ SetEnrollment(e, "active")
  /\ Begin(c, "next", NoTask, [task |-> <<e, 0>>, enrollment |-> e])
  /\ UNCHANGED <<current, midway, taskVars, row, queues, history, sweeps, faults>>

\* pauseEnrollmentOccurrence.
Pause(c, e) ==
  /\ pc[c] = "idle" /\ enr[e] = "active" /\ Operation
  /\ SetEnrollment(e, "paused")
  /\ Begin(c, "pausing", NoTask, NoRef)
  /\ UNCHANGED <<current, midway, taskVars, row, queues, history, sweeps, faults>>

\* Pausing and ending close every pending task of the lead's sequence.
SkipPending(c) ==
  /\ pc[c] \in {"pausing", "skip_all"}
  /\ task' = [t \in Tasks |-> IF task[t] = "pending" THEN "skipped" ELSE task[t]]
  /\ IF pc[c] = "pausing" THEN Return(c) ELSE Goto(c, "end_again")
  /\ UNCHANGED <<cadenceVars, lock, row, queues, history, bounds>>

\* The unenroll route ends the enrollment first; a stop that must not be
\* resumed goes straight to unenrollLead, which skips the tasks first.
End(c) ==
  /\ pc[c] = "idle" /\ OpenEnrollments # {} /\ Operation
  /\ \E l \in {"end", "skip_all"} : Begin(c, l, NoTask, NoRef)
  /\ UNCHANGED <<cadenceVars, taskVars, row, queues, history, sweeps, faults>>

Unenroll(c) ==
  /\ pc[c] \in {"end", "end_again"}
  /\ enr' = [e \in Enrollments |-> IF enr[e] \in Open THEN "unenrolled" ELSE enr[e]]
  /\ IF pc[c] = "end" THEN Goto(c, "skip_all") ELSE Return(c)
  /\ UNCHANGED <<current, midway, taskVars, row, queues, history, bounds>>

\* resumeEnrollmentOccurrence: a paused enrollment, or an active one whose
\* watermark says that an earlier resume was interrupted.
Resume(c, e) ==
  /\ pc[c] = "idle" /\ Operation
  /\ enr[e] = "paused" \/ (enr[e] = "active" /\ midway[e])
  /\ SetEnrollment(e, "active")
  /\ SetMidway(e, TRUE)
  /\ Begin(c, "restore", NoTask, [task |-> <<e, 0>>, enrollment |-> e])
  /\ UNCHANGED <<current, taskVars, row, queues, history, sweeps, faults>>

\* finishResume reads where the enrollment is, makes its task if there is
\* none, and reads the task.
Restore(c) ==
  LET e == ref[c].enrollment
      t == <<e, current[e]>>
  IN
  /\ pc[c] = "restore"
  /\ task' = [task EXCEPT ![t] = IF @ = "absent" THEN "pending" ELSE @]
  /\ Begin(c, IF task[t] = "completed" THEN "settle" ELSE "reopen", t, ref[c])
  /\ UNCHANGED <<cadenceVars, lock, row, queues, history, bounds>>

\* The task as it was read decides; the write does not look again.
Reopen(c) ==
  /\ pc[c] = "reopen"
  /\ SetTask(at[c], "pending") /\ SetLock(at[c], FALSE)
  /\ repSkipped' = [repSkipped EXCEPT ![at[c]] = FALSE]
  /\ Goto(c, "rejob")
  /\ UNCHANGED <<cadenceVars, row, queues, delivered, bounds>>

\* rescheduleSequenceTask, refused while an execution of the same job is in
\* flight (a sweep's job has another identity); the watermark then stays.
Rejob(c) ==
  /\ pc[c] = "rejob"
  /\ \/ QueueTask(at[c]) /\ Goto(c, "settle")
     \/ (\E x \in Executors : at[x] = at[c]) /\ Return(c) /\ UNCHANGED job
  /\ UNCHANGED <<cadenceVars, taskVars, row, mail, history, bounds>>

SettleResume(c) ==
  LET e == ref[c].enrollment IN
  /\ pc[c] = "settle"
  /\ midway' = [midway EXCEPT ![e] = @ /\ enr[e] # "active"]
  /\ Return(c)
  /\ UNCHANGED <<enr, current, taskVars, row, queues, history, bounds>>

\* A lock past its ten minutes, which an execution does not last.
StaleLock(t) == lock[t] /\ \A x \in Executors : at[x] # t

\* The task run-now picks: the current step's, or failing that the earliest
\* pending one, when it is this enrollment's.
OccurrenceTask(t) ==
  LET sitting == <<t[1], current[t[1]]>> IN
  \/ t = sitting
  \/ /\ sitting \notin Tasks \/ task[sitting] # "pending"
     /\ \A u \in Tasks : task[u] = "pending" => t[2] <= u[2]

\* The run-now route and runEmailStepNow: refused unless the enrollment is
\* active, and while the provider may have the email; a stale lock is released.
RunNow(c, t) ==
  /\ pc[c] = "idle" /\ Operation
  /\ enr[t[1]] = "active" /\ OccurrenceTask(t)
  /\ task[t] = "pending" /\ row[t] \notin {"flying", "unknown"}
  /\ \/ UNCHANGED lock
     \/ StaleLock(t) /\ SetLock(t, FALSE)
  /\ QueueTask(t)
  /\ UNCHANGED <<cadenceVars, task, row, mail, procVars, history, sweeps, faults>>

\* A rep skips the task of an automatic step: refused while its email is
\* with the mail worker or its task freshly locked.
\* Taking the job off the queue is best effort.
RepSkip(c, t) ==
  /\ pc[c] = "idle" /\ Operation
  /\ task[t] = "pending" /\ (~lock[t] \/ StaleLock(t))
  /\ row[t] \notin {"queued", "flying", "unknown"}
  /\ SetTask(t, "skipped")
  /\ job' \in {job, job \ {t}}
  /\ repSkipped' = [repSkipped EXCEPT ![t] = TRUE]
  /\ UNCHANGED <<cadenceVars, lock, row, mail, procVars, delivered, sweeps, faults>>

Clerk(c) ==
  \/ \E e \in Enrollments : Enroll(c, e) \/ Pause(c, e) \/ Resume(c, e)
  \/ End(c) \/ SkipPending(c) \/ Unenroll(c)
  \/ Restore(c) \/ Reopen(c) \/ Rejob(c) \/ SettleResume(c)
  \/ \E t \in Tasks : RunNow(c, t) \/ RepSkip(c, t)
  \/ CreateTask(c) \/ Schedule(c)

(***************************************************************************)
(* The environment.                                                        *)
(***************************************************************************)

\* A process dies; a job it was running is retried or spent.
Crash(p) ==
  /\ pc[p] # "idle" /\ Fault
  /\ IF p \in Executors THEN RetryTask(at[p]) ELSE UNCHANGED job
  /\ IF p \in Mailers THEN RetryMail(at[p], ref[p]) ELSE UNCHANGED mail
  /\ Return(p)
  /\ UNCHANGED <<cadenceVars, taskVars, row, history, ops, sweeps>>

\* An enqueue that failed, or a queue that was flushed.
LoseTask(t) ==
  /\ t \in job /\ Fault
  /\ job' = job \ {t}
  /\ UNCHANGED <<cadenceVars, taskVars, row, mail, procVars, history, ops, sweeps>>

LoseMail(m) ==
  /\ m \in mail /\ Fault
  /\ mail' = mail \ {m}
  /\ UNCHANGED <<cadenceVars, taskVars, row, job, procVars, history, ops, sweeps>>

(***************************************************************************)
(* Specification                                                           *)
(***************************************************************************)
Next ==
  \/ \E x \in Executors : Execute(x)
  \/ \E v \in Mailers : Mail(v)
  \/ \E s \in Sweepers : Sweep(s)
  \/ \E c \in Clerks : Clerk(c)
  \/ \E p \in Procs : Crash(p)
  \/ \E t \in job : LoseTask(t)
  \/ \E m \in mail : LoseMail(m)

Spec == Init /\ [][Next]_vars

(***************************************************************************)
(* Properties                                                              *)
(***************************************************************************)

\* A step is behind its cadence only if the provider took its email: "a
\* cadence must never send step 2 referencing a step 1 that was refused"
\* (releaseSequenceStep).
Behind(t) ==
  \/ enr[t[1]] \in EnrollmentStatuses \ {"none"} /\ t[2] < current[t[1]]
  \/ enr[t[1]] = "completed"
AdvanceIsEarned == \A t \in Tasks : Behind(t) => delivered[t] > 0

\* Out of reach of every sweep: the active cadence waits for a task that is
\* pending and locked, and no job, handler or open row will ever settle it.
Quiet == job = {} /\ mail = {} /\ \A p \in Procs : pc[p] = "idle"
Stranded(t) ==
  /\ Quiet
  /\ enr[t[1]] = "active" /\ current[t[1]] = t[2]
  /\ task[t] = "pending" /\ lock[t]
  /\ row[t] \notin {"queued", "flying", "unknown"}

\* "Losing the bookkeeping is recoverable - repairEnrollmentScheduleDrift
\* re-schedules a stalled step" (finalizeSequenceStep).
SentStepIsRecoverable == \A t \in Tasks : row[t] = "sent" => ~Stranded(t)

\* After a refused send "a human decides whether to resend or drop the
\* prospect", and resuming brings the task back (releaseSequenceStep): the
\* step that a resume queues again has a row the mail worker would send.
ResumedStepCanBeSent ==
  \A c \in Clerks : pc[c] = "rejob" => row[at[c]] # "dead"

\* A step that a rep skipped stays unsent unless somebody resumes it: "a
\* job that fires later finds a skipped task and stops" (autoSendGuard.ts).
SkipIsFinal ==
  [][\A t \in Tasks : delivered'[t] # delivered[t] => ~repSkipped[t]]_vars

\* Emails go out in the order of the steps: whatever is requeued, redriven
\* or resumed late is never sent once the cadence has passed it.
SentInOrder ==
  [][\A t \in Tasks : delivered'[t] # delivered[t] => t[2] = current[t[1]]]_vars

=============================================================================
