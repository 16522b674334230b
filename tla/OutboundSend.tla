----------------------------- MODULE OutboundSend -----------------------------
(***************************************************************************)
(* The outbound email pipeline: rows of OutboundMessage, the email workers *)
(* that send them (workers/email.ts handleEmailSend), the nightly repair   *)
(* sweeps that recover them (workers/maintenance.ts) and the composer that *)
(* takes them back (lib/email/composedSend.ts).                            *)
(*                                                                         *)
(* The database has no interactive transactions, so every await of the     *)
(* handler is a point where another worker, the sweeper or the composer    *)
(* may run.  One action is one database statement or one provider call.    *)
(*                                                                         *)
(* Abstractions.  Time is three flags: the age of a claim against the      *)
(* 30-minute lease and the 24-hour grace, scheduledFor in the future or    *)
(* not, and a cap deferral in the future or not.  A cadence step is open   *)
(* (task pending, enrollment active), advanced, or stopped (task skipped,  *)
(* enrollment paused); Cadence.tla models it statement by statement.  The  *)
(* reasons a check refuses are not told apart when they write the same     *)
(* row; mailbox quota is MailboxQuota.tla.                                 *)
(***************************************************************************)
EXTENDS Naturals, FiniteSets

CONSTANTS
  Messages,     \* OutboundMessage rows
  Workers,      \* concurrent executions of handleEmailSend
  NoRow,        \* a worker that handles no job
  MaxRedrives,  \* MAX_OUTBOUND_REDRIVES
  MaxFaults     \* bound: crashes, stalled jobs and lost jobs, together

ASSUME NoRowAssumption == NoRow \notin Messages
ASSUME BoundsAssumption == MaxRedrives \in Nat \ {0} /\ MaxFaults \in Nat

VARIABLES
  status,        \* OutboundMessage.status
  claimAge,      \* now - claimedAt: within the lease, past it, past the grace
  attemptCount,  \* OutboundMessage.attemptCount, saturated at MaxRedrives
  evidence,      \* proof of delivery on the row: none, an answer, the provider's id
  scheduled,     \* is scheduledFor in the future?
  deferred,      \* does errorMessage carry a deferral time in the future?
  step,          \* the cadence step behind the row; "none" for a composed one
  job,           \* EMAIL_SEND jobs waiting: "now", or "later" (delayed)
  pc, row,       \* where each worker is, and the row it handles
  sweep,         \* what the running sweep still has to do to each row it read
  nextSweep,     \* the repair the sweeper runs next
  dryRun,        \* effectiveDryRun of the tenant, fixed at deployment
  delivered,     \* history: how often the provider took the message
  faults         \* crashes, stalls and losses so far

rowVars == <<status, claimAge, attemptCount, evidence, scheduled, deferred>>
workerVars == <<pc, row>>
sweepVars == <<sweep, nextSweep>>
vars == <<status, claimAge, attemptCount, evidence, scheduled, deferred, step,
          job, pc, row, sweep, nextSweep, dryRun, delivered, faults>>

(***************************************************************************)
(* Values                                                                  *)
(***************************************************************************)
Claimable == {"pending", "failed"}
Statuses == Claimable \cup
  {"sending", "sent", "reconciliation_required", "permanently_failed",
   "cancelled", "bounced"}

Ages == {"live", "stale", "expired"}
Older(age) == IF age = "live" THEN "stale" ELSE "expired"

\* repliedAt or bouncedAt is an answer; providerMessageId is the id.
Proofs == {"none", "answer", "id"}
HasId(m) == evidence[m] = "id"

Steps == {"none", "open", "advanced", "stopped"}
Jobs == {"now", "later"}

\* A worker past its claim that may still call the provider.
BeforeSend == {"checks", "calling"}
\* The provider has refused: the worker knows nothing was delivered.
Refused == {"limited", "dead", "rejected"}
\* The provider took the message, or may have.
AfterSend == {"accepted", "ambiguous"}
Owning == BeforeSend \cup Refused \cup AfterSend
PCs == Owning \cup
  {"idle", "claim", "recover", "park", "requeue", "finalize", "release", "giveback"}

Sweeps == {"stale-sending", "outbound-reconcile", "stale-pending-outbound"}
SweepWrites == {"settle", "park", "confirm", "abandon"}
SweepTasks == SweepWrites \cup {"none", "redrive", "finalize", "release"}

TypeOK ==
  /\ status \in [Messages -> Statuses]
  /\ claimAge \in [Messages -> Ages]
  /\ attemptCount \in [Messages -> 0..MaxRedrives]
  /\ evidence \in [Messages -> Proofs]
  /\ scheduled \in [Messages -> BOOLEAN]
  /\ deferred \in [Messages -> BOOLEAN]
  /\ step \in [Messages -> Steps]
  /\ job \in [Messages -> SUBSET Jobs]
  /\ pc \in [Workers -> PCs]
  /\ row \in [Workers -> Messages \cup {NoRow}]
  /\ \A w \in Workers : pc[w] # "idle" => row[w] \in Messages
  /\ sweep \in [Messages -> SweepTasks]
  /\ nextSweep \in Sweeps
  /\ dryRun \in BOOLEAN
  /\ delivered \in [Messages -> Nat]
  /\ faults \in 0..MaxFaults

(***************************************************************************)
(* Rows exist, pending, with the job that createOutboundMessage's caller   *)
(* queued.  They are older than the hour after which the redrive sweep     *)
(* looks at them.  A row with no step is a composed one (manual, reply).   *)
(***************************************************************************)
Init ==
  /\ status = [m \in Messages |-> "pending"]
  /\ claimAge = [m \in Messages |-> "live"]
  /\ attemptCount = [m \in Messages |-> 0]
  /\ evidence = [m \in Messages |-> "none"]
  /\ scheduled = [m \in Messages |-> FALSE]
  /\ deferred = [m \in Messages |-> FALSE]
  /\ step \in [Messages -> {"none", "open"}]
  /\ job = [m \in Messages |-> {"now"}]
  /\ pc = [w \in Workers |-> "idle"]
  /\ row = [w \in Workers |-> NoRow]
  /\ sweep = [m \in Messages |-> "none"]
  /\ nextSweep = "stale-sending"
  /\ dryRun \in BOOLEAN
  /\ delivered = [m \in Messages |-> 0]
  /\ faults = 0

(***************************************************************************)
(* Shared effects                                                          *)
(***************************************************************************)
Composed(m) == step[m] = "none"

\* finalizeSequenceStep and releaseSequenceStep, as a compare-and-set.
Advance(m) == step' = [step EXCEPT ![m] = IF @ = "open" THEN "advanced" ELSE @]
Stop(m) == step' = [step EXCEPT ![m] = IF @ = "open" THEN "stopped" ELSE @]

Queue(m, kind) == job' = [job EXCEPT ![m] = @ \cup {kind}]

\* The handler returns, and its job with it.
Return(w) ==
  /\ pc' = [pc EXCEPT ![w] = "idle"]
  /\ row' = [row EXCEPT ![w] = NoRow]
Goto(w, l) == pc' = [pc EXCEPT ![w] = l] /\ row' = row

\* The handler throws: BullMQ retries the job unless its attempts are spent.
RetryOrDrop(m) == job' \in {job, [job EXCEPT ![m] = @ \cup {"now"}]}

SetStatus(m, s) == status' = [status EXCEPT ![m] = s]

(***************************************************************************)
(* The worker                                                              *)
(***************************************************************************)

\* What handleEmailSend does with the row as it reads it.
Branch(m) ==
  IF status[m] = "sent" THEN "finalize"
  ELSE IF status[m] = "permanently_failed" THEN "release"
  ELSE IF status[m] = "sending" /\ HasId(m) THEN "recover"
  ELSE IF status[m] = "sending" /\ claimAge[m] # "live" THEN "park"
  ELSE IF status[m] = "pending" /\ scheduled[m] THEN "requeue"
  ELSE IF status[m] \in {"pending", "failed", "bounced"} THEN "claim"
  ELSE "idle"

\* A delayed job wakes when the time it waits for has come.
Start(w, m) ==
  /\ pc[w] = "idle"
  /\ \E kind \in job[m] :
       /\ kind = "later" => ~scheduled[m] /\ ~deferred[m]
       /\ job' = [job EXCEPT ![m] = @ \ {kind}]
  /\ pc' = [pc EXCEPT ![w] = Branch(m)]
  /\ row' = [row EXCEPT ![w] = IF Branch(m) = "idle" THEN NoRow ELSE m]
  /\ UNCHANGED <<rowVars, step, sweepVars, dryRun, delivered, faults>>

\* Mutants of the claim's condition: no status, no schedule, or the ambiguous
\* status among the claimable ones.
CanClaimAnyStatus(m) == ~scheduled[m]
CanClaimAnyTime(m) == status[m] \in Claimable
CanClaimUnknown(m) ==
  status[m] \in Claimable \cup {"reconciliation_required"} /\ ~scheduled[m]

\* The compare-and-set from a claimable status, no earlier than scheduledFor.
CanClaim(m) == status[m] \in Claimable /\ ~scheduled[m]

AttemptedTwice(n) == n + 2  \* mutant: one increment too many
Attempted(n) == IF n < MaxRedrives THEN n + 1 ELSE n

Claim(w) ==
  LET m == row[w] IN
  /\ pc[w] = "claim"
  /\ CanClaim(m)
  /\ SetStatus(m, "sending")
  /\ claimAge' = [claimAge EXCEPT ![m] = "live"]
  /\ attemptCount' = [attemptCount EXCEPT ![m] = Attempted(@)]
  /\ deferred' = [deferred EXCEPT ![m] = FALSE]
  /\ Goto(w, "checks")
  /\ UNCHANGED <<evidence, scheduled, step, job, sweepVars, dryRun, delivered, faults>>

ClaimLost(w) ==
  /\ pc[w] = "claim"
  /\ ~CanClaim(row[w])
  /\ Return(w)
  /\ UNCHANGED <<rowVars, step, job, sweepVars, dryRun, delivered, faults>>

\* Global pause, canary list, paused or inactive mailbox: back to "failed".
\* A vanished account also throws, hence the retry.
Block(w) ==
  /\ pc[w] = "checks"
  /\ SetStatus(row[w], "failed")
  /\ RetryOrDrop(row[w])
  /\ Return(w)
  /\ UNCHANGED <<claimAge, attemptCount, evidence, scheduled, deferred, step,
                 sweepVars, dryRun, delivered, faults>>

\* A suppressed or bounced recipient, or a body that cannot be made safe.
Refuse(w) ==
  /\ pc[w] = "checks"
  /\ SetStatus(row[w], "permanently_failed")
  /\ Goto(w, "release")
  /\ UNCHANGED <<claimAge, attemptCount, evidence, scheduled, deferred, step,
                 job, sweepVars, dryRun, delivered, faults>>

\* The mailbox is at its hourly or daily cap.
DeferForCap(w) ==
  /\ pc[w] = "checks"
  /\ SetStatus(row[w], "pending")
  /\ deferred' = [deferred EXCEPT ![row[w]] = TRUE]
  /\ Goto(w, "requeue")
  /\ UNCHANGED <<claimAge, attemptCount, evidence, scheduled, step, job,
                 sweepVars, dryRun, delivered, faults>>

\* enqueueReschedule: the row's own write came first.
Requeue(w) ==
  /\ pc[w] = "requeue"
  /\ Queue(row[w], "later")
  /\ Return(w)
  /\ UNCHANGED <<rowVars, step, sweepVars, dryRun, delivered, faults>>

\* A demo or staging tenant stops here, "sent", with its step unsettled.
DryRunSend(w) ==
  /\ pc[w] = "checks" /\ dryRun
  /\ SetStatus(row[w], "sent")
  /\ evidence' = [evidence EXCEPT ![row[w]] = "id"]
  /\ Return(w)
  /\ UNCHANGED <<claimAge, attemptCount, scheduled, deferred, step, job,
                 sweepVars, dryRun, delivered, faults>>

\* Quota reserved: the worker is about to call the provider.
CallProvider(w) ==
  /\ pc[w] = "checks" /\ ~dryRun
  /\ Goto(w, "calling")
  /\ UNCHANGED <<rowVars, step, job, sweepVars, dryRun, delivered, faults>>

ProviderAccepts(w) ==
  /\ pc[w] = "calling"
  /\ delivered' = [delivered EXCEPT ![row[w]] = @ + 1]
  /\ Goto(w, "accepted")
  /\ UNCHANGED <<rowVars, step, job, sweepVars, dryRun, faults>>

\* A sending limit, a dead address, or any error that proves nothing left.
ProviderRefuses(w) ==
  /\ pc[w] = "calling"
  /\ \E answer \in Refused : Goto(w, answer)
  /\ UNCHANGED <<rowVars, step, job, sweepVars, dryRun, delivered, faults>>

\* A timeout or a dropped socket: it may or may not have been delivered.
ProviderSilent(w) ==
  /\ pc[w] = "calling"
  /\ delivered' \in {delivered, [delivered EXCEPT ![row[w]] = @ + 1]}
  /\ Goto(w, "ambiguous")
  /\ UNCHANGED <<rowVars, step, job, sweepVars, dryRun, faults>>

\* The adapter may report no message id.
RecordSent(w) ==
  /\ pc[w] = "accepted"
  /\ SetStatus(row[w], "sent")
  /\ \E id \in {"none", "id"} : evidence' = [evidence EXCEPT ![row[w]] = id]
  /\ Goto(w, "finalize")
  /\ UNCHANGED <<claimAge, attemptCount, scheduled, deferred, step, job,
                 sweepVars, dryRun, delivered, faults>>

\* classifyProviderLimit: deferred like our own quota, step left open.
RecordLimit(w) ==
  /\ pc[w] = "limited"
  /\ SetStatus(row[w], "pending")
  /\ deferred' = [deferred EXCEPT ![row[w]] = TRUE]
  /\ Goto(w, "requeue")
  /\ UNCHANGED <<claimAge, attemptCount, evidence, scheduled, step, job,
                 sweepVars, dryRun, delivered, faults>>

\* "permanently_failed" for a dead address, "failed" for the rest.
RecordRefusal(w) ==
  /\ pc[w] \in {"dead", "rejected"}
  /\ SetStatus(row[w], IF pc[w] = "dead" THEN "permanently_failed" ELSE "failed")
  /\ Goto(w, "giveback")
  /\ UNCHANGED <<claimAge, attemptCount, evidence, scheduled, deferred, step,
                 job, sweepVars, dryRun, delivered, faults>>

\* The step is given back, then the error is thrown on.
GiveBack(w) ==
  /\ pc[w] = "giveback"
  /\ Stop(row[w])
  /\ RetryOrDrop(row[w])
  /\ Return(w)
  /\ UNCHANGED <<rowVars, sweepVars, dryRun, delivered, faults>>

\* Mutant: every error is a failure.
RecordAmbiguousAsFailed(w) ==
  /\ pc[w] = "ambiguous"
  /\ SetStatus(row[w], "failed")
  /\ RetryOrDrop(row[w])
  /\ Return(w)
  /\ UNCHANGED <<claimAge, attemptCount, evidence, scheduled, deferred, step,
                 sweepVars, dryRun, delivered, faults>>

\* markReconciliationRequired after an ambiguous answer, then the throw.
RecordAmbiguous(w) ==
  /\ pc[w] = "ambiguous"
  /\ SetStatus(row[w], "reconciliation_required")
  /\ RetryOrDrop(row[w])
  /\ Return(w)
  /\ UNCHANGED <<claimAge, attemptCount, evidence, scheduled, deferred, step,
                 sweepVars, dryRun, delivered, faults>>

\* A row read as "sending" with its claim past the lease, or with an id.
Resolve(w) ==
  /\ pc[w] \in {"recover", "park"}
  /\ SetStatus(row[w], IF pc[w] = "recover" THEN "sent" ELSE "reconciliation_required")
  /\ IF pc[w] = "recover" THEN Goto(w, "finalize") ELSE Return(w)
  /\ UNCHANGED <<claimAge, attemptCount, evidence, scheduled, deferred, step,
                 job, sweepVars, dryRun, delivered, faults>>

Finalize(w) ==
  /\ pc[w] = "finalize"
  /\ Advance(row[w])
  /\ Return(w)
  /\ UNCHANGED <<rowVars, job, sweepVars, dryRun, delivered, faults>>

Release(w) ==
  /\ pc[w] = "release"
  /\ Stop(row[w])
  /\ Return(w)
  /\ UNCHANGED <<rowVars, job, sweepVars, dryRun, delivered, faults>>

(***************************************************************************)
(* The nightly repairs, one at a time (concurrency 1).  Each reads the     *)
(* rows it will write, then writes them without looking again.             *)
(***************************************************************************)
SweepIdle == \A m \in Messages : sweep[m] = "none"

After(repair) ==
  IF repair = "stale-sending" THEN "outbound-reconcile"
  ELSE IF repair = "outbound-reconcile" THEN "stale-pending-outbound"
  ELSE "stale-sending"

\* Mutant: only claims with a provider id are swept.
StaleTaskWithId(m) ==
  IF status[m] = "sending" /\ claimAge[m] # "live" /\ HasId(m) THEN "settle" ELSE "none"

\* repairStaleSending: claims past the lease.
StaleTask(m) ==
  IF status[m] = "sending" /\ claimAge[m] # "live"
  THEN IF HasId(m) THEN "settle" ELSE "park"
  ELSE "none"

\* Mutant: a send unanswered for a day is taken for a delivered one.
ReconcileTaskHopeful(m) ==
  IF status[m] = "reconciliation_required" /\ claimAge[m] = "expired"
  THEN "confirm" ELSE "none"

\* reconcileAmbiguousSends: evidence of delivery, or the end of the grace.
ReconcileTask(m) ==
  IF status[m] # "reconciliation_required" THEN "none"
  ELSE IF evidence[m] # "none" THEN "confirm"
  ELSE IF claimAge[m] = "expired" THEN "abandon" ELSE "none"

\* Mutant: the sweep looks at one of the two claimable statuses only.
RedriveTaskPending(m) ==
  IF status[m] = "pending" /\ ~deferred[m] /\ ~scheduled[m] THEN "redrive" ELSE "none"

\* repairStalePendingOutbound: claimable rows that nothing is waiting for.
RedriveTask(m) ==
  IF /\ \/ status[m] = "pending" /\ ~deferred[m]
        \/ status[m] = "failed" /\ attemptCount[m] < MaxRedrives
     /\ ~scheduled[m]
  THEN "redrive" ELSE "none"

SweepTask(m) ==
  IF nextSweep = "stale-sending" THEN StaleTask(m)
  ELSE IF nextSweep = "outbound-reconcile" THEN ReconcileTask(m)
  ELSE RedriveTask(m)

SweepRead ==
  /\ SweepIdle
  /\ sweep' = [m \in Messages |-> SweepTask(m)]
  /\ nextSweep' = After(nextSweep)
  /\ UNCHANGED <<rowVars, step, job, workerVars, dryRun, delivered, faults>>

SweepOutcomeFailed(task) ==  \* mutant: an abandoned claim counts as unsent
  IF task = "park" THEN "failed"
  ELSE IF task = "abandon" THEN "permanently_failed"
  ELSE "sent"

SweepOutcome(task) ==
  IF task = "park" THEN "reconciliation_required"
  ELSE IF task = "abandon" THEN "permanently_failed"
  ELSE "sent"

SweepWrite(m) ==
  /\ sweep[m] \in SweepWrites
  /\ SetStatus(m, SweepOutcome(sweep[m]))
  /\ sweep' = [sweep EXCEPT ![m] = IF @ = "confirm" THEN "finalize"
                                   ELSE IF @ = "abandon" THEN "release"
                                   ELSE "none"]
  /\ UNCHANGED <<claimAge, attemptCount, evidence, scheduled, deferred, step,
                 job, workerVars, nextSweep, dryRun, delivered, faults>>

\* resolveStepRefForOutbound, then finalize or release what it finds.
SweepSettle(m) ==
  /\ sweep[m] \in {"finalize", "release"}
  /\ IF sweep[m] = "finalize" THEN Advance(m) ELSE Stop(m)
  /\ sweep' = [sweep EXCEPT ![m] = "none"]
  /\ UNCHANGED <<rowVars, job, workerVars, nextSweep, dryRun, delivered, faults>>

SweepRedrive(m) ==
  /\ sweep[m] = "redrive"
  /\ Queue(m, "now")
  /\ sweep' = [sweep EXCEPT ![m] = "none"]
  /\ UNCHANGED <<rowVars, step, workerVars, nextSweep, dryRun, delivered, faults>>

(***************************************************************************)
(* The composer, on rows that no cadence owns.                             *)
(***************************************************************************)

\* Undo or cancel; taking the job off the queue is best effort.
Cancel(m) ==
  /\ Composed(m) /\ status[m] = "pending"
  /\ SetStatus(m, "cancelled")
  /\ deferred' = [deferred EXCEPT ![m] = FALSE]
  /\ \E gone \in SUBSET Jobs : job' = [job EXCEPT ![m] = @ \ gone]
  /\ UNCHANGED <<claimAge, attemptCount, evidence, scheduled, step, workerVars,
                 sweepVars, dryRun, delivered, faults>>

\* The same draft sent again: back to pending, at once or for later.
Revive(m) ==
  /\ Composed(m) /\ status[m] = "cancelled"
  /\ SetStatus(m, "pending")
  /\ \E later \in BOOLEAN :
       /\ scheduled' = [scheduled EXCEPT ![m] = later]
       /\ Queue(m, IF later THEN "later" ELSE "now")
  /\ UNCHANGED <<claimAge, attemptCount, evidence, deferred, step, workerVars,
                 sweepVars, dryRun, delivered, faults>>

\* A new time: the new job first, then the old one off the queue.  If the
\* queue refuses the new one, the row keeps its old time.
Reschedule(m) ==
  /\ Composed(m) /\ status[m] = "pending"
  /\ deferred' = [deferred EXCEPT ![m] = FALSE]
  /\ \/ /\ scheduled' = [scheduled EXCEPT ![m] = TRUE]
        /\ \E gone \in SUBSET Jobs : job' = [job EXCEPT ![m] = (@ \ gone) \cup {"later"}]
     \/ UNCHANGED <<scheduled, job>>
  /\ UNCHANGED <<status, claimAge, attemptCount, evidence, step, workerVars,
                 sweepVars, dryRun, delivered, faults>>

\* The request that created the row could not attach its files.
Abandon(m) ==
  /\ Composed(m) /\ status[m] = "pending" /\ attemptCount[m] = 0
  /\ SetStatus(m, "permanently_failed")
  /\ UNCHANGED <<claimAge, attemptCount, evidence, scheduled, deferred, step, job,
                 workerVars, sweepVars, dryRun, delivered, faults>>

(***************************************************************************)
(* The environment: inbox sync, time, crashes and a forgetful queue.       *)
(***************************************************************************)

Answered(m) ==
  /\ status[m] = "sent" /\ delivered[m] > 0
  /\ evidence' = [evidence EXCEPT ![m] = IF @ = "none" THEN "answer" ELSE @]

\* workers/sync.ts finds a bounce, or a sales reply, of a message it knows
\* as sent.
Bounce(m) ==
  /\ Answered(m)
  /\ SetStatus(m, "bounced")
  /\ UNCHANGED <<claimAge, attemptCount, scheduled, deferred, step, job,
                 workerVars, sweepVars, dryRun, delivered, faults>>

Reply(m) ==
  /\ Answered(m)
  /\ UNCHANGED <<status, claimAge, attemptCount, scheduled, deferred, step, job,
                 workerVars, sweepVars, dryRun, delivered, faults>>

ClaimAges(m) ==
  /\ status[m] \in {"sending", "reconciliation_required"}
  /\ claimAge[m] # "expired"
  /\ claimAge' = [claimAge EXCEPT ![m] = Older(@)]
  /\ UNCHANGED <<status, attemptCount, evidence, scheduled, deferred, step, job,
                 workerVars, sweepVars, dryRun, delivered, faults>>

TimeComes(m) ==
  /\ scheduled[m] \/ deferred[m]
  /\ scheduled' = [scheduled EXCEPT ![m] = FALSE]
  /\ deferred' = [deferred EXCEPT ![m] = FALSE]
  /\ UNCHANGED <<status, claimAge, attemptCount, evidence, step, job, workerVars,
                 sweepVars, dryRun, delivered, faults>>

Fault == faults < MaxFaults /\ faults' = faults + 1

\* The process dies; BullMQ returns the job to the queue or fails it.
Crash(w) ==
  /\ pc[w] # "idle" /\ Fault
  /\ RetryOrDrop(row[w])
  /\ Return(w)
  /\ UNCHANGED <<rowVars, step, sweepVars, dryRun, delivered>>

\* A stalled worker: its job is handed out again while it still runs.
Stall(w) ==
  /\ pc[w] # "idle" /\ Fault
  /\ Queue(row[w], "now")
  /\ UNCHANGED <<rowVars, step, workerVars, sweepVars, dryRun, delivered>>

SweepCrash ==
  /\ ~SweepIdle /\ Fault
  /\ sweep' = [m \in Messages |-> "none"]
  /\ UNCHANGED <<rowVars, step, job, workerVars, nextSweep, dryRun, delivered>>

\* Redis is flushed, or the process dies before its enqueue.
LoseJobs(m) ==
  /\ job[m] # {} /\ Fault
  /\ job' = [job EXCEPT ![m] = {}]
  /\ UNCHANGED <<rowVars, step, workerVars, sweepVars, dryRun, delivered>>

(***************************************************************************)
(* Specification                                                           *)
(***************************************************************************)
WorkerStep(w) ==
  \/ Claim(w) \/ ClaimLost(w) \/ Block(w) \/ Refuse(w) \/ DeferForCap(w)
  \/ Requeue(w) \/ DryRunSend(w) \/ CallProvider(w)
  \/ ProviderAccepts(w) \/ ProviderRefuses(w) \/ ProviderSilent(w)
  \/ RecordSent(w) \/ RecordLimit(w) \/ RecordRefusal(w) \/ GiveBack(w)
  \/ RecordAmbiguous(w) \/ Resolve(w) \/ Finalize(w) \/ Release(w)

SweepStep(m) == SweepWrite(m) \/ SweepSettle(m) \/ SweepRedrive(m)

ComposerStep(m) == Cancel(m) \/ Revive(m) \/ Reschedule(m) \/ Abandon(m)

Next ==
  \/ \E w \in Workers, m \in Messages : Start(w, m)
  \/ \E w \in Workers : WorkerStep(w) \/ Crash(w) \/ Stall(w)
  \/ SweepRead
  \/ SweepCrash
  \/ \E m \in Messages :
       \/ SweepStep(m) \/ ComposerStep(m)
       \/ Bounce(m) \/ Reply(m) \/ ClaimAges(m) \/ TimeComes(m) \/ LoseJobs(m)

Spec == Init /\ [][Next]_vars

\* The queue hands jobs out, handlers run on, cron keeps the sweeps coming
\* and time passes.  Composer, crashes and inbox sync are never owed.
Fairness ==
  /\ \A m \in Messages : WF_vars(\E w \in Workers : Start(w, m))
  /\ \A w \in Workers : WF_vars(WorkerStep(w))
  /\ WF_vars(SweepRead)
  /\ \A m \in Messages :
       WF_vars(SweepStep(m)) /\ WF_vars(ClaimAges(m)) /\ WF_vars(TimeComes(m))

FairSpec == Spec /\ Fairness

(***************************************************************************)
(* Safety                                                                  *)
(***************************************************************************)

\* One row reaches the provider at most once, whatever crashes, retries,
\* sweeps and stale workers do ("one logical email step = at most one
\* physical send", workers/email.ts and lib/email/idempotency.ts).
AtMostOneDelivery == \A m \in Messages : delivered[m] <= 1

\* Two executions are never both past the claim of one row.
OneSender ==
  \A v, w \in Workers :
    pc[v] \in Owning /\ pc[w] \in Owning /\ row[v] = row[w] => v = w

\* A row that a worker may claim, or the rep may revive, was never
\* delivered and is in nobody's hands: "failed" means definitely not sent.
ReopenedIsUnsent ==
  \A m \in Messages :
    status[m] \in Claimable \cup {"cancelled"} =>
      /\ delivered[m] = 0
      /\ \A w \in Workers : row[w] = m => pc[w] \notin Owning

\* A cadence only moves past a step whose email the provider really took.
AdvanceNeedsDelivery ==
  \A m \in Messages : step[m] = "advanced" /\ ~dryRun => delivered[m] > 0

\* A message taken back or still scheduled for later is not delivered: the
\* composer's compare-and-set and the worker's claim have one winner, even
\* when the row is moved between the worker's read and its claim.
NeverSentEarly ==
  [][\A m \in Messages :
       delivered'[m] # delivered[m] => ~scheduled[m] /\ status[m] # "cancelled"]_vars

(***************************************************************************)
(* Refinement.  A message is in flight while some worker is past its claim *)
(* and has not yet recorded an answer; a claim whose worker died is closed *)
(* too, since no later step may put it on the wire.                        *)
(***************************************************************************)
InFlight(m) == \E w \in Workers : pc[w] \in Owning /\ row[w] = m

PhaseOf(m) ==
  IF InFlight(m) THEN "in_flight"
  ELSE IF status[m] \in Claimable THEN "queued"
  ELSE IF status[m] = "cancelled" THEN "withdrawn"
  ELSE "closed"

Once == INSTANCE SendOnce WITH
  phase <- [m \in Messages |-> PhaseOf(m)],
  count <- delivered

\* Every step of the pipeline is a step of SendOnce or none: a message goes
\* back to the queue only from its sender's hands and only undelivered, and
\* what leaves them otherwise is closed to every later worker and sweep.
SendsOnce == Once!Spec

(***************************************************************************)
(* Liveness                                                                *)
(***************************************************************************)

\* No email is forgotten.  A pending cadence email is always picked up again, though its
\* job may be lost with the queue: the database, not BullMQ, is the source of truth.  And a
\* refused one is retried until its redrives are spent.
OpenIsPickedUp ==
  \A m \in Messages :
    /\ status[m] = "pending" /\ ~Composed(m) ~> status[m] # "pending"
    /\ status[m] = "failed" /\ attemptCount[m] < MaxRedrives ~> status[m] # "failed"

\* A claim never lasts: a row left "sending" or ambiguous by a crash gets
\* an answer from its worker, the stale sweep or the reconciliation.
AmbiguityEnds ==
  \A m \in Messages :
    status[m] \in {"sending", "reconciliation_required"} ~>
      status[m] \notin {"sending", "reconciliation_required"}

=============================================================================
