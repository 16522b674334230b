# Telestar CRM: a TLA+ verification project

The CRM is a Next.js application over Postgres with BullMQ workers. Its core is an
automation that writes to prospects by email, step by step, without ever writing
twice and without moving on behind an email nobody received; around it agents plan
and launch that outreach, replies hand it to people, and people dial. The database
driver has no interactive transactions, so every handler is a sequence of single
statements, and the protocol between them is what this project models: the workers,
the nightly sweeps that repair what a crash or a lost queue left behind, and the people
who pause, skip, resume, approve and take over meanwhile.

| Module | What it is |
|---|---|
| `SendOnce.tla` | abstract specification of the outbound pipeline |
| `OutboundSend.tla` | the life of an `OutboundMessage` row, implements `SendOnce` |
| `OutboundSendProofs.tla` | the theorems about `OutboundSend` |
| `MailboxQuota.tla`, `MailboxQuotaProofs.tla` | the daily and hourly sending limits of one mailbox, and their theorems |
| `Cadence.tla`, `CadenceProofs.tla` | enrollments, step tasks, executions, settlement, sweeps and reps, and their theorems |
| `WorkOrder.tla`, `WorkOrderProofs.tla` | work orders: lease, plan, approvals, the action ledger, budget, and their theorems |
| `ProspectTransition.tla` | the ledger of a prospect's ownership moves |
| `OutreachLaunch.tla` | launches, replies, handbacks and switches; composes the ledger with the enrollments |
| `OutreachLaunchProofs.tla` | the theorems about the ledger and the launches |
| `JobLedger.tla` | one durable job: the `JobRun` row and the BullMQ job of the same id |
| `AiGateway.tla` | AI turns: routing, circuit breakers and the reservation of budget |
| `DialerCall.tla` | one outbound phone call: parked legs, webhooks, events, the cron |
| `InboxSync.tla` | the sync of one mailbox: cursor, store, replies and bounces |
| `ResearchRun.tla` | one research run: its claim, discovery and verification slices |
| `ImportBatch.tla` | one import: the request, parse, chunks and commit |
| `MCOutboundSend.tla`, `MCMailboxQuota.tla`, `MCCadence.tla`, `MCWorkOrder.tla`, `MCOutreachLaunch.tla` | instances for TLC (sets, symmetry) |
| `MCServices.tla` | the last six components side by side, one run for all |
| `CallAndJobProofs.tla` | the theorems about `DialerCall` and `JobLedger` |
| `InboxAndAiProofs.tla` | the theorems about `InboxSync` and `AiGateway` |
| `BatchProofs.tla` | the theorems about `ResearchRun` and `ImportBatch`, and the types of all six parts |

## 1. Inventory

### Modelled

**Outbound email pipeline** (`workers/email.ts`, `lib/email/composedSend.ts`, three
sweeps of `workers/maintenance.ts`).
*State*: `OutboundMessage` rows (`status`, `claimedAt`, `attemptCount`,
`providerMessageId`, `scheduledFor`), `EMAIL_SEND` jobs.
*Operations*: `handleEmailSend` with all its exits; `repairStaleSending`,
`repairStalePendingOutbound`, `reconcileAmbiguousSends`; cancel, revive, reschedule
and abandon of a composed message.
*Interaction*: the sequence worker and the composer create rows and jobs; a settled
send calls the cadence (`finalizeSequenceStep`, `releaseSequenceStep`); inbox sync
writes bounces and replies on rows.
*Hard*: a crash between the provider's yes and the write of `sent`; two workers on one
row; sweeps that write rows read earlier; a queue that loses, repeats or delays jobs.
*Correct if*: a row is delivered at most once, only from the execution that claimed
it, never before its time; a row that may be claimed was never delivered; no row stays
ambiguous or forgotten.

**Mailbox sending limits** (`atomicReserveQuota`, `releaseQuota`, `sentInLastHour`,
`repairQuotaDrift`).
*State*: `dailySendCount`, `dailySendDate`, `hourlyCap`, and the rows the hourly count reads.
*Hard*: a counter that several workers, a midnight and a sweep change at once.
*Correct if*: the mailbox sends no more than its caps, and the counter never forgets a
slot that is in use.

**Cadence engine and enrollments** (`lib/sequences/*`, `workers/sequence.ts`, three
sweeps, the task, enroll and run-now routes).
*State*: `SequenceEnrollment` (status, `currentStep`, the pair `lastTransitionAt` /
`lastEvaluatedAt` that says "mid-resume"), `Task` (status, `lockedAt`), the row of each
task, `SEQUENCE_EXECUTE_TASK` jobs.
*Operations*: enroll, execute, settle or give back, advance, pause, resume, end, run
now, skip, and the overdue, drift, redrive and reconcile sweeps.
*Interaction*: execution queues emails for the pipeline; the pipeline and its sweeps
settle steps, hours later and with a reference looked up anew; reps and replies stop
the cadence in between.
*Hard*: an occurrence that ends and is replaced while its email is still queued; a
settlement that stops half-way; sweeps that take a deliberate state for damage.
*Correct if*: a step is passed only behind its email; a passed step is never sent; a
stopped, skipped or resumed step does what the person asked.

**Work orders and the agent worker** (`lib/workorders`, `lib/agent/runtime.ts`,
`workers/agent.ts`).
*State*: `WorkOrder` rows, the lead's lease and its fencing token, approval requests and
`AgentAction` rows by action key, the order's job.
*Operations*: dispatch (activate, claim or reclaim the lease, enqueue), the worker's run
(plan, authorize, request approval, run a tool, record, settle the budget, finish, pause,
throw), decisions, the expiry sweep, policy changes.
*Interaction*: tools launch outreach and spend AI budget; approvals come from people.
*Hard*: a permission decided three times with writes between; a plan made anew by every
run; a crash between a tool's effect and its record; two executions of one order.
*Correct if*: nothing runs that was not approved; what is recorded completed was done;
money and effects are repeated only by failures.

**Prospect transitions and outreach launch** (`lib/prospects/*`,
`lib/sequences/enrollment.ts`, `lib/replies/handling.ts`).
*State*: `Lead.operatingState` and `sequenceId`, `ProspectTransition` rows with the
effects they have claimed, `SequenceLaunch.stage`, enrollments, the opening task and job.
*Operations*: `applyTransition` in its steps; launch in its stages; reply, stop, handback,
switch to a human sequence.
*Hard*: re-entry from the top after a crash; two launches, or a launch and a takeover, on
one lead; a state judged long before it is written.
*Correct if*: effects run once; a recorded move was made; nothing reaches the prospect for
a launch that does not own it; the prospect is opened once.

**Durable job layer** (`lib/bullmq`).
*State*: the `JobRun` row; the BullMQ job that carries the same id.
*Operations*: `enqueue`, `enqueueImmediate`, `ensureJob`, `removeQueuedJob`, the worker
wrapper, retries, expiry of finished jobs.
*Hard*: callers that saw the same finished job remove and add under one id.
*Correct if*: what was asked for runs.

**AI budget and gateway** (`lib/ai`).
*State*: `usedMicros` and `reservedMicros` of the period, reservation rows, circuits and
probe leases in Redis, each process's own view of the circuits.
*Operations*: route, pass the breaker, reserve, stream with its tool rounds, settle or
release, fall back, publish the outcome.
*Hard*: processes that die between two statements of one reservation; markers and leases
taken on many paths and returned on others.
*Correct if*: spend and holds never pass the cap but by what attempts billed over their
estimate; every exit settles and gives its lease back.

**Telephony** (`lib/telephony`).
*State*: the `Call` row, stored provider events, the Activity of the call.
*Operations*: authorize, the webhook of a parked leg, transfer, the fold of events, the
reconcile cron.
*Hard*: several legs with one token; events in any order, applied by runners that die.
*Correct if*: the lead is dialled once; completed means the lead answered; a placed call
reaches the timeline.

**Inbox sync, replies and bounces** (`workers/sync.ts`, `lib/replies`,
`lib/email/suppress.ts`, `lib/sequences/leadStop.ts`).
*State*: `EmailAccount.lastSyncAt`, `InboundMessage` rows, enrollment statuses, the lead's
invalid and suppressed marks.
*Operations*: a run (read, store, apply bounce or reply, classify, move the cursor), a
re-read of the past, enrolment and resumption beside it.
*Hard*: runs overlap each other and the re-read, stop at a limit, or fail to store.
*Correct if*: no mail is jumped over; each message has its effects once; a reply stops
every cadence it answers.

**Research runs** (`lib/research/runner.ts`, `discovery.ts`, `verify.ts`,
`workers/research.ts`).
*State*: the `ResearchRun` row (status, `queryCursor`, `pauseRequestedAt`, `updatedAt`),
the candidates with their verification, attempts and claim, the slices in the queue.
*Operations*: start, resume, "Check again", pause; a discovery slice and its passes; a
verification slice with its claims, verdicts and heartbeat; the end of either.
*Hard*: every slice enqueues its own successor, so only the row says who works a run;
staleness is a guess; two chains walk one cursor and judge the same candidates.
*Correct if*: a running run is being worked; a candidate is judged by one slice at a time;
a run succeeds only when every query was run and every candidate judged.

**Imports** (`workers/import.ts`, `lib/workflows/importInline.ts`, the import route).
*State*: `ImportBatch.status`, `ImportRow` rows, what was written for a row (lead or pool
item, activity, enrollment, task, job), the jobs.
*Operations*: the request; parse, chunks, commit and its barrier, as jobs or inside the
request when there is no queue.
*Hard*: no statement of a row is atomic with the next; a chunk may run twice, stop
anywhere and be retried; three places queue the commit.
*Correct if*: a row is written once; a row called imported has all an import gives it; a
batch is committed only when no row is in flight.

### Not modelled

| Component | Where | Why |
|---|---|---|
| learning, playbooks | `lib/learning`, `lib/playbooks` | single compare-and-set statements |
| lead generation pool | `lib/leadgen` | claim by status, not yet surveyed in depth |
| meetings, opportunities | `lib/meetings`, `lib/opportunities` | one request at a time |
| client reports | `lib/client-reports` | snapshots and links |
| email health | `lib/email-health` | numeric policies that set `dailyCap`, a constant here |
| identity, scoring, ingest packages | `packages/*` | pure functions over text |
| authentication, tenancy, transfer | `lib/auth*`, `lib/admin` | request-scoped checks |
| webhooks, notifications | `lib/webhooks`, `workers/notification.ts` | fire and forget |
| web application | `app`, `components` | pages over the API |

`PROJECT.json` lists the hazards, each at its line with the properties that cover it.

## 2. Plan

1. `OutboundSend`, its abstract specification and its proofs - done.
2. `MailboxQuota` - checked and proved.
3. `Cadence` - checked and proved; next the steps done by hand.
4. `JobLedger`, `AiGateway`, `DialerCall`, `InboxSync`, `ResearchRun`, `ImportBatch` -
   checked, in one run, and proved.
5. `WorkOrder` - checked and proved.
6. `ProspectTransition` and `OutreachLaunch` - checked and proved.
7. Still to model, in this order: the softphone and its tab lock, learning proposals, the
   lead generation pool, meetings and opportunities.

A module that composes `Cadence` with `OutboundSend` is not planned: `Cadence` takes
from the pipeline the five states of a row and the facts proved about them (one sender,
a terminal row is never sent again, a claimable one never was). `OutreachLaunch` extends
`ProspectTransition`: its callers are the ledger's callers.

## 3. How the modules correspond to the code

One action is one database statement with the reads that decide it, or one provider
call. Handlers are processes with a program counter; every `await` is a place where
another process may run. `PROJECT.json` maps each definition to its lines.

### OutboundSend

`Start` reads the row and takes the branch of `handleEmailSend`; `Claim` is the
compare-and-set to `sending`; `Block`, `Refuse`, `DeferForCap` are the checks between
the claim and the call, by the row they write; `CallProvider` is followed by one of
`ProviderAccepts`, `ProviderRefuses`, `ProviderSilent`, and each of those by the write
that records it - a crash may fall between. `SweepRead` reads the list of rows a sweep
will treat and `SweepStep` writes them one at a time, without looking again, as the
code does. `Crash`, `Stall` (BullMQ hands a stalled job out again while its first
execution still runs) and `LoseJobs` are the environment.

Time is three flags: the age of the claim (within the 30-minute lease, past it, past
the 24-hour grace), whether `scheduledFor` is in the future, whether a cap deferral is.

### SendOnce

A message is queued, withdrawn, in flight or closed, and has been put on the wire some
number of times. It goes back to the queue only undelivered. `OutboundSend` maps a row
to "in flight" while some worker is past its claim, to "queued" when it is claimable, to
"withdrawn" when it is cancelled and to "closed" otherwise - a claim whose worker died
is closed, since nothing may send it any more.

### MailboxQuota

`Claim`, `CheckHourly` (the count of rows), `Reserve` (the conditional increment that
restarts at a new day), the provider's answer, `ReleaseSlot`, `MarkFull`; the sweep in
its four statements; `Midnight`, `Crash`, `Bounce`. The slot's day is history: it says
which day's counter paid for a send.

### Cadence

Four kinds of process: executions of `handleExecuteTask` (`Ignore`, `Defer`, `Close`,
`LockTask`, `Check`, `CreateRow`, `QueueSend`, `Throw`, `Unlock`); executions of
`handleEmailSend` (`TakeMail`, `PutBack`, `Accept`, `Refuse`, `Silent`) and the
settlement they run (`Complete`, `Advance`, `CreateTask`, `Schedule`, `GiveBack`,
`Stop`, `SettleFails`); the sweeper (`SweepStale`, `Reconcile`, `Redrive`,
`RequeueTask`, `FindDrift`, `ReviveTask`, `EnsureJob`); and requests (`Enroll`, `Pause`,
`SkipPending`, `End`, `Unenroll`, `Resume`, `Restore`, `Reopen`, `Rejob`,
`SettleResume`, `RunNow`, `RepSkip`).

A task is named by its occurrence and its step, as `enrollmentStepTaskId` names it. An
email job carries the step reference it was queued with; `Resolved` is the reference
that a redrive or a reconciliation makes anew. Due dates pass freely. The eligibility
rules are a free choice between allowed, later, by hand and never, except that an
execution is allowed only on the current step.

Coarser than the code: the provider's answer and the write of it are one step
(`OutboundSend` separates them), the counters and the compare-and-set they hang off are
one step, and `Redrive` also takes rows that a cap has deferred.

### WorkOrder

A dispatch request is `Dispatch`, then `TakeLease` and `Claim`, or `Reclaim` for an order
that holds its lease already, `Activate` and `Enqueue`. An execution is `Take` (the plan is
made here, from what is fresh then), `Check` (budget, deadline, lease, ledger, mode of the
tool), `Request` or `Resume`, `Authorize`, `UseTool` (the effect, with the permission asked
once more inside it), `Record`, `Settle` and either the next step, `Finish`, a `Pause`, or a
`Throw` that BullMQ retries. `Decide`, `ExpireSweep`, `Overdue`, `SetPolicy`, `TimeUp`,
`LeadTaken` and `LeaseExpires` are the people, the clock and the sweep; `Crash` and `Stall`
the faults. A tool is research, draft or launch: what it writes and costs is a unit.

### ProspectTransition and OutreachLaunch

`applyTransition` is `Look`, `Insert`, `WriteState`, `Stamp`, then `ClaimEffect` and
`RunEffect` for each consequence and `Complete`; a second delivery of the event enters at
the place its row says. `OutreachLaunch` EXTENDS it: launches (`ClaimLaunch`, `Prepare`,
`InsertEnrollment`, `Recheck`, `Book`, `AdvanceRead`, `AdvanceWrite`, `OpenFirstStep`,
`CreateTask`, `Schedule`), inbound events (`Reply`, `StopReply`, `Hand`), the SDR
(`Handback`, `Switch` with `Relink`, `CloseAll`, `Enrol`, `Designate`) are its callers, each
alternating between statements of its own and statements of the ledger. Keys are pairs of a
kind and an event, as `keys.ts` makes them.

### JobLedger

One id. A call of `enqueue`, `enqueueImmediate`, `ensureJob` or `removeQueuedJob` is one
action per call to Postgres or Redis (`Look`, `Remove`, `Add`, `Promote`, `Create`,
`WriteCancelled`); `Take`, `MarkActive`, `Record`, `Finish` are the wrapper and BullMQ.

### AiGateway

`Begin` is the synchronous stretch from the sync of circuits through `routeModel` to the
first question of the loop; `Lease`, `Claim`, `Insert`, the provider's answer, publication,
exit and settlement in two statements follow, each an await. A unit of money is one
attempt's estimate.

### DialerCall

The webhook of a parked leg claims the row, answers and transfers in separate statements;
the provider answers, hangs up and sends four events; `Store` keeps one, `Pick` and the
actions behind it apply it; `CancelStale`, `FindStuck`, `EndStuck`, `LogStuck` are the cron.

### InboxSync

A run is `Begin`, `Read`, `Save`, `PassOver` or `NotSaved` per message, `ApplyBounce`,
`Gate`, `Classify`, `Pause`, `Stop` per message to act on, `Close`. Messages are numbered in
the order they arrive, which is also their received time, so the lists the code walks are
sets here (`todo`), walked from the least on (`First`), and what a run read is an interval
(`Batch`).

### ResearchRun

A request is `Ask`, `Reopen`, `Claim`, `Enqueue` or `Undo`. A slice is `Take` and `ReadRun`;
then, for discovery, `Load`, `Harvest`, `Record` until the slice is spent (`HandOver`) or the
queries are (`Count`, `Settle`, or the hand-over to verification); for verification, `Look`,
`ClaimFound`, `Judge`, `Left` and `Again` or `Finalize`. `HonourPause`, `NoProvider` and
`Throw` are the other ends. A pass runs one query and a batch holds one candidate (the code:
several of each), which adds boundaries and removes none. A request that has claimed the run
and not yet queued its slice is not taken for stale, because Redis commands time out within
the five minutes; a job that waits its turn is.

### ImportBatch

`Post` stores the batch and chooses where the parse runs. An execution, of a worker or of the
request, is `Parse`, `ReadLeads`, `Judge` per row, `MarkValid`, `DispatchChunk`,
`DispatchCommit`, `Parsed`; `ReadChunk`, then per row `NextRow`, `FindItem` (pool), `Create`,
`MarkImported`, `LookForNote` (pool), `Note`, `Enrol`, `CreateTask`, `Schedule`, and
`EndChunk`; `Commit`, `Barrier`, `Close`. The request runs its chunks and commit in place of
queueing them and returns to the parse after each. A queue's job is named by its kind and
rows, since an enqueue of a live identity adds nothing; the barrier's commit has an identity
of its own. `RowFails`, `Fail`, `Stall`, `QueueRefuses`, `StopCadence`, `RedisReturns` are
the faults and the people. An import is one with a cadence; without one a row ends at its
activity. `dropped` remembers work that nobody will take up again: a job given up, chunks a
parse died with, and the row of an execution that had lost its job's lock, dies at the row and
leaves it in no job and to no other execution (`StillDue`).

### MCServices

These six share no state with each other, so a behaviour of `MCServices` picks one of
`Services` in its first state and runs it alone. The VIEW drops the parts that do not run,
which stay as they began. No part orders its callers, turns, legs, runs, requests or
candidates (first set of names), nor its processes, runners, sequences or worker slots
(second), so the six use the same two names of each kind and one symmetry set serves all: a
permutation that is an automorphism of the part that runs is one of the whole.

## 4. What the runs check

| Run | Instance | Result |
|---|---|---|
| `outbound_safety` | 1 row, 3 workers, 1 fault | holds: `AtMostOneDelivery`, `OneSender`, `ReopenedIsUnsent`, `AdvanceNeedsDelivery`, `NeverSentEarly`, and the refinement `SendsOnce` |
| `outbound_liveness` | 1 row, 1 worker, 3 faults, fairness | holds: `OpenIsPickedUp`, `AmbiguityEnds` |
| `quota` | 3 messages, caps 2, 1 midnight, 1 sweep, 1 fault | holds: `CounterCoversSlots`, `HourlyCapUntilBounce` |
| `cadence` | 1 enrollment, 2 steps, 1 rep operation, 2 sweep pickups, 1 fault | holds: `AdvanceIsEarned`, `SentInOrder` |
| `cadence_skip` | 1 step, 1 rep operation, 1 sweep pickup | `SkipIsFinal` is violated |
| `work_orders` | 2 orders on one lead, 2 executions, 1 dispatcher, 3 modes, budget 2, 3 events, 1 fault | holds: `CompletedIsDone`, `NothingRunsUnapproved`, `OverspendNeedsFault`, `RepeatNeedsFault` |
| `orders_replan` | the same without faults | `AskedOnce` is violated |
| `outreach` | 2 orders, 2 agents, 1 inbound worker, 1 SDR, 3 launches, 1 other call, 1 crash | holds: `EffectsRunOnce`, `CompletedWasApplied`, `LiveOnlyWhenOwned`, `OneOpening` |
| `outreach_handback` | no launch, 3 other calls | `HandbackIsNotSwallowed` is violated |
| `services` | the six parts of `MCServices`, see the bounds | holds: `IntentsRun` (jobs); `CapHolds`, `NothingStaysHeld` (AI); `DialledOnce`, `CompletedWasAnswered`, `EndedIsLogged` (dialer); `CursorCovers`, `AppliedOnce`, `ReplyStopsCadences` (inbox); `WorkedByOne`, `SuccessIsComplete` (research); `OnePerRow`, `SettledIsWhole` (imports) |
| `gateway_probe` | the AI part, 2 failures open a circuit, no crash | `CooledCanBeProbed` is violated |
| `inbox_optout` | the inbox part, 1 enrolment, no fault | `OptOutIsHeard` is violated |

Every passing run checks the type invariant `TypeOK` too.

What the violations show:

* **cadence_skip.** Skipping an automatic step neither advances nor stops the
  enrollment. The drift sweep finds an active enrollment with no pending task for its
  step, resets the skipped task and queues it, and the email goes out.
* **orders_replan.** The plan is made anew for every run and leaves out research that is
  fresh. After a run that did the research and paused on the draft, the draft is step 1
  instead of step 2, its action key changes, the decision a person took is never found,
  and a second request is raised.
* **outreach_handback.** The handback's key is made of the lead alone. A prospect handed
  back once and taken over again finds the completed row of the first time: the request
  is answered with success and nothing moves.
* **gateway_probe.** `isAvailable` claims the process's probe marker for a circuit whose
  reset has passed. The router asks it, the gateway's loop asks it again and is refused by
  the marker the router took; no call follows, so no outcome clears the marker, and that
  process does not use the model again.
* **inbox_optout.** A reply or an out-of-office pauses the cadence. The unsubscribe that
  follows finds no active enrollment and is stored unclassified: no suppression.

### Divergences without a run

Ten more disagreements between the code and what it says of itself were found the same
way. Their properties are definitions of the modules; to see one, list it in a
configuration with these bounds.

| Property | Bounds | What happens, and what the source says of it |
|---|---|---|
| `MailboxQuota!DailyCapHolds` | caps 1, 1 sweep, no midnight, no fault | `repairQuotaDrift` reads the counter and the rows in separate statements and writes the sum with no condition: a send that moves from `sending` to `sent` between the counts is in neither, the counter drops and the mailbox sends past its cap. `maintenance.ts:717`: a low counter "is corrected by the next send's own increment" |
| `MailboxQuota!DailyCapHolds` | caps 1, 1 midnight, no sweep, no fault | the release compares `dailySendDate` with the day of the release: a slot reserved at 23:59 and refused at 00:01, once another send has restarted the counter, is taken off the new day. `email.ts:182` |
| `MailboxQuota!HourlyCapHolds` | hourly cap 1, daily cap 2, 1 fault | the hourly count leaves out rows that have since bounced. `email.ts:93` |
| `Cadence!AdvanceIsEarned` | 2 enrollments, 1 step, 2 operations, 1 sweep | the lead is unenrolled with step 1's row still queued, then enrolled again; the redriven row resolves, by lead and sequence, to the new occurrence and advances it. `engine.ts:402` |
| `Cadence!SentStepIsRecoverable` | 1 step, 1 sweep, 1 fault | one failed write at the start of `finalizeSequenceStep`, swallowed by design, leaves the task pending and locked with its row sent, where no sweep looks; Run now gets it moving. `stepOutcome.ts:86` |
| `Cadence!ResumedStepCanBeSent` | 1 step, 1 operation, 1 sweep | giving a step back after a permanent refusal pauses the cadence so that a person may resend; resuming reopens the task, whose row is terminal, so it is given back again. `stepOutcome.ts:98` |
| `WorkOrder!RedispatchQueues` | as `orders_replan`, no symmetry | dispatching an order that is active already returns without a job, so an order whose job is gone stays active. `dispatch.ts:28` |
| `WorkOrder!CompletedActionRan` | as `orders_replan` | the approval runs out between the runtime's check and the tool's own; the tool returns its refusal in words and the action is recorded completed. `tools.ts:758` |
| `OutreachLaunch!TakeoverIsKept` | 1 order, 1 launch, 1 other call | the states a transition may start from are checked on a read before the claim, and the write carries no condition on the state: a launch overwrites a takeover. `prospect-operating-state.test.ts:322` |
| `OutreachLaunch!HumanCadenceWins` | 2 orders, 2 launches, 1 other call | a switch closes the rows in one statement and inserts in a later one: a second launch inserts in between, and the first one's row has kept the lead's designation, so both cadences run. `enrollment.ts:86` |

The models of research runs and imports are written so that their properties hold of the
code as it is: each names the case it leaves out. Those cases, found by dropping the
exception from the property or the history variable from its premise:

| Where | What happens, and what the source says of it |
|---|---|
| `ResearchRun`, premise `doubled` | five minutes without a write are taken for a dead runner also while the next slice waits in a busy queue: Resume then starts a second chain beside it. So does a start whose enqueue failed only in its reply: the claim is undone and the job runs behind the next start. `runner.ts:26`: "One runner per run is a status claim, not a convention" |
| `ResearchRun`, premise `doubled` | a request that read "succeeded" and is delayed before `reopenVerification` reopens candidates after another request has resumed and a slice has finished the run (3 starts, 2 troubles): a succeeded run with a pending candidate |
| `ResearchRun`, `Count` | provider failures are counted per pass: a run whose providers failed in an earlier pass and answered with nothing in the last one settles as succeeded with no candidate. `discovery.ts:319`: "Zero candidates plus at least one provider that hard-failed is a broken run, not an empty one" |
| `ResearchRun`, premise `unqueued` | a verification slice whose successor cannot be queued throws; the run stays running with no job until it goes stale and somebody resumes it. `runner.ts:250` does pause it for discovery |
| `ImportBatch`, `QueueRefuses` | the request that imports without a queue calls `enqueue` at the end of its last chunk (`import.ts:1076`): with Redis down it throws, the user gets an error for leads that were written, and the batch stays "parsing". `importInline.ts:24`: "without touching Redis" |
| `ImportBatch`, `Parsed` | the parse's last write sets "parsed" with no condition, over a "committed" its chunks have reached |
| `ImportBatch`, premise `dropped` | a parse that dies between marking rows valid and queueing their chunks is retried over pending rows only: the rows stay valid and the commit's barrier queues itself for ever. `import.ts:1097`: "to guarantee eventual completion" |
| `ImportBatch`, premise `twice` | a pool item and its activity are looked for and then created, with no unique key: two deliveries of a chunk write both twice. `REQUIREMENT_TRACEABILITY.md:54`: "duplicate BullMQ delivery does not duplicate state" |
| `ImportBatch`, bound on forced rows | a forced row has no normalized email, so a crash between its lead and the row's update gives it a second lead. `import.ts:875`: "crash recovery" |
| `ImportBatch`, premise `twice` | when the add went through and its reply did not, the request parses beside the worker's job (`route.ts:411`); the second parse finds the first one's leads and marks its own rows as errors, or valid again |

Also, a row is called imported before its cadence exists, so a batch may be committed with
a chunk still at work, and a row whose last statements fail is an error though its lead and
cadence are there. The branch of `runner.ts:229` (no query left and not finished) cannot be
reached.

### Bounds, and why they are enough

* Rows of `OutboundSend` share nothing but the sweeper, so one row shows every
  interleaving on a row; three workers allow one that holds the row, one that is stale
  and one that takes it next. The theorems hold for any number of rows and workers.
* `MaxRedrives = 2` reaches the cap and the step before it. `MaxFaults` bounds crashes,
  stalls and losses together.
* Three messages and caps of two or one make the last slot contended; a second midnight
  or sweep would repeat what the first one does.
* Two steps are the least in which a cadence may run ahead, one enrollment after another
  the least in which it may be replaced. `MaxOps` and `MaxSweeps` count what requests and
  sweeps pick up, each followed through all its statements; the jobs it puts in a queue
  run freely. One execution and one mail worker at a time are enough for the settlement
  hazards, because a second job waits in the queue for the first; two executions of one
  row at once are the subject of `OutboundSend`.
* `WorkOrder`: two orders compete for the lead and one of them may be a launch and the
  other a design; two executions make the stalled one run beside its successor; two
  attempts, so that the last one and the one before it differ. The modes move between
  free, approval and people only; a manager's approval differs from an approval only in
  who gives it.
* `OutreachLaunch`: two agents on two orders, so that both a re-entered launch and two
  launches race; three launches, so that each order is tried and one is tried again.
* `JobLedger`: two callers, three enqueues (one that runs, one that finds it finished, one
  that races the second), two `ensureJob` or cancellations, two attempts, one loss.
* `AiGateway`: two turns over two processes and two models, so that a fallback exists and
  a probe is contested; a cap of two attempts' estimates, so that the second is the last
  that fits; two tool rounds, so that a bill may pass its estimate. One failure opens a
  circuit in `services` and two in `gateway_probe`, against three in the code: the steps
  below the threshold only count.
* `DialerCall`: two legs with one token, two runners, one death.
* `InboxSync`: two messages, two sequences, two overlapping runs, a read limit of one (so
  that every run over two messages stops at its limit), one fault.
* `ResearchRun`: two requests, two worker slots (`RESEARCH_CONCURRENCY`), two candidates,
  three queries in slices of two passes (so that a slice ends both by its limit and by its
  queries), two attempts at a verdict, two starts, one pause, one trouble. Three starts and
  two troubles over two queries were run once as well (21.7 million states, no error).
* `ImportBatch`: two rows in chunks of one, so that chunks overlap; two workers beside the
  request; one mishap. Every batch has a fresh row; refused rows and known rows that are
  merged or forced are explored for leads with the queue at hand, skipped ones everywhere but
  in a pool without a queue, which is left out.
* Deadlock is not checked: every one of these systems may come to rest with nothing due.

### Fairness

`outbound_liveness` assumes weak fairness of: the queue handing out a waiting job, a
handler's next statement, the sweeps being run and working off their list, and time
passing. The code justifies them by BullMQ's workers and retries, by handlers that
only await calls with an end, and by the repeatable maintenance jobs of the scheduler.
Nothing is assumed of the composer, of inbox sync or of crashes. Crashes are bounded, so
a run in which every attempt dies is not considered; a job lost with the queue is, and
the database sweeps are then what makes the properties true.

## 5. What is proved

Every theorem holds for all values of the constants its module's assumptions admit: any
number of rows, workers, orders, messages, runs or turns, and any bound on faults,
operations, sweeps and retries. A bound counts what the environment does and cuts no path
short: a theorem for every bound is one for every finite behaviour.

For each component, the property a run checks was too weak to carry itself from one state to
the next. The inductive invariant below adds what makes it so; TLC checked each on instances
of its module (between 10^5 and 10^7 states) before it was proved. A proof has a lemma that
the types are kept, then a lemma per part of the invariant with a step per action, then the
theorem.

### OutboundSendProofs

| Theorem | Statement |
|---|---|
| `TypeCorrect` | `Spec => []TypeOK` |
| `SentAtMostOnce` | `Spec => []AtMostOneDelivery` |
| `OneSenderPerRow` | `Spec => []OneSender` |
| `ReopenedUnsent` | `Spec => []ReopenedIsUnsent` |
| `AdvanceIsEarned` | `Spec => []AdvanceNeedsDelivery` |
| `SentWhenDue` | `Spec => NeverSentEarly` |
| `Refinement` | `Spec => SendsOnce` |

Assumed: `NoRowAssumption` (the idle marker is not a row), `BoundsAssumption`.

"Delivered at most once" does not carry itself from one state to the next: one must know
who may deliver next. `Inv` adds to the types that

* a row held by a worker past its claim is not claimable and not withdrawn
  (`OwnedIsClosed`) - not that it is `sending`, because a sweep may park it meanwhile;
* a worker that has not yet called, or was refused, holds a row never delivered
  (`MayStillSend`), and no two workers hold one row (`OneSender`);
* a row that may be claimed or revived was never delivered and nobody holds it
  (`OpenIsUnsent`).

A claim then starts from an undelivered row nobody holds, every write that returns a row
to the queue comes from a sender that was refused, and the sweeps, which write rows they
read long ago, only ever close them. `AdvanceIsEarned` rests on a second invariant,
`Backed`: whoever is about to advance a step - worker or sweep - has proof of delivery,
and proof on a row means a delivery. `SentWhenDue` needs that a claimed row stays due
(`ClaimedIsDue`): the composer gives a new time only to rows that nobody holds. The refinement shows action by action which step
of `SendOnce` (or none) each action is, from `Inv`.

### MailboxQuotaProofs

| Theorem | Statement |
|---|---|
| `TypeCorrect` | `Spec => []TypeOK` |
| `CounterCovers` | `Spec => []CounterCoversSlots` |
| `HourlyCeiling` | `Spec => []HourlyCapUntilBounce` |

Assumed: `QuotaAssumption` (finitely many messages, positive caps).

* **Daily** (`DailyInv`). The property speaks of the day the counter is on. What lets a
  midnight pass is that no date lies ahead (`DaysInOrder`) and that, while the counter is on
  another day than the clock, nothing of today's is spent (`FreshDay`), so that the
  reservation that restarts it at one covers everything.
* **Hourly** (`HourlyInv`). Nothing is reserved for this cap. Each execution past the check is
  in the count of the next one, because its row was claimed before it counted
  (`RowOfExecution`): so those past the check and those on the wire together stay under it
  (`PassedUnderCap`).

### CadenceProofs

| Theorem | Statement |
|---|---|
| `TypeCorrect` | `Spec => []TypeOK` |
| `PassedStepsWereMailed` | `Spec => []StepWasMailed`: a step is behind its cadence only if an email of that step was taken, for this enrollment of the lead or another |
| `EachStepMailedOnce` | `Spec => []MailedOnce`: no step's email of one enrollment is taken twice |
| `InOrder` | `Spec => InOrderAcross`: no email goes out ahead of its cadence; behind it, only where another enrollment's email of the step stood in for it |
| `AdvanceEarned` | `MaxEnrollments = 1` gives `Spec => []AdvanceIsEarned` |
| `OrderKept` | `MaxEnrollments = 1` gives `Spec => SentInOrder` |

Assumed: `CadenceAssumption`, and `ProcAssumption` (a process is of one kind).

With a second enrollment `AdvanceIsEarned` and `SentInOrder` do fail (the fourth row of the
divergences above): a redriven row resolves by lead and sequence to whatever enrollment runs
now. The first three theorems say what is left of them for any number of enrollments. The
last two are those for a lead enrolled once, where "the email of that step" can only be the
step's own.

The invariant: what settles a sent email, or has settled it, is backed by an email of the
step (`EarnedInv`); a message with the provider has one sender, is undelivered and no other
process can send it (`FlightInv`); no message exists for a step its cadence has not reached
(`ReachedInv`). Every action is first shown to do one of six things to a message, so that
`FlightInv` is proved once per kind of write instead of once per action.

### WorkOrderProofs

| Theorem | Statement |
|---|---|
| `TypeCorrect` | `Spec => []TypeOK` |
| `ApprovedRuns` | `Spec => []NothingRunsUnapproved` |
| `BudgetHolds` | `Spec => []OverspendNeedsFault` |
| `RepeatsAreFaults` | `Spec => []RepeatNeedsFault` |
| `CompletedWorkDone` | `Spec => []CompletedIsDone` |

Assumed: `OrderAssumption`, `ProcAssumption` (executions and dispatchers are finite and
disjoint), `BoundAssumption` (at least one attempt: `JOB_OPTIONS` has one for every queue).

* **Budget and repeats** are counting arguments over executions beside each other. An order's
  job is held by one execution (`JobHeld`); every other one at it cost a fault. `SpendInv`
  says that the counter of the row lags behind the spend by what is about to be settled and
  by what faults lost, and that spend plus those that may still spend is within the budget
  and the faults. `RepeatCovered` says, for each action, that the effects so far plus the
  executions that may yet repeat it are at most the faults, plus one when the ledger, or the
  job's own execution, counts it as done.
* **Completion** needs to know that a final step that was answered, recorded or passed means
  the work was done (`WorkStands`), which rests on plans that end in the tool their order is
  for (`PlanFits`) and, because a tool that meets a lapsed approval answers in words that are
  recorded as success, on approvals that let an action through and still do (`ToolCleared`).

### OutreachLaunchProofs

| Theorem | Statement |
|---|---|
| `TypeCorrect` | `Spec => []TypeOK` |
| `EffectsOnce` | `Spec => []EffectsRunOnce` |
| `CompletedApplied` | `Spec => []CompletedWasApplied` |
| `LiveIsOwned` | `Spec => []LiveOnlyWhenOwned` |
| `OneOpeningEach` | `Spec => []OneOpening` |

Assumed: `LedgerAssumption` (an occurrence is of a kind the schema knows), `OutreachAssumption`
(agents, inbound workers and SDRs are callers; an order's move is an occurrence; a human
enrollment is not an order's).

The invariant (`LaunchInv`): an effect that is about to run is claimed, has not run and is
one caller's alone (`OneRunsEach`); a caller past the write of the state is in an occurrence
that was written (`PastWriteWasApplied`); an agent that has got to a stage finds that stage's
fact recorded (`LaunchInOrder`), although another agent may have advanced the same launch; at
most one enrollment of the prospect is held by an agent (`OneHeld`), and a launch is opened
once, by its job (`OneTouch`).

### CallAndJobProofs, InboxAndAiProofs and BatchProofs

These are about behaviours of `MCServices` that run the part in question; each invariant is
proved as "if that part runs, then".

| Theorem | Statement |
|---|---|
| `DialsOnce` | `Spec => []DialledOnce` |
| `CompletedByAnswer` | `Spec => []CompletedWasAnswered` |
| `EndsLogged` | `Spec => []EndedIsLogged` |
| `EnqueueIsKept` | `Spec => []IntentsRun` |
| `CursorCoversMail` | `Spec => []CursorCovers` |
| `AppliedOnceEach` | `Spec => []AppliedOnce` |
| `ReplyStops` | `Spec => []ReplyStopsCadences` |
| `CapIsHeld` | `Spec => []CapHolds` |
| `TurnsGiveBack` | `Spec => []NothingStaysHeld` |
| `RunIsWorked` | `Spec => []WorkedByOne` |
| `SucceedsWhole` | `Spec => SuccessIsComplete` |
| `RowsAreWrittenOnce` | `Spec => []OnePerRow` |
| `SettlesWhole` | `Spec => []SettledIsWhole` |
| `PartsAreTyped` | `Spec => []TypeOK` |

Assumed: `ServiceAssumption` (finitely many turns; the cap, the tool rounds and the mail
counted by naturals; a read limit of at least one), `JobAssumption` (at least one attempt, and
bounds that are naturals), `RunAssumption` (queries and attempts at a candidate counted by
naturals; the markers of an unclaimed and of an abandoned candidate are not worker slots),
`ImportAssumption` (the file has a number of rows, the import worker finitely many slots, and
the request is none of them), `GatewayAssumption` (the routing tier lists at least one model;
the threshold is a natural) and `ServicesAssumption` (the parts a run explores are the six).

* **Dialer** (`DialerInv`). Nobody is about to dial but the webhook that claimed the call
  (`ClaimedOnce`); an answer anywhere - line, event, runner, row - is the lead's own
  (`AnswersAreReal`); a call that ended is on the timeline or a runner, a stored event or the
  cron still has to put it there (`EndsAreLogged`).
* **Jobs** (`JobInv`). An enqueue nobody has answered has a live job or a caller that has
  removed the finished one and is about to add, even if another caller removes under its
  hands (`OwedIsCarried`).
* **Inbox** (`InboxInv`). Of every run: what it started from was covered and what it has gone
  through is (`ReadIsCovered`), the messages it may act on are placed with the lead (`Owns`),
  a cadence that was running when they arrived was there when it read (`SawTheCadence`). A
  message is one run's to act on (`OwnedByOne`) and untouched until then (`ActsOnce`); while a
  cadence a reply ought to stop is running, some run is still handling that reply
  (`RepliesAreHandled`).
* **AI** (`AiInv`). The bills of attempts that are still to be charged beyond their estimates
  are counted as pairs of a turn and a unit (`Unpaid`), and fit under the cap with the spend
  and the holds, but for what was charged beyond estimates (`UnderCap`); the period's total
  covers every hold, of the living and of the dead (`HoldsCounted`); a taken lease is some
  turn's to return (`LeasesReturn`).
* **Research** (`ResearchInv`). Everything before a cursor, the row's or the one a slice
  carries, was run, and verification begins behind the last query (`WalkedInOrder`, which
  holds with any number of runners). Until a request claims the run beside its runner there
  is one job, slice or request behind it at most (`OneRunner`), so that nobody adds a
  candidate behind a slice that found none left (`NothingLeft`). A claim stands while its
  slice judges (`ClaimsStand`). Every step of a slot keeps its job, hands it on or takes a
  waiting one, so `OneRunner` is proved for those three and not for nineteen actions.
* **Imports** (`ImportInv`). *Once*: jobs, executions and the request that may still write a row
  for the first time, plus what was written, are one and a fault each (`WritesCounted`, by
  counting sets: each step hands a row's writer on, uses it up or is a fault). A pool item
  needs more, because nothing in the database refuses a second: while no two executions of one
  job overlap, there is one parse (`OneParse`), a row is in one chunk (`OneChunk`), and the
  execution that looked for an item still finds none. *Whole*: a parse has before it every row
  that nobody has judged (`ParseSees`); a row is with a job, a plan or an execution from its
  judgement until it is whole (`Carried`), and an execution at a statement of a row has done
  the ones before (`RowSoFar`); a row that is merged into a lead never gets into a chunk
  (`Chosen`). A batch is committed behind its last row (`CommittedBehind`). Each action is
  first shown to be one of eleven kinds of step of one execution (`StepOf`), with what it does to
  the jobs and to the row at hand, and the parts are proved over these.
* **Types** (`PartsAreTyped`). Most of them are in the invariants above. The gateway's need
  one more (`GatewayType`): a turn in flight knows its process and its model, the places after
  it are places of the tier, and what it is to publish is a circuit record; its row is held
  exactly from the call to the settlement.

### Model-checked only

* Liveness (`OpenIsPickedUp`, `AmbiguityEnds`): it needs fairness, which the prover does not
  handle.
* The properties of the violation runs, which do not hold.

Where a model was changed so that it could be reasoned about, its behaviour was not: the
lists of `InboxSync` and the models an AI turn has still to try, by their places in the tier,
became sets (the run has the same number of states as before), and assumptions that the configurations satisfied already were given names. One premise was wrong
and was found by proving: with three faults an execution that has lost its job's lock can be
the last one at a row, and its death leaves the row half-way although nothing counted as
dropped. `ImportBatch` now counts it; no statement of the code changed in the model.

The step from `delivered` to a prospect's inbox is the provider's.

## 6. What the models leave out

* Message content, signatures, tracking, attachments and the adapters: a provider
  accepts, refuses (for now, for good, for a limit) or stays silent.
* In `Cadence`: steps of other channels, steps completed by hand and the older advance by
  lead and sequence, the fields cached on the lead, bulk actions, and the redrive cap
  (`OutboundSend` has it).
* In `WorkOrder`: creating and cancelling orders, the batch types, the words of an approval.
* In `OutreachLaunch`: the silence clock of ghost detection, the approved copy, drafts.
* In `JobLedger`: progress updates, `enqueueReschedule` (which only changes the id) and the
  hash that is in no list.
* In `AiGateway`: the preferred model, essential calls and provider-level circuits (neither
  has a caller), Redis outages, `/api/ai/status` (whose question takes the marker as well,
  `route.ts:182`), a failed settlement after an answer.
* In `DialerCall`: recordings, outcomes, inbound calls, the purge, events delivered twice
  to the webhook (the store ignores the second).
* In `ResearchRun`: the queries and what they cost, the evidence cache, the account-research
  engine, scores, and the promotion of candidates.
* In `ImportBatch`: columns and their validation, dry runs, accounts and contacts (resolved
  before the lead, by `packages/core-identity`), scores, duplicates inside one file (a
  refused row), files too large for a request.
* In `InboxSync`: tasks, hand-offs and resume dates of a classification, messages the
  database itself rejects.

Properties that were considered and are not claimed, with the reason:

* An email's counter is incremented exactly once: a crash between the completion and the
  advance lets the drift sweep reopen the step, and its settlement counts again.
* A paused cadence sends nothing: a refused email is redriven while its cadence waits for
  a person.
* The `JobRun` row agrees with the queue: an enqueue that lands after the wrapper recorded
  the outcome and before BullMQ filed it sets the row to queued and is taken for a
  duplicate; a cancelled job may be repaired by an `ensureJob` between the removal and the
  write of the row.
* `ensureJob` never adds a run: one that falls between an enqueue's upsert and its queue
  call does.
* A reservation stranded by a crash is freed: `sweepExpiredReservations` is called by no
  production code, so `CapHolds` and `NothingStaysHeld` only say it denies spend.
* Usage never passes the cap: the estimate covers one stream and an attempt opens up to
  `MAX_TOOL_ITERATIONS`, so `CapHolds` allows what was billed over the estimates. A stream
  its consumer abandons is settled at zero.
* A lease is given back only by the turn that holds it: `exitHalfOpen` deletes the key
  whoever took it.
* An answered call ends "completed": an answer applied before our leg is known, or after
  the hangup, leaves it "canceled". The converse, `CompletedWasAnswered`, is checked.
* Every ended call reaches the timeline: a cron that dies between ending a call and logging
  it leaves no Activity, and a crash between the claim and the transfer leaves the call
  `initiated` until the cron ends it.
* A reply is acted on whatever fails: a crash between storing it and applying it loses it,
  because the retry finds it stored; and a re-read judges by the latest running
  enrollment, so it drops a reply to an older sequence.
* A run always makes progress: a read limit of one message never moves the cursor past
  mail of one instant (the code's limit is larger).
