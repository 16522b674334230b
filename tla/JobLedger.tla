----------------------------- MODULE JobLedger -----------------------------
(***************************************************************************)
(* One durable job: the JobRun row in Postgres and the BullMQ job that     *)
(* carries the same id, as enqueue, enqueueImmediate, ensureJob,           *)
(* removeQueuedJob and the worker wrapper keep them (lib/bullmq).          *)
(* A caller's steps are separate because each is a call to Postgres or to  *)
(* Redis; several callers hold the same dedupe key at once.                *)
(***************************************************************************)
EXTENDS Naturals

CONSTANTS
    Callers,        \* processes that enqueue, ensure or cancel this job
    MaxIntents,     \* bound: calls of enqueue and enqueueImmediate
    MaxEnsures,     \* bound: calls of ensureJob and removeQueuedJob
    MaxAttempts,    \* attempts BullMQ gives the job before it stays failed
    MaxLosses       \* bound: crashes, lost row writes and lost Redis jobs

VARIABLES
    row,            \* JobRun.status, "none" before the row exists
    job,            \* where BullMQ holds the job's hash, "none" when it holds none
    attempt,        \* attempts BullMQ has counted for this hash
    at,             \* at[c]: [op, step] of a caller's call in flight
    step,           \* the worker's place in wrapProcessor
    owed,           \* history: an enqueue no finished run has answered yet
    intents,        \* history: calls of enqueue and enqueueImmediate
    ensures,        \* history: calls of ensureJob and removeQueuedJob
    cancelled,      \* history: some removeQueuedJob took the job
    losses          \* history: faults so far

vars == <<row, job, attempt, at, step, owed, intents, ensures, cancelled, losses>>

Ops == {"enqueue", "immediate", "ensure", "cancel"}
Steps == {"look", "remove", "add", "promote", "create", "write"}
Idle == [op |-> "none", step |-> "idle"]

Live == {"delayed", "waiting", "active"}
Terminal == {"completed", "failed"}
Settled == {"active", "completed", "failed"}

Init ==
    /\ row = "none"
    /\ job = "none"
    /\ attempt = 0
    /\ at = [c \in Callers |-> Idle]
    /\ step = "idle"
    /\ owed = FALSE
    /\ intents = 0
    /\ ensures = 0
    /\ cancelled = FALSE
    /\ losses = 0

-----------------------------------------------------------------------------
\* The callers.

GoOn(c, s) == at' = [at EXCEPT ![c].step = s]
Return(c) == at' = [at EXCEPT ![c] = Idle]

\* upsertJobRun: the row goes back to queued whatever it said.
Enqueue(c, op) ==
    /\ at[c] = Idle
    /\ intents < MaxIntents
    /\ row' = "queued"
    /\ owed' = TRUE
    /\ intents' = intents + 1
    /\ at' = [at EXCEPT ![c] = [op |-> op, step |-> "look"]]
    /\ UNCHANGED <<job, attempt, step, ensures, cancelled, losses>>

\* ensureJob reads the row: nothing for a settled one, the queue for a queued one,
\* a create for a missing one.
Ensure(c) ==
    /\ at[c] = Idle
    /\ ensures < MaxEnsures
    /\ ensures' = ensures + 1
    /\ at' = [at EXCEPT ![c] =
                CASE row \in Settled -> Idle
                  [] row = "queued"  -> [op |-> "ensure", step |-> "look"]
                  [] row = "none"    -> [op |-> "ensure", step |-> "create"]]
    /\ UNCHANGED <<row, job, attempt, step, owed, intents, cancelled, losses>>

\* jobRun.create under the unique dedupe key: the loser of a race starts over.
Create(c) ==
    /\ at[c].step = "create"
    /\ IF row = "none"
         THEN row' = "queued" /\ GoOn(c, "add")
         ELSE row' = row /\ at' = [at EXCEPT ![c] =
                IF row \in Settled THEN Idle ELSE [op |-> "ensure", step |-> "look"]]
    /\ UNCHANGED <<job, attempt, step, owed, intents, ensures, cancelled, losses>>

\* removeQueuedJob finds the row.
Cancel(c) ==
    /\ at[c] = Idle
    /\ row # "none"
    /\ ensures < MaxEnsures
    /\ ensures' = ensures + 1
    /\ at' = [at EXCEPT ![c] = [op |-> "cancel", step |-> "look"]]
    /\ UNCHANGED <<row, job, attempt, step, owed, intents, cancelled, losses>>

\* Mutant: any job under the id counts as the duplicate, as before 2026-09-16.
AnyJobIsLive(op) ==
    CASE op = "enqueue"   -> IF job = "none" THEN "add" ELSE "idle"
      [] op = "immediate" -> IF job = "delayed" THEN "promote"
                             ELSE IF job = "none" THEN "add"
                             ELSE IF job \in Terminal THEN "remove" ELSE "idle"
      [] op = "ensure"    -> IF job = "none" THEN "add" ELSE "idle"
      [] op = "cancel"    -> IF job \in {"delayed", "waiting"} THEN "remove" ELSE "idle"

\* What each caller does about the state getState gives; "idle" is a return.
AfterLook(op) ==
    CASE op = "enqueue"   -> IF job \in Live THEN "idle"
                             ELSE IF job = "none" THEN "add" ELSE "remove"
      [] op = "immediate" -> IF job = "delayed" THEN "promote"
                             ELSE IF job = "none" THEN "add"
                             ELSE IF job \in Terminal THEN "remove" ELSE "idle"
      [] op = "ensure"    -> IF job = "none" THEN "add" ELSE "idle"
      [] op = "cancel"    -> IF job \in {"delayed", "waiting"} THEN "remove" ELSE "idle"

Look(c) ==
    /\ at[c].step = "look"
    /\ IF AfterLook(at[c].op) = "idle" THEN Return(c) ELSE GoOn(c, AfterLook(at[c].op))
    /\ UNCHANGED <<row, job, attempt, step, owed, intents, ensures, cancelled, losses>>

\* Mutant: a job a worker holds is removed like any other.
RemoveHeld(c) ==
    /\ at[c].step = "remove"
    /\ job' = "none"
    /\ attempt' = 0
    /\ cancelled' = (cancelled \/ at[c].op = "cancel")
    /\ GoOn(c, IF at[c].op = "cancel" THEN "write" ELSE "add")
    /\ UNCHANGED <<row, step, owed, intents, ensures, losses>>

\* job.remove(): throws on a job a worker holds, whatever the caller had seen.
Remove(c) ==
    /\ at[c].step = "remove"
    /\ IF job = "active"
         THEN Return(c) /\ UNCHANGED <<job, attempt, cancelled>>
         ELSE /\ job' = "none"
              /\ attempt' = 0
              /\ cancelled' = (cancelled \/ at[c].op = "cancel")
              /\ GoOn(c, IF at[c].op = "cancel" THEN "write" ELSE "add")
    /\ UNCHANGED <<row, step, owed, intents, ensures, losses>>

\* removeQueuedJob closes the row of the job it took.
WriteCancelled(c) ==
    /\ at[c].step = "write"
    /\ row' = "completed"
    /\ Return(c)
    /\ UNCHANGED <<job, attempt, step, owed, intents, ensures, cancelled, losses>>

\* queue.add: BullMQ keeps the job it already holds under the id.
Add(c) ==
    /\ at[c].step = "add"
    /\ IF job # "none" THEN UNCHANGED <<job, attempt>>
       ELSE /\ \/ job' = "waiting"
               \/ at[c].op # "immediate" /\ job' = "delayed"
            /\ attempt' = 0
    /\ Return(c)
    /\ UNCHANGED <<row, step, owed, intents, ensures, cancelled, losses>>

\* job.promote(): throws when the job is no longer delayed.
Promote(c) ==
    /\ at[c].step = "promote"
    /\ job' = IF job = "delayed" THEN "waiting" ELSE job
    /\ Return(c)
    /\ UNCHANGED <<row, attempt, step, owed, intents, ensures, cancelled, losses>>

-----------------------------------------------------------------------------
\* BullMQ and wrapProcessor.

\* The delay of a job, or of a retry, is over.
Due ==
    /\ job = "delayed"
    /\ job' = "waiting"
    /\ UNCHANGED <<row, attempt, at, step, owed, intents, ensures, cancelled, losses>>

\* A worker takes the job.
Take ==
    /\ job = "waiting"
    /\ job' = "active"
    /\ step' = "taken"
    /\ UNCHANGED <<row, attempt, at, owed, intents, ensures, cancelled, losses>>

\* The wrapper marks the row active; a failed write is logged and ignored.
MarkActive ==
    /\ step = "taken"
    /\ step' = "running"
    /\ \/ row' = "active" /\ losses' = losses
       \/ losses < MaxLosses /\ losses' = losses + 1 /\ row' = row
    /\ UNCHANGED <<job, attempt, at, owed, intents, ensures, cancelled>>

\* The processor returns or throws and the wrapper records which, best effort too.
Record ==
    /\ step = "running"
    /\ \E outcome \in Terminal :
         /\ step' = outcome
         /\ \/ row' = outcome /\ losses' = losses
            \/ losses < MaxLosses /\ losses' = losses + 1 /\ row' = row
    /\ UNCHANGED <<job, attempt, at, owed, intents, ensures, cancelled>>

\* BullMQ files the result: a failed attempt with attempts left waits for a retry.
Finish ==
    /\ step \in Terminal
    /\ step' = "idle"
    /\ IF step = "failed" /\ attempt + 1 < MaxAttempts
         THEN job' = "delayed" /\ attempt' = attempt + 1 /\ owed' = owed
         ELSE job' = step /\ attempt' = attempt /\ owed' = FALSE
    /\ UNCHANGED <<row, at, intents, ensures, cancelled, losses>>

\* removeOnComplete / removeOnFail: days later, no call still in flight.
Expire ==
    /\ job \in Terminal
    /\ \A c \in Callers : at[c] = Idle
    /\ job' = "none"
    /\ attempt' = 0
    /\ UNCHANGED <<row, at, step, owed, intents, ensures, cancelled, losses>>

-----------------------------------------------------------------------------
\* Faults.

\* A worker dies with the job: its lock runs out and BullMQ requeues the job.
WorkerDies ==
    /\ step # "idle"
    /\ losses < MaxLosses
    /\ losses' = losses + 1
    /\ job' = "waiting"
    /\ step' = "idle"
    /\ UNCHANGED <<row, attempt, at, owed, intents, ensures, cancelled>>

\* A caller dies between two of its calls.
CallerDies(c) ==
    /\ at[c] # Idle
    /\ losses < MaxLosses
    /\ losses' = losses + 1
    /\ Return(c)
    /\ UNCHANGED <<row, job, attempt, step, owed, intents, ensures, cancelled>>

\* Redis loses a job that has not started: the case ensureJob repairs.
RedisLoses ==
    /\ job \in {"delayed", "waiting"}
    /\ losses < MaxLosses
    /\ losses' = losses + 1
    /\ job' = "none"
    /\ attempt' = 0
    /\ UNCHANGED <<row, at, step, owed, intents, ensures, cancelled>>

Next ==
    \/ \E c \in Callers :
         \/ \E op \in {"enqueue", "immediate"} : Enqueue(c, op)
         \/ Ensure(c) \/ Create(c) \/ Cancel(c) \/ Look(c) \/ Remove(c)
         \/ WriteCancelled(c) \/ Add(c) \/ Promote(c) \/ CallerDies(c)
    \/ Due \/ Take \/ MarkActive \/ Record \/ Finish \/ Expire
    \/ WorkerDies \/ RedisLoses

Spec == Init /\ [][Next]_vars

-----------------------------------------------------------------------------
\* Properties.

\* The row, the queue and every call are in a state the code knows, and the worker
\* is inside the wrapper exactly while BullMQ holds the job as active.
TypeOK ==
    /\ row \in {"none", "queued"} \cup Settled
    /\ job \in {"none"} \cup Live \cup Terminal
    /\ attempt \in 0 .. MaxAttempts - 1
    /\ at \in [Callers -> {Idle} \cup [op : Ops, step : Steps]]
    /\ step \in {"idle", "taken", "running"} \cup Terminal
    /\ (job = "active") = (step # "idle")
    /\ owed \in BOOLEAN /\ cancelled \in BOOLEAN
    /\ intents \in 0 .. MaxIntents /\ ensures \in 0 .. MaxEnsures
    /\ losses \in 0 .. MaxLosses

\* No enqueue is swallowed. When no call is in flight, nothing was lost and nobody
\* cancelled, an enqueue that no finished run has answered still has a job that will
\* run, however callers that saw the same finished job remove and add under one id
\* interleave with each other, with ensureJob and with the worker (enqueue.ts:120-146).
IntentsRun ==
    (owed /\ losses = 0 /\ ~cancelled /\ \A c \in Callers : at[c] = Idle) => job \in Live
=============================================================================
