---------------------------- MODULE ImportBatch ----------------------------
(***************************************************************************)
(* One import: the request that stores the batch and its rows, the parse   *)
(* that judges every row, the chunks that write leads (or pool items) and  *)
(* start cadences, and the commit that closes the batch                    *)
(* (workers/import.ts, lib/workflows/importInline.ts, the import route).   *)
(* Workers run parse, chunk and commit as jobs; without a queue the        *)
(* request runs all three itself.                                          *)
(***************************************************************************)
EXTENDS Naturals, FiniteSets

CONSTANTS
    RowCount,       \* rows of the file
    ChunkSize,      \* CHUNK_SIZE
    Hands,          \* slots of the import worker
    MaxMishaps      \* bound: crashes, errors, stalls and stopped cadences

VARIABLES
    target,         \* ImportBatch.targetType
    batch,          \* ImportBatch.status
    policy,         \* defaultResolution of a row that matches a lead
    entry,          \* entry[r]: the ImportRow, and what the file says in it
    out,            \* out[r]: what was written for the row
    redis,          \* the queue can be reached
    waiting,        \* jobs waiting to run
    hand,           \* hand[p]: what a worker, or the request, runs
    dropped,        \* history: work that nobody will take up again
    twice,          \* history: the kinds of job two executions of which could overlap
    mishaps         \* history: so far

file == <<target, policy>>
past == <<dropped, twice, mishaps>>
vars == <<file, batch, entry, out, redis, waiting, hand, past>>

Rows == 1 .. RowCount
Request == "request"
Actors == Hands \cup {Request}
Targets == {"lead", "pool"}
Policies == {"skip", "update", "import"}
\* bad: the file's row is refused; known: its email is that of a lead (a pool item) that is
\* there already; fresh: neither.
RowKinds == {"bad", "known", "fresh"}
RowStates == {"pending", "valid", "imported", "updated", "error"}

Job(k, rs) == [kind |-> k, rows |-> rs, tries |-> 0]
Attempts(k) == IF k = "parse" THEN 2 ELSE 3

Free == [at |-> "idle", job |-> Job("none", {}), lost |-> FALSE, todo |-> {}, match |-> {},
         clean |-> {}, plan |-> {}, linked |-> {}, row |-> 0]
Nothing == [made |-> 0, noted |-> 0, cadence |-> "none", task |-> FALSE, sched |-> FALSE]

InFlight == {r \in Rows : entry[r].is \in {"pending", "valid"}}

Init ==
    /\ target \in Targets /\ policy \in Policies
    /\ batch = "pending"
    /\ entry \in [Rows -> {[kind |-> k, is |-> "pending", linked |-> FALSE, forced |-> FALSE] :
                             k \in RowKinds}]
    /\ out = [r \in Rows |-> Nothing]
    /\ redis \in BOOLEAN
    /\ waiting = {}
    /\ hand = [p \in Actors |-> IF p = Request THEN [Free EXCEPT !.at = "post"] ELSE Free]
    /\ dropped = FALSE /\ twice = {} /\ mishaps = 0

Mishap == mishaps < MaxMishaps /\ mishaps' = mishaps + 1
Fine == UNCHANGED mishaps

At(p, l) == hand[p].at = l
GoTo(p, l) == hand' = [hand EXCEPT ![p].at = l]
Finish(p) == hand' = [hand EXCEPT ![p] = Free]
Set(r, s) == entry' = [entry EXCEPT ![r].is = s]

\* The job is waiting or running: an enqueue of it adds nothing.
Alive(k, rs) ==
    \/ \E j \in waiting : j.kind = k /\ j.rows = rs
    \/ \E w \in Hands : hand[w].job.kind = k /\ hand[w].job.rows = rs /\ ~hand[w].lost
Queued(k, rs) == IF Alive(k, rs) THEN waiting ELSE waiting \cup {Job(k, rs)}

-----------------------------------------------------------------------------
\* The request.

\* Batch and rows are stored; with a queue the parse is a job, without one it runs here.  An
\* add that fails, perhaps after it went through, falls back to running here too.
Post ==
    /\ At(Request, "post")
    /\ \/ /\ redis
          /\ waiting' = Queued("parse", {}) /\ Finish(Request)
          /\ Fine /\ UNCHANGED twice
       \/ /\ redis /\ Mishap
          /\ waiting' \in {waiting, Queued("parse", {})}
          /\ twice' = IF waiting' = waiting THEN {} ELSE {"parse"}
          /\ GoTo(Request, "parse")
       \/ /\ ~redis
          /\ GoTo(Request, "parse")
          /\ Fine /\ UNCHANGED <<waiting, twice>>
    /\ UNCHANGED <<file, batch, entry, out, redis, dropped>>

\* A worker takes a job.
Take(w, j) ==
    /\ hand[w] = Free /\ redis /\ j \in waiting
    /\ waiting' = waiting \ {j}
    /\ hand' = [hand EXCEPT ![w] = [Free EXCEPT !.job = j,
                                                !.at = IF j.kind = "again" THEN "commit" ELSE j.kind,
                                                !.todo = j.rows]]
    /\ UNCHANGED <<file, batch, entry, out, redis, past>>

-----------------------------------------------------------------------------
\* handleImportParse, handlePoolParse.

\* The batch is being parsed, and its pending rows are read.
Parse(p) ==
    /\ At(p, "parse")
    /\ batch' = "parsing"
    /\ hand' = [hand EXCEPT ![p].todo = {r \in Rows : entry[r].is = "pending"},
                            ![p].at = "leads"]
    /\ UNCHANGED <<file, entry, out, redis, waiting, past>>

\* The leads the rows are matched with are read once.
ReadLeads(p) ==
    /\ At(p, "leads")
    /\ hand' = [hand EXCEPT ![p].match = {r \in Rows : entry[r].kind = "known" \/ out[r].made > 0},
                            ![p].at = "judge"]
    /\ UNCHANGED <<file, batch, entry, out, redis, waiting, past>>

\* A row is refused, skipped, merged into the lead it matches, or clean; no write names
\* the status it expects.
Judge(p) ==
    /\ At(p, "judge") /\ hand[p].todo # {}
    /\ \E r \in hand[p].todo : (\A q \in hand[p].todo : r <= q) /\
         LET clean == [hand EXCEPT ![p].todo = @ \ {r}, ![p].clean = @ \cup {r}]
             other == [hand EXCEPT ![p].todo = @ \ {r}] IN
         CASE entry[r].kind = "bad" -> Set(r, "error") /\ hand' = other
           [] entry[r].kind # "bad" /\ r \notin hand[p].match ->
                UNCHANGED entry /\ hand' = clean
           [] OTHER ->
                CASE policy = "skip" -> Set(r, "error") /\ hand' = other
                  [] policy = "update" ->
                       /\ entry' = [entry EXCEPT ![r].is = "updated", ![r].linked = TRUE]
                       /\ hand' = other
                  [] OTHER -> entry' = [entry EXCEPT ![r].forced = TRUE] /\ hand' = clean
    /\ UNCHANGED <<file, batch, out, redis, waiting, past>>

\* The clean rows, in the order of the file, a chunk at a time.
Chunks(clean) ==
    LET chunkOf(r) == Cardinality({q \in clean : q < r}) \div ChunkSize
    IN {{q \in clean : chunkOf(q) = chunkOf(r)} : r \in clean}

MarkValid(p) ==
    /\ At(p, "judge") /\ hand[p].todo = {}
    /\ entry' = [r \in Rows |-> IF r \in hand[p].clean THEN [entry[r] EXCEPT !.is = "valid"]
                                ELSE entry[r]]
    /\ hand' = [hand EXCEPT ![p].at = "dispatch", ![p].plan = Chunks(hand[p].clean),
                            ![p].match = {}, ![p].clean = {}]
    /\ UNCHANGED <<file, batch, out, redis, waiting, past>>

First(S) == CHOOSE c \in S : \A d \in S : \E q \in c : \A z \in d : q <= z

\* The chunks are queued, in order; the request runs each of them instead.
DispatchChunk(p) ==
    /\ At(p, "dispatch") /\ hand[p].plan # {}
    /\ LET c == First(hand[p].plan) IN
       IF p = Request
         THEN /\ hand' = [hand EXCEPT ![p].plan = @ \ {c}, ![p].todo = c, ![p].at = "chunk"]
              /\ UNCHANGED waiting
         ELSE /\ redis
              /\ hand' = [hand EXCEPT ![p].plan = @ \ {c}]
              /\ waiting' = Queued("chunk", c)
    /\ UNCHANGED <<file, batch, entry, out, redis, past>>

DispatchCommit(p) ==
    /\ At(p, "dispatch") /\ hand[p].plan = {}
    /\ IF p = Request
         THEN GoTo(p, "commit") /\ UNCHANGED waiting
         ELSE redis /\ waiting' = Queued("commit", {}) /\ GoTo(p, "parsed")
    /\ UNCHANGED <<file, batch, entry, out, redis, past>>

\* Parse's last write names no status it expects.
Parsed(p) ==
    /\ At(p, "parsed")
    /\ batch' = "parsed"
    /\ Finish(p)
    /\ UNCHANGED <<file, entry, out, redis, waiting, past>>

-----------------------------------------------------------------------------
\* handleImportChunk, handlePoolChunk.

\* A chunk returns to the parse that runs it, or ends its job.
Return(p) ==
    IF p = Request
      THEN hand' = [hand EXCEPT ![p].at = "dispatch", ![p].todo = {}, ![p].linked = {}, ![p].row = 0]
      ELSE Finish(p)

\* Mutant: a retried chunk leaves the rows that are marked imported alone.
ReadChunkValid(p) ==
    /\ At(p, "chunk")
    /\ LET mine == {r \in hand[p].todo : entry[r].is = "valid"} IN
       IF mine = {}
         THEN Return(p)
         ELSE hand' = [hand EXCEPT ![p].todo = mine, ![p].at = "next",
                                   ![p].linked = {r \in mine : entry[r].linked}]
    /\ UNCHANGED <<file, batch, entry, out, redis, waiting, past>>

\* Rows that are valid, or imported by an attempt that did not finish, with their leads.
ReadChunk(p) ==
    /\ At(p, "chunk")
    /\ LET mine == {r \in hand[p].todo : entry[r].is \in {"valid", "imported"}} IN
       IF mine = {}
         THEN Return(p)
         ELSE hand' = [hand EXCEPT ![p].todo = mine, ![p].at = "next",
                                   ![p].linked = {r \in mine : entry[r].linked}]
    /\ UNCHANGED <<file, batch, entry, out, redis, waiting, past>>

NextRow(p) ==
    /\ At(p, "next") /\ hand[p].todo # {}
    /\ \E r \in hand[p].todo :
         hand' = [hand EXCEPT ![p].todo = @ \ {r}, ![p].row = r,
           ![p].at = CASE r \in hand[p].linked -> "mark"
                       [] r \notin hand[p].linked /\ target = "lead" -> "create"
                       [] OTHER -> "find"]
    /\ UNCHANGED <<file, batch, entry, out, redis, waiting, past>>

\* A pool item of this batch under the same key is taken for the row's own.
FindItem(p) ==
    /\ At(p, "find")
    /\ GoTo(p, IF out[hand[p].row].made > 0 THEN "mark" ELSE "create")
    /\ UNCHANGED <<file, batch, entry, out, redis, waiting, past>>

\* Mutant: nothing in the database tells one lead of the email from another.
CreateAlways(p) ==
    /\ At(p, "create")
    /\ LET r == hand[p].row IN
       out' = [out EXCEPT ![r].made = @ + 1]
    /\ GoTo(p, "mark")
    /\ UNCHANGED <<file, batch, entry, redis, waiting, past>>

\* A lead is unique by its email in the campaign, unless the row is forced: the loser of a
\* race adopts the winner's.  Pool items have no such key.
Create(p) ==
    /\ At(p, "create")
    /\ LET r == hand[p].row IN
       out' = IF target = "lead" /\ ~entry[r].forced /\ out[r].made > 0 THEN out
              ELSE [out EXCEPT ![r].made = @ + 1]
    /\ GoTo(p, "mark")
    /\ UNCHANGED <<file, batch, entry, redis, waiting, past>>

MarkImported(p) ==
    /\ At(p, "mark")
    /\ entry' = [entry EXCEPT ![hand[p].row].is = "imported", ![hand[p].row].linked = TRUE]
    /\ GoTo(p, IF target = "lead" THEN "note" ELSE "noted")
    /\ UNCHANGED <<file, batch, out, redis, waiting, past>>

\* The pool looks for the activity before it writes one.
LookForNote(p) ==
    /\ At(p, "noted")
    /\ GoTo(p, IF out[hand[p].row].noted > 0 THEN "next" ELSE "note")
    /\ UNCHANGED <<file, batch, entry, out, redis, waiting, past>>

\* The activity of a lead is unique by its key, so that the loser of a race writes none.
Note(p) ==
    /\ At(p, "note")
    /\ out' = [out EXCEPT ![hand[p].row].noted = IF target = "lead" THEN 1 ELSE @ + 1]
    /\ GoTo(p, IF target = "lead" THEN "enrol" ELSE "next")
    /\ UNCHANGED <<file, batch, entry, redis, waiting, past>>

\* The enrolment, under an id made of the lead's; one that is there already is kept.
Enrol(p) ==
    /\ At(p, "enrol")
    /\ out' = [out EXCEPT ![hand[p].row].cadence = IF @ = "none" THEN "active" ELSE @]
    /\ GoTo(p, "task")
    /\ UNCHANGED <<file, batch, entry, redis, waiting, past>>

\* createOrReuseTask, under an id made of the enrolment's.
CreateTask(p) ==
    /\ At(p, "task")
    /\ out' = [out EXCEPT ![hand[p].row].task = TRUE]
    /\ GoTo(p, "schedule")
    /\ UNCHANGED <<file, batch, entry, redis, waiting, past>>

\* applyStepScheduling, strict: with the cadence stopped it refuses, and the row is an error.
Schedule(p) ==
    /\ At(p, "schedule")
    /\ LET r == hand[p].row IN
       IF out[r].cadence = "active"
         THEN /\ redis
              /\ out' = [out EXCEPT ![r].sched = TRUE] /\ UNCHANGED entry
         ELSE Set(r, "error") /\ UNCHANGED out
    /\ GoTo(p, "next")
    /\ UNCHANGED <<file, batch, redis, waiting, past>>

RowSteps == {"find", "create", "mark", "noted", "note", "enrol", "task", "schedule"}

\* Whatever a row's own statements throw, the row is an error and the chunk goes on.
RowFails(p) ==
    /\ hand[p].at \in RowSteps
    /\ \/ At(p, "schedule") /\ ~redis /\ Fine
       \/ Mishap
    /\ Set(hand[p].row, "error")
    /\ GoTo(p, "next")
    /\ UNCHANGED <<file, batch, out, redis, waiting, dropped, twice>>

\* The chunk that finds no row in flight queues the commit; a pool chunk queues none.
EndChunk(p) ==
    /\ At(p, "next") /\ hand[p].todo = {}
    /\ IF target = "lead" /\ InFlight = {}
         THEN redis /\ waiting' = Queued("commit", {})
         ELSE UNCHANGED waiting
    /\ Return(p)
    /\ UNCHANGED <<file, batch, entry, out, redis, past>>

-----------------------------------------------------------------------------
\* handleImportCommit.

Answer(p) == IF p = Request THEN GoTo(p, "parsed") ELSE Finish(p)

Commit(p) ==
    /\ At(p, "commit")
    /\ IF batch = "committed" THEN Answer(p) ELSE GoTo(p, "barrier")
    /\ UNCHANGED <<file, batch, entry, out, redis, waiting, past>>

\* Rows in flight: the commit is queued again, under an identity of its own.
Barrier(p) ==
    /\ At(p, "barrier")
    /\ IF InFlight = {}
         THEN GoTo(p, "closing") /\ UNCHANGED waiting
         ELSE redis /\ waiting' = waiting \cup {Job("again", {})} /\ Answer(p)
    /\ UNCHANGED <<file, batch, entry, out, redis, past>>

\* The status passes through "committing", which nobody reads, while the rows are counted.
Close(p) ==
    /\ At(p, "closing")
    /\ batch' = "committed"
    /\ Answer(p)
    /\ UNCHANGED <<file, entry, out, redis, waiting, past>>

-----------------------------------------------------------------------------
\* Faults.

\* A job, or another execution that would be handed out again, has the row before it, or an
\* execution has it at hand.
StillDue(r, p) ==
    \/ \E j \in waiting : r \in j.rows
    \/ \E q \in Actors \ {p} :
         \/ r \in hand[q].todo /\ ~hand[q].lost
         \/ hand[q].at \in RowSteps /\ hand[q].row = r

\* The execution ends without an outcome, and its job is handed out again while it has
\* attempts left.  A request is not repeated; rows that a parse has marked valid without
\* queueing their chunk are in no later parse; and nobody returns to the row of an execution
\* that had lost its job's lock, once the job is through.
Abandon(p) ==
    LET j == hand[p].job
        again == p # Request /\ ~hand[p].lost /\ j.tries + 1 < Attempts(j.kind)
        orphan == hand[p].lost /\ hand[p].at \in RowSteps /\ ~StillDue(hand[p].row, p)
    IN /\ waiting' = IF again THEN waiting \cup {[j EXCEPT !.tries = @ + 1]} ELSE waiting
       /\ dropped' = (dropped \/ hand[p].plan # {} \/ (~again /\ ~hand[p].lost) \/ orphan)
       /\ Finish(p)

\* A statement outside the rows' own fails, or the process dies.
Fail(p) ==
    /\ hand[p].at \notin {"idle", "post"}
    /\ Mishap
    /\ Abandon(p)
    /\ UNCHANGED <<file, batch, entry, out, redis, twice>>

\* Every add fails while Redis is away.
QueueRefuses(p) ==
    /\ ~redis
    /\ \/ At(p, "dispatch") /\ p # Request
       \/ At(p, "next") /\ hand[p].todo = {} /\ target = "lead" /\ InFlight = {}
       \/ At(p, "barrier") /\ InFlight # {}
    /\ Abandon(p)
    /\ UNCHANGED <<file, batch, entry, out, redis, twice, mishaps>>

\* A live execution loses its job's lock: the job is handed out beside it.
Stall(w) ==
    /\ w \in Hands /\ hand[w] # Free /\ ~hand[w].lost /\ Mishap
    /\ hand' = [hand EXCEPT ![w].lost = TRUE]
    /\ waiting' = waiting \cup {hand[w].job}
    /\ twice' = twice \cup {hand[w].job.kind}
    /\ UNCHANGED <<file, batch, entry, out, redis, dropped>>

\* A reply or a rep stops a cadence the import has just started.
StopCadence(r) ==
    /\ out[r].cadence = "active" /\ Mishap
    /\ out' = [out EXCEPT ![r].cadence = "stopped"]
    /\ UNCHANGED <<file, batch, entry, redis, waiting, hand, dropped, twice>>

RedisReturns ==
    /\ ~redis /\ redis' = TRUE
    /\ UNCHANGED <<file, batch, entry, out, waiting, hand, past>>

Next ==
    \/ Post \/ RedisReturns
    \/ \E w \in Hands : Stall(w) \/ \E j \in waiting : Take(w, j)
    \/ \E p \in Actors :
         \/ Parse(p) \/ ReadLeads(p) \/ Judge(p) \/ MarkValid(p)
         \/ DispatchChunk(p) \/ DispatchCommit(p) \/ Parsed(p)
         \/ ReadChunk(p) \/ NextRow(p) \/ FindItem(p) \/ Create(p) \/ MarkImported(p)
         \/ LookForNote(p) \/ Note(p) \/ Enrol(p) \/ CreateTask(p) \/ Schedule(p)
         \/ RowFails(p) \/ EndChunk(p)
         \/ Commit(p) \/ Barrier(p) \/ Close(p)
         \/ Fail(p) \/ QueueRefuses(p)
    \/ \E r \in Rows : StopCadence(r)

Spec == Init /\ [][Next]_vars

-----------------------------------------------------------------------------
\* Properties.

\* The batch, the rows, the jobs and the executions are in states the code knows.
TypeOK ==
    /\ target \in Targets /\ policy \in Policies
    /\ batch \in {"pending", "parsing", "parsed", "committed"}
    /\ \A r \in Rows : /\ entry[r].is \in RowStates /\ entry[r].kind \in RowKinds
                       /\ out[r].made \in Nat /\ out[r].noted \in Nat
                       /\ out[r].cadence \in {"none", "active", "stopped"}
    /\ \A j \in waiting : j.kind \in {"parse", "chunk", "commit", "again"} /\ j.rows \subseteq Rows
                            /\ j.tries < Attempts(j.kind)
    /\ \A p \in Actors : hand[p].todo \cup hand[p].clean \cup hand[p].linked \subseteq Rows

\* A job delivered twice, retried after a crash at any statement, or run beside the request
\* that fell back to running it, writes each row once (import-fault-injection.test.ts,
\* workers/import.ts:729-741): a lead and its activity always, for the database refuses the
\* second; a pool item and its activity, which are looked for and then written, as long as
\* no two executions of one job overlap; a lead forced beside its duplicate has no key,
\* and every fault may repeat it.
OnePerRow ==
    \A r \in Rows :
        CASE target = "pool" -> {"parse", "chunk"} \cap twice # {} \/ (out[r].made <= 1 /\ out[r].noted <= 1)
          [] target = "lead" /\ entry[r].forced -> out[r].made <= 1 + mishaps
          [] OTHER -> out[r].made <= 1

Whole(r) ==
    /\ out[r].made > 0 /\ out[r].noted > 0
    /\ target = "lead" => out[r].cadence # "none" /\ out[r].task /\ out[r].sched

\* No row is forgotten half-way.  When no parse and no chunk is left to run and none was
\* dropped, every row has its outcome, and a row called imported has everything an import
\* gives it, its cadence's first task and job included, whatever attempts died between
\* writing "imported" and the rest, and whichever chunk ran twice.  And a batch is committed
\* only when no row is in flight, whichever of the commits queued by the parse, by the last
\* chunk and by the barrier itself comes first (workers/import.ts:1092).  Two parses beside
\* each other are left out: the second writes "valid" over what the first one's chunks did.
SettledIsWhole ==
    "parse" \notin twice =>
      /\ batch = "committed" => InFlight = {}
      /\ (/\ ~dropped /\ \A j \in waiting : j.kind \in {"commit", "again"}
          /\ \A p \in Actors : hand[p].at \in {"idle", "commit", "barrier", "closing"})
           => InFlight = {} /\ \A r \in Rows : entry[r].is = "imported" => Whole(r)

=============================================================================
