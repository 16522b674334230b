---------------------------- MODULE ResearchRun ----------------------------
(***************************************************************************)
(* One research run: the claim that starts it, the discovery slices that   *)
(* walk its queries behind a cursor, the verification slices that judge    *)
(* what was found, and Pause, Resume and "Check again"                     *)
(* (lib/research/runner.ts, discovery.ts, verify.ts).  A slice is a job of *)
(* the research queue and enqueues its own successor, so that only the     *)
(* row's status keeps a run to one runner.                                 *)
(*                                                                         *)
(* What a query finds and what a candidate is worth are choices; a pass    *)
(* runs one query.                                                         *)
(***************************************************************************)
EXTENDS Naturals, FiniteSets

CONSTANTS
    Requests,       \* requests that start, resume or re-check the run
    Slots,          \* slots of the research worker
    Found,          \* the candidates the queries can find
    Queries,        \* length of queriesJson
    PassesPerSlice, \* PASSES_PER_SLICE
    MaxTries,       \* MAX_VERIFY_ATTEMPTS
    MaxStarts,      \* bound: start requests
    MaxPauses,      \* bound: pause requests
    MaxTroubles     \* bound: refused enqueues, errors, crashes, lost heartbeats

VARIABLES
    status,         \* ResearchRun.status
    position,       \* queryCursor
    pausing,        \* pauseRequestedAt is set
    warm,           \* updatedAt is younger than STALE_RUNNER_MS
    startedAt,      \* startedAt is set
    found,          \* the candidates' rows
    queue,          \* jobs waiting: discovery slices and verification slices
    ask,            \* ask[r]: a start request in flight and what it has read
    slice,          \* slice[w]: the job a worker slot runs
    searched,       \* history: the queries that were run to their end
    doubled,        \* history: a request claimed or reopened the run beside a runner of it
    unqueued,       \* history: a job was lost, or a verification slice not queued
    muted,          \* history: a live slice's claims were taken for a dead one's
    asks, pauses, troubles      \* history: so far

row == <<status, position, pausing, warm, startedAt>>
past == <<searched, doubled, unqueued, muted, asks, pauses, troubles>>
vars == <<row, found, queue, ask, slice, past>>

Statuses == {"queued", "running", "paused", "failed", "succeeded"}
Startable == Statuses \ {"running"}
Kinds == {"discover", "verify"}

\* verification is "pending", one of the verdicts, or unverified for want of infrastructure.
Verdicts == {"pending", "settled", "unverified"}
Absent == [is |-> "absent", by |-> "none", live |-> FALSE, tries |-> 0]
New == [Absent EXCEPT !.is = "pending"]

NoSlice == [kind |-> "none", at |-> "idle", next |-> 0, passes |-> 0, broke |-> FALSE,
            look |-> {}, mine |-> {}]
NoAsk == [at |-> "idle", was |-> "queued", from |-> 0]

In(v) == {c \in Found : found[c].is = v}
Pending == In("pending")

Init ==
    /\ status = "queued" /\ position = 0
    /\ pausing = FALSE /\ warm = TRUE /\ startedAt = FALSE
    /\ found = [c \in Found |-> Absent]
    /\ queue = [k \in Kinds |-> 0]
    /\ ask = [r \in Requests |-> NoAsk]
    /\ slice = [w \in Slots |-> NoSlice]
    /\ searched = {} /\ doubled = FALSE /\ unqueued = FALSE /\ muted = FALSE
    /\ asks = 0 /\ pauses = 0 /\ troubles = 0

Trouble == troubles < MaxTroubles /\ troubles' = troubles + 1
Fine == UNCHANGED troubles

Worked == \E w \in Slots : slice[w] # NoSlice
Waiting == \E k \in Kinds : queue[k] > 0

\* Any write of the row renews updatedAt.
Touch == warm' = TRUE
Set(s) == status' = s /\ Touch
\* updateMany where status is "running".
IfRunning(s) == IF status = "running" THEN Set(s) ELSE UNCHANGED <<status, warm>>

-----------------------------------------------------------------------------
\* startResearchRun.

Answer(r) == ask' = [ask EXCEPT ![r] = NoAsk]
AskAt(r, l) == ask' = [ask EXCEPT ![r].at = l]

\* The row is read; a finished run goes by reopenVerification first.
Ask(r) ==
    /\ ask[r].at = "idle" /\ asks < MaxStarts
    /\ asks' = asks + 1
    /\ ask' = [ask EXCEPT ![r] =
         [at |-> IF status = "succeeded" \/ (status = "failed" /\ position >= Queries)
                 THEN "reopen" ELSE "claim",
          was |-> status, from |-> position]]
    /\ UNCHANGED <<row, found, queue, slice, searched, doubled, unqueued, muted, pauses, troubles>>

\* A job, a slice or another request stands behind the run already.
Busy(r) == Waiting \/ Worked \/ \E q \in Requests \ {r} : ask[q].at \in {"enqueue", "undo"}

\* reopenVerification: what could not be checked is pending again; with nothing pending
\* the run is already finished.
Reopen(r) ==
    /\ ask[r].at = "reopen"
    /\ found' = [c \in Found |-> IF found[c].is = "unverified" THEN New ELSE found[c]]
    /\ IF Pending \cup In("unverified") = {} THEN Answer(r) ELSE AskAt(r, "claim")
    /\ doubled' = (doubled \/ Busy(r))
    /\ UNCHANGED <<row, queue, slice, searched, unqueued, muted, asks, pauses, troubles>>

\* The claim: the cursor has not moved and the run is startable, or stale.
Claim(r) ==
    /\ ask[r].at = "claim"
    /\ IF position = ask[r].from /\ (status \in Startable \/ ~warm)
         THEN /\ Set("running") /\ pausing' = FALSE
              /\ doubled' = (doubled \/ Busy(r))
              /\ AskAt(r, "enqueue")
         ELSE Answer(r) /\ UNCHANGED <<status, pausing, warm, doubled>>
    /\ UNCHANGED <<position, startedAt, found, queue, slice, searched, unqueued, muted, asks,
                   pauses, troubles>>

\* The first slice is queued; an error may also hide an add that went through.
Enqueue(r) ==
    /\ ask[r].at = "enqueue"
    /\ \/ queue' = [queue EXCEPT !["discover"] = @ + 1] /\ Answer(r) /\ Fine
       \/ Trouble /\ AskAt(r, "undo")
          /\ queue' \in {queue, [queue EXCEPT !["discover"] = @ + 1]}
    /\ UNCHANGED <<row, found, slice, searched, doubled, unqueued, muted, asks, pauses>>

Undo(r) ==
    /\ ask[r].at = "undo"
    /\ IfRunning(IF ask[r].was = "running" THEN "paused" ELSE ask[r].was)
    /\ Answer(r)
    /\ UNCHANGED <<position, pausing, startedAt, found, queue, slice, past>>

\* pauseResearchRun: a flag for a running run, at once for a queued one.
Pause ==
    /\ status \in {"running", "queued"} /\ pauses < MaxPauses
    /\ pauses' = pauses + 1
    /\ IF status = "running" THEN pausing' = TRUE /\ Touch /\ UNCHANGED status
                             ELSE Set("paused") /\ UNCHANGED pausing
    /\ UNCHANGED <<position, startedAt, found, queue, ask, slice, searched, doubled, unqueued,
                   muted, asks, troubles>>

-----------------------------------------------------------------------------
\* The slices.

At(w, l) == slice[w].at = l
GoTo(w, l) == slice' = [slice EXCEPT ![w].at = l]
Done(w) == slice' = [slice EXCEPT ![w] = NoSlice]

Take(w, k) ==
    /\ slice[w] = NoSlice /\ queue[k] > 0
    /\ queue' = [queue EXCEPT ![k] = @ - 1]
    /\ slice' = [slice EXCEPT ![w] = [NoSlice EXCEPT !.kind = k, !.at = "read"]]
    /\ UNCHANGED <<row, found, ask, past>>

\* Before a pass or a batch: a run that is not running ends the slice, a flag pauses it.
ReadRun(w) ==
    /\ At(w, "read")
    /\ CASE status # "running" -> Done(w)
         [] status = "running" /\ pausing -> GoTo(w, "pause")
         [] OTHER -> GoTo(w, IF slice[w].kind = "discover" THEN "load" ELSE "look")
    /\ UNCHANGED <<row, found, queue, ask, past>>

HonourPause(w) ==
    /\ At(w, "pause")
    /\ IfRunning("paused")
    /\ pausing' = IF status = "running" THEN FALSE ELSE pausing
    /\ Done(w)
    /\ UNCHANGED <<position, startedAt, found, queue, ask, past>>

\* runDiscoveryPass reads the cursor, and marks the first start.
Load(w) ==
    /\ At(w, "load")
    /\ slice' = [slice EXCEPT ![w].next = position, ![w].broke = FALSE,
                              ![w].at = IF position < Queries THEN "harvest" ELSE "count"]
    /\ IF startedAt THEN UNCHANGED <<status, warm, startedAt>> ELSE Set("running") /\ startedAt' = TRUE
    /\ UNCHANGED <<position, pausing, found, queue, ask, past>>

\* No search provider is configured: failed, whatever the run has become.
NoProvider(w) ==
    /\ At(w, "load") /\ Trouble
    /\ Set("failed") /\ startedAt' = TRUE
    /\ Done(w)
    /\ UNCHANGED <<position, pausing, found, queue, ask, searched, doubled, unqueued, muted,
                   asks, pauses>>

\* initialVerification: a person outside the target countries is refused at once.
AtInsert == {New, [Absent EXCEPT !.is = "settled"]}

\* A query is run: new candidates are inserted once, by fingerprint; its providers may fail.
Harvest(w) ==
    /\ At(w, "harvest")
    /\ \E hits \in SUBSET In("absent"), broke \in BOOLEAN, as \in AtInsert :
         /\ broke => hits = {}
         /\ found' = [c \in Found |-> IF c \in hits THEN as ELSE found[c]]
         /\ slice' = [slice EXCEPT ![w].at = "record", ![w].broke = @ \/ broke]
    /\ searched' = searched \cup {slice[w].next}
    /\ UNCHANGED <<row, queue, ask, doubled, unqueued, muted, asks, pauses, troubles>>

\* Mutant: the cursor jumps over a query.
RecordTwo(w) ==
    /\ At(w, "record")
    /\ position' = (IF slice[w].next + 2 > Queries THEN Queries ELSE slice[w].next + 2) /\ Touch
    /\ slice' = [slice EXCEPT ![w].next = @ + 2, ![w].passes = @ + 1, ![w].at =
         IF slice[w].next + 2 >= Queries THEN "count"
         ELSE IF slice[w].passes + 1 < PassesPerSlice THEN "read" ELSE "handover"]
    /\ UNCHANGED <<status, pausing, startedAt, found, queue, ask, past>>

\* The cursor is written, not incremented, after each query; the last query ends the pass.
Record(w) ==
    /\ At(w, "record")
    /\ position' = slice[w].next + 1 /\ Touch
    /\ slice' = [slice EXCEPT ![w].next = @ + 1, ![w].passes = @ + 1, ![w].at =
         IF slice[w].next + 1 >= Queries THEN "count"
         ELSE IF slice[w].passes + 1 < PassesPerSlice THEN "read" ELSE "handover"]
    /\ UNCHANGED <<status, pausing, startedAt, found, queue, ask, past>>

\* Behind the last query: nothing found settles the run, candidates go to verification.
Count(w) ==
    /\ At(w, "count")
    /\ GoTo(w, CASE In("absent") = Found /\ slice[w].broke -> "fail"
                 [] In("absent") # Found /\ Pending # {} -> "begin"
                 [] OTHER -> "succeed")
    /\ UNCHANGED <<row, found, queue, ask, past>>

\* The final write of a pass names no status it expects.
Settle(w) ==
    /\ slice[w].at \in {"fail", "succeed"}
    /\ Set(IF At(w, "fail") THEN "failed" ELSE "succeeded")
    /\ Done(w)
    /\ UNCHANGED <<position, pausing, startedAt, found, queue, ask, past>>

\* Mutant: a successor that could not be queued is only logged.
HandOverSilently(w) ==
    /\ slice[w].at \in {"handover", "begin"}
    /\ LET next == IF At(w, "begin") THEN "verify" ELSE "discover" IN
       \/ queue' = [queue EXCEPT ![next] = @ + 1] /\ Fine
       \/ Trouble /\ UNCHANGED queue
    /\ Done(w)
    /\ UNCHANGED <<row, found, ask, searched, doubled, unqueued, muted, asks, pauses>>

\* The next slice, or beginVerification, is queued; refused, the run is paused with the reason.
HandOver(w) ==
    /\ slice[w].at \in {"handover", "begin"}
    /\ LET next == IF At(w, "begin") THEN "verify" ELSE "discover" IN
       \/ queue' = [queue EXCEPT ![next] = @ + 1] /\ Fine /\ UNCHANGED <<status, warm>>
       \/ Trouble /\ IfRunning("paused")
          /\ queue' \in {queue, [queue EXCEPT ![next] = @ + 1]}
    /\ Done(w)
    /\ UNCHANGED <<position, pausing, startedAt, found, ask, searched, doubled, unqueued, muted,
                   asks, pauses>>

\* A discovery slice that throws fails the run with the reason; the job has one attempt.
Throw(w) ==
    /\ slice[w].kind = "discover" /\ slice[w].at \notin {"handover", "begin"}
    /\ Trouble
    /\ IfRunning("failed")
    /\ Done(w)
    /\ UNCHANGED <<position, pausing, startedAt, found, queue, ask, searched, doubled, unqueued,
                   muted, asks, pauses>>

-----------------------------------------------------------------------------
\* Verification; a batch is one candidate.

Claimable(c) == found[c].is = "pending" /\ ~(found[c].by # "none" /\ found[c].live)

\* findMany of the claimable, oldest first: any one of them.
Look(w) ==
    /\ At(w, "look")
    /\ IF \E c \in Found : Claimable(c)
         THEN \E c \in Found : Claimable(c) /\ slice' = [slice EXCEPT ![w].look = {c},
                                                                      ![w].at = "claim"]
         ELSE GoTo(w, "left")
    /\ UNCHANGED <<row, found, queue, ask, past>>

\* updateMany under the same condition, and a read of the rows that carry the token.
ClaimFound(w) ==
    /\ At(w, "claim")
    /\ LET mine == {c \in slice[w].look : Claimable(c)} IN
       /\ found' = [c \in Found |-> IF c \in mine THEN [found[c] EXCEPT !.by = w, !.live = TRUE]
                                    ELSE found[c]]
       /\ slice' = [slice EXCEPT ![w].look = {}, ![w].mine = mine,
                                 ![w].at = IF mine = {} THEN "left" ELSE "judge"]
    /\ UNCHANGED <<row, queue, ask, past>>

\* A verdict, a failure that counts, or a wait that does not.
Outcome(c) ==
    {[Absent EXCEPT !.is = "settled", !.tries = found[c].tries],
     [New EXCEPT !.tries = found[c].tries],
     IF found[c].tries + 1 >= MaxTries
       THEN [Absent EXCEPT !.is = "unverified", !.tries = MaxTries]
       ELSE [New EXCEPT !.tries = found[c].tries + 1]}

\* The batch is judged and its outcome recorded where the claim still holds; the row is
\* touched while the run is running.
Judge(w) ==
    /\ At(w, "judge")
    /\ \E c \in slice[w].mine :
         \/ /\ found[c].is = "pending" /\ found[c].by = w
            /\ \E o \in Outcome(c) : found' = [found EXCEPT ![c] = o]
         \/ /\ ~(found[c].is = "pending" /\ found[c].by = w)
            /\ UNCHANGED found
    /\ slice' = [slice EXCEPT ![w].mine = {}, ![w].at = "left"]
    /\ warm' = (warm \/ status = "running")
    /\ UNCHANGED <<status, position, pausing, startedAt, queue, ask, past>>

\* What is pending decides between another slice and the end.
Left(w) ==
    /\ At(w, "left")
    /\ GoTo(w, IF Pending = {} THEN "finalize" ELSE "again")
    /\ UNCHANGED <<row, found, queue, ask, past>>

\* finalizeVerification: failed if no candidate could be checked, else succeeded.
Finalize(w) ==
    /\ At(w, "finalize")
    /\ LET rows == Found \ In("absent") IN
       IF rows # {} /\ rows = In("unverified")
         THEN IfRunning("failed") /\ UNCHANGED pausing
         ELSE /\ IfRunning("succeeded")
              /\ pausing' = IF status = "running" THEN FALSE ELSE pausing
    /\ Done(w)
    /\ UNCHANGED <<position, startedAt, found, queue, ask, past>>

\* The next slice, at once or after a delay; refused, the job fails and the run stays running.
Again(w) ==
    /\ At(w, "again")
    /\ \/ queue' = [queue EXCEPT !["verify"] = @ + 1] /\ Fine /\ UNCHANGED unqueued
       \/ Trouble /\ unqueued' = TRUE /\ UNCHANGED queue
    /\ Done(w)
    /\ UNCHANGED <<row, found, ask, searched, doubled, muted, asks, pauses>>

-----------------------------------------------------------------------------
\* Time and faults.

\* Five minutes without a write: nobody works the run, though a job may wait its turn.
\* Slices write more often than that, and a start's Redis commands time out before.
RunGoesStale ==
    /\ warm /\ status = "running" /\ ~Worked
    /\ \A r \in Requests : ask[r].at \notin {"enqueue", "undo"}
    /\ warm' = FALSE
    /\ UNCHANGED <<status, position, pausing, startedAt, found, queue, ask, slice, past>>

\* Ten minutes without a heartbeat: the slice is dead, or its heartbeats were lost.
ClaimGoesStale(c) ==
    /\ found[c].is = "pending" /\ found[c].by # "none" /\ found[c].live
    /\ IF found[c].by = "dead" THEN Fine /\ UNCHANGED muted ELSE Trouble /\ muted' = TRUE
    /\ found' = [found EXCEPT ![c].live = FALSE]
    /\ UNCHANGED <<row, queue, ask, slice, searched, doubled, unqueued, asks, pauses>>

\* A worker dies with its job, which BullMQ hands out again, once; its claims stay.
Die(w) ==
    /\ slice[w] # NoSlice /\ Trouble
    /\ found' = [c \in Found |-> IF found[c].by = w THEN [found[c] EXCEPT !.by = "dead"]
                                 ELSE found[c]]
    /\ \/ queue' = [queue EXCEPT ![slice[w].kind] = @ + 1] /\ UNCHANGED unqueued
       \/ unqueued' = TRUE /\ UNCHANGED queue
    /\ Done(w)
    /\ UNCHANGED <<row, ask, searched, doubled, muted, asks, pauses>>

Next ==
    \/ \E r \in Requests : Ask(r) \/ Reopen(r) \/ Claim(r) \/ Enqueue(r) \/ Undo(r)
    \/ Pause
    \/ \E w \in Slots :
         \/ \E k \in Kinds : Take(w, k)
         \/ ReadRun(w) \/ HonourPause(w)
         \/ Load(w) \/ NoProvider(w) \/ Harvest(w) \/ Record(w) \/ Count(w) \/ Settle(w)
         \/ HandOver(w) \/ Throw(w)
         \/ Look(w) \/ ClaimFound(w) \/ Judge(w) \/ Left(w) \/ Finalize(w) \/ Again(w)
         \/ Die(w)
    \/ RunGoesStale
    \/ \E c \in Found : ClaimGoesStale(c)

Spec == Init /\ [][Next]_vars

-----------------------------------------------------------------------------
\* Properties.

\* The row, the jobs, the requests and the claims are in states the code knows.
TypeOK ==
    /\ status \in Statuses /\ position \in 0 .. Queries
    /\ pausing \in BOOLEAN /\ warm \in BOOLEAN /\ startedAt \in BOOLEAN
    /\ found \in [Found -> [is : Verdicts \cup {"absent"}, by : Slots \cup {"none", "dead"},
                            live : BOOLEAN, tries : 0 .. MaxTries]]
    /\ queue \in [Kinds -> Nat]
    /\ \A r \in Requests : ask[r].at \in {"idle", "reopen", "claim", "enqueue", "undo"}
    /\ \A w \in Slots : slice[w].kind = "none" <=> slice[w] = NoSlice
    /\ searched \subseteq 0 .. Queries - 1

RunningIsWorked ==
    (status = "running" /\ ~unqueued) =>
        Waiting \/ Worked \/ \E r \in Requests : ask[r].at \in {"enqueue", "undo"}
JudgedByOne ==
    ~muted => \A c \in Found : Cardinality({w \in Slots : c \in slice[w].mine}) <= 1

\* A running run is being worked: a job waits, a slice runs or the request that claimed it
\* is about to queue one.  Every other end of a slice, refused continuations and thrown
\* errors included, leaves the run in a state that says why (runner.ts:35-36).  The two
\* exceptions are a job lost with its worker and a verification slice that could not be
\* queued.  And where a run has two runners after all, a candidate is judged, and its model
\* calls are paid for, by one slice at a time, unless a live slice's heartbeats were lost
\* (verify.ts:27-29).
WorkedByOne == RunningIsWorked /\ JudgedByOne

\* A slice declares a run succeeded only when every query was run, across pauses, retries,
\* crashes and two runners at once (discovery.ts:176-178), and when no candidate is left to
\* check (verify.ts:24-29).  The second half needs the run to have had one runner: a request
\* that claims it beside a runner, or reopens its unchecked candidates after another request
\* has resumed it, can leave a candidate pending in a succeeded run.
SuccessIsComplete ==
    [][(status = "running" /\ status' = "succeeded" /\ ask' = ask) =>
          searched = 0 .. Queries - 1 /\ (doubled \/ Pending = {})]_vars

=============================================================================
