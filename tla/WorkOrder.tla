------------------------------- MODULE WorkOrder -------------------------------
(***************************************************************************)
(* Work orders of one lead: activation under a lease (lib/workorders), the  *)
(* approval queue, and the agent worker that runs an order's plan through   *)
(* the action ledger (lib/agent/runtime.ts).                                *)
(*                                                                         *)
(* A "launch" reaches the prospect and needs the lead's lease; a "design"   *)
(* researches and drafts, and needs none.  One action is one statement on   *)
(* the database with the reads that decide it, or one call of a tool.       *)
(***************************************************************************)
EXTENDS Integers, Sequences, FiniteSets

CONSTANTS
  Orders,        \* work orders on the lead
  Workers,       \* executions of the agent worker
  Clerks,        \* dispatch requests in flight
  NoOrder,
  Modes,         \* the autonomy modes the tenant moves between, see Rank
  Budget,        \* units of spend an order may use
  MaxAttempts,   \* attempts of a job
  MaxEvents,     \* bound: requests, decisions and deadlines
  MaxFaults      \* bound: crashes and stalls

ASSUME OrderAssumption == NoOrder \notin Orders \cup Workers
ASSUME ProcAssumption ==
  /\ IsFiniteSet(Workers) /\ IsFiniteSet(Clerks)
  /\ Workers \cap Clerks = {}
ASSUME BoundAssumption ==
  /\ Modes # {} /\ Modes \subseteq 0..3
  /\ {Budget, MaxEvents, MaxFaults} \subseteq Nat /\ MaxAttempts \in Nat \ {0}

VARIABLES
  kind, status, reason, overtime,  \* order rows
  used, spent,           \* the counter on the row and the ledger of AI calls
  lease, minted,         \* the lead's lease and the tokens minted so far
  job,                   \* the order's job in the queue
  request,               \* approval requests by action key
  action,                \* the action ledger by key
  lead, enrolled, fresh, \* operating state, who launched, research cache
  policy,                \* autonomy mode of drafting and launching
  pc, at, run,           \* executions and dispatches
  done, seen,          \* history
  events, faults

rowVars == <<kind, status, reason, overtime>>
spendVars == <<used, spent>>
leaseVars == <<lease, minted>>
worldVars == <<lead, enrolled, fresh, policy, seen>>
procVars == <<pc, at, run>>
bounds == <<events, faults>>
vars == <<rowVars, spendVars, leaseVars, job, request, action, worldVars,
          procVars, done, bounds>>

Procs == Workers \cup Clerks
Tools == {"research", "draft", "launch"}
Keys == Orders \X {1, 2} \X Tools

\* decideCapability, as a rank: 0 runs freely, 1 wants an approval, 2 a
\* manager's approval, 3 is for people only.
Allow == 0
Deny == 3

Occupying == {"active", "paused"}
NoRequest == [status |-> "none", level |-> 1, late |-> FALSE]
NoJob == [state |-> "none", owner |-> NoOrder, token |-> 0, tries |-> 0]
NoRun == [plan |-> <<>>, i |-> 1, token |-> 0, level |-> 1,
          approved |-> FALSE, result |-> "ok", keep |-> FALSE]

TypeOK ==
  /\ kind \in [Orders -> {"launch", "design"}]
  /\ status \in [Orders -> {"draft", "active", "paused", "completed"}]
  /\ reason \in [Orders -> {"none", "budget", "approval"}]
  /\ overtime \in [Orders -> BOOLEAN]
  /\ used \in [Orders -> Nat] /\ spent \in [Orders -> Nat]
  /\ lease \in [holder : Orders \cup {NoOrder}, token : 0..MaxEvents, live : BOOLEAN]
  /\ minted \in 0..MaxEvents
  /\ job \in [Orders -> [state : {"none", "waiting", "active"},
                         owner : Workers \cup {NoOrder}, token : 0..MaxEvents,
                         tries : 0..(MaxAttempts - 1)]]
  /\ request \in [Keys -> [status : {"none", "pending", "approved", "rejected", "expired"},
                           level : 1..2, late : BOOLEAN]]
  /\ action \in [Keys -> {"none", "running", "completed", "failed", "refused"}]
  /\ lead \in {"ready", "human"} /\ enrolled \in Orders \cup {NoOrder}
  /\ fresh \in BOOLEAN /\ policy \in Modes /\ seen \subseteq Modes
  /\ pc \in [Procs -> {"idle", "check", "request", "resume", "authorize", "tool",
                       "record", "settle", "finish", "free", "end", "throw", "pauseBudget",
                       "pauseApproval", "claim", "reclaim", "activate",
                       "enqueue"}]
  /\ at \in [Procs -> Orders \cup {NoOrder}]
  /\ run \in [Procs -> [plan : Seq(Tools), i : Nat, token : 0..MaxEvents, level : 1..2,
                        approved : BOOLEAN,
                        result : {"ok", "retry", "failed"}, keep : BOOLEAN]]
  /\ done \in [Keys -> Nat]
  /\ events \in 0..MaxEvents /\ faults \in 0..MaxFaults

Init ==
  /\ kind \in [Orders -> {"launch", "design"}]
  /\ status = [o \in Orders |-> "draft"]
  /\ reason = [o \in Orders |-> "none"]
  /\ overtime = [o \in Orders |-> FALSE]
  /\ used = [o \in Orders |-> 0] /\ spent = [o \in Orders |-> 0]
  /\ lease = [holder |-> NoOrder, token |-> 0, live |-> FALSE] /\ minted = 0
  /\ job = [o \in Orders |-> NoJob]
  /\ request = [k \in Keys |-> NoRequest]
  /\ action = [k \in Keys |-> "none"]
  /\ lead = "ready" /\ enrolled = NoOrder /\ fresh = FALSE
  /\ policy \in Modes /\ seen = {policy}
  /\ pc = [p \in Procs |-> "idle"]
  /\ at = [p \in Procs |-> NoOrder]
  /\ run = [p \in Procs |-> NoRun]
  /\ done = [k \in Keys |-> 0]
  /\ events = 0 /\ faults = 0

(***************************************************************************)
(* Shared pieces                                                           *)
(***************************************************************************)
Goto(p, l) == pc' = [pc EXCEPT ![p] = l]
Leave(p) ==
  /\ Goto(p, "idle")
  /\ at' = [at EXCEPT ![p] = NoOrder]
  /\ run' = [run EXCEPT ![p] = NoRun]
Stay == UNCHANGED <<at, run>>

Event == events < MaxEvents /\ events' = events + 1 /\ UNCHANGED faults
Fault == faults < MaxFaults /\ faults' = faults + 1 /\ UNCHANGED events

\* assessLaunchEligibility: the lead is ready and nobody launched it, or this
\* order's own launch is under way.
Launchable(o) ==
  /\ lead = "ready"
  /\ enrolled \in {o, NoOrder}

\* planWorkOrderSteps: a launch that may not happen and research that is fresh
\* are left out, and the steps behind them move up.
Plan(o) ==
  IF kind[o] = "launch" THEN IF Launchable(o) THEN <<"launch">> ELSE <<>>
  ELSE IF fresh THEN <<"draft">> ELSE <<"research", "draft">>

Tool(w) == run[w].plan[run[w].i]
Key(w) == <<at[w], run[w].i, Tool(w)>>       \* workOrderActionKey
\* Research is free; a launch is never below its ceiling, whatever is stored.
Mode(tool) ==
  CASE tool = "research" -> Allow
    [] tool = "draft" -> policy
    [] tool = "launch" -> IF policy = Allow THEN 1 ELSE policy
Exhausted(o) == used[o] >= Budget \/ overtime[o]

\* Mutant: the runtime trusts that there is a request and looks at its status
\* no more.
ClearedById(k) ==
  /\ request[k].status # "none" /\ ~request[k].late
  /\ status[k[1]] \in Occupying
  /\ Mode(k[3]) # Deny

\* resumeApprovedAction: everything is looked at again.
Cleared(k) ==
  /\ request[k].status = "approved" /\ ~request[k].late
  /\ status[k[1]] \in Occupying
  /\ Mode(k[3]) # Deny
  /\ request[k].level >= Mode(k[3])

(***************************************************************************)
(* dispatchWorkOrder: activateWorkOrder, then the job                      *)
(***************************************************************************)

\* detectActivationConflicts, for an order that reaches the prospect.
Conflict(o) ==
  /\ kind[o] = "launch"
  /\ \/ \E p \in Orders \ {o} : kind[p] = "launch" /\ status[p] \in Occupying
     \/ lease.live /\ lease.holder # o
     \/ enrolled # NoOrder
     \/ lead = "human"

\* The order and its conflicts are read; nothing is written.
Dispatch(c, o) ==
  /\ pc[c] = "idle" /\ Event
  /\ \/ status[o] = "active" /\ Goto(c, "reclaim")
     \/ status[o] \in {"draft", "paused"} /\ ~Conflict(o) /\ Goto(c, "claim")
  /\ at' = [at EXCEPT ![c] = o]
  /\ UNCHANGED <<rowVars, spendVars, leaseVars, job, request, action, worldVars, run, done>>

\* claimLease: free, dead or our own already.
Claimable(o) == ~lease.live \/ lease.holder = o
TakeLease(c, o) ==
  /\ lease' = [holder |-> o, token |-> minted + 1, live |-> TRUE]
  /\ minted' = minted + 1

Claim(c) ==
  LET o == at[c] IN
  /\ pc[c] = "claim"
  /\ \/ kind[o] = "design" /\ Goto(c, "activate") /\ Stay /\ UNCHANGED leaseVars
     \/ kind[o] = "launch" /\ Claimable(o) /\ TakeLease(c, o)
        /\ Goto(c, "activate") /\ run' = [run EXCEPT ![c].token = minted + 1] /\ UNCHANGED at
     \/ kind[o] = "launch" /\ ~Claimable(o) /\ Leave(c) /\ UNCHANGED leaseVars
  /\ UNCHANGED <<rowVars, spendVars, job, request, action, worldVars, done, bounds>>

\* Mutant: an order that is already active is queued once more.
ReclaimRequeues(c) ==
  /\ pc[c] = "reclaim"
  /\ job' = [job EXCEPT ![at[c]] = [NoJob EXCEPT !.state = "waiting"]]
  /\ Leave(c)
  /\ UNCHANGED <<rowVars, spendVars, leaseVars, request, action, worldVars, done, bounds>>

\* An order that is already active gets a new token and no job.
Reclaim(c) ==
  LET o == at[c] IN
  /\ pc[c] = "reclaim"
  /\ \/ kind[o] = "launch" /\ Claimable(o) /\ TakeLease(c, o)
     \/ (kind[o] = "design" \/ ~Claimable(o)) /\ UNCHANGED leaseVars
  /\ Leave(c)
  /\ UNCHANGED <<rowVars, spendVars, job, request, action, worldVars, done, bounds>>

Activate(c) ==
  LET o == at[c] IN
  /\ pc[c] = "activate"
  /\ \/ /\ status[o] \in {"draft", "paused"}
        /\ status' = [status EXCEPT ![o] = "active"]
        /\ reason' = [reason EXCEPT ![o] = "none"]
        /\ Goto(c, "enqueue") /\ Stay
     \/ status[o] \notin {"draft", "paused"} /\ Leave(c) /\ UNCHANGED <<status, reason>>
  /\ UNCHANGED <<kind, overtime, spendVars, leaseVars, job, request, action, worldVars,
                 done, bounds>>

\* One job per order: a live one is left alone.
Enqueue(c) ==
  LET o == at[c] IN
  /\ pc[c] = "enqueue"
  /\ IF job[o].state = "none"
     THEN job' = [job EXCEPT ![o] = [NoJob EXCEPT !.state = "waiting", !.token = run[c].token]]
     ELSE UNCHANGED job
  /\ Leave(c)
  /\ UNCHANGED <<rowVars, spendVars, leaseVars, request, action, worldVars, done, bounds>>

(***************************************************************************)
(* handleExecuteWorkOrder and executeWorkOrder                             *)
(***************************************************************************)
WorkerOnly == UNCHANGED <<kind, overtime, minted, lead, policy, seen, bounds>>

Take(w, o) ==
  /\ pc[w] = "idle" /\ job[o].state = "waiting"
  /\ job' = [job EXCEPT ![o].state = "active", ![o].owner = w]
  /\ Goto(w, "check")
  /\ at' = [at EXCEPT ![w] = o]
  /\ run' = [run EXCEPT ![w] = [NoRun EXCEPT !.plan = Plan(o), !.token = job[o].token]]
  /\ UNCHANGED <<status, reason, spendVars, lease, request, action, enrolled, fresh, done>>
  /\ WorkerOnly

\* The head of the loop: still active, still budget, still authorized?
Check(w) ==
  LET o == at[w] IN
  /\ pc[w] = "check"
  /\ \/ run[w].i > Len(run[w].plan) /\ Goto(w, "finish") /\ UNCHANGED run
     \/ /\ run[w].i <= Len(run[w].plan) /\ status[o] # "active"
        /\ Goto(w, "end") /\ run' = [run EXCEPT ![w].keep = (reason[o] = "approval")]
     \/ /\ run[w].i <= Len(run[w].plan) /\ status[o] = "active"
        /\ \/ Exhausted(o) /\ Goto(w, "pauseBudget") /\ UNCHANGED run
           \/ ~Exhausted(o) /\ Mode(Tool(w)) = Deny /\ Goto(w, "end") /\ UNCHANGED run
           \/ ~Exhausted(o) /\ Mode(Tool(w)) = Allow /\ Goto(w, "authorize") /\ UNCHANGED run
           \/ /\ ~Exhausted(o) /\ Mode(Tool(w)) \in 1..2
              /\ Goto(w, "request") /\ run' = [run EXCEPT ![w].level = Mode(Tool(w))]
  /\ UNCHANGED <<status, reason, spendVars, lease, job, request, action, enrolled, fresh, at,
                 done>>
  /\ WorkerOnly

\* requestApproval: the request of this action key, made if it is missing.
Request(w) ==
  LET k == Key(w) IN
  /\ pc[w] = "request"
  /\ request' = IF request[k].status # "none" THEN request
                ELSE [request EXCEPT ![k] = [NoRequest EXCEPT !.status = "pending",
                                                              !.level = run[w].level]]
  /\ Goto(w, "resume") /\ Stay
  /\ UNCHANGED <<status, reason, spendVars, lease, job, action, enrolled, fresh, done>>
  /\ WorkerOnly

\* The decision as it stands: nobody has decided, it may go ahead, or it is
\* refused for good.
Resume(w) ==
  LET k == Key(w)
      waiting == request[k].status = "pending" /\ ~request[k].late IN
  /\ pc[w] = "resume"
  /\ \/ waiting /\ Goto(w, "pauseApproval") /\ UNCHANGED run
     \/ ~waiting /\ Cleared(k) /\ Goto(w, "authorize")
        /\ run' = [run EXCEPT ![w].approved = TRUE]
     \/ ~waiting /\ ~Cleared(k) /\ Goto(w, "end") /\ UNCHANGED run
  /\ UNCHANGED <<status, reason, spendVars, lease, job, request, action, enrolled, fresh, at,
                 done>>
  /\ WorkerOnly

\* The capability is free, or a human's approval covers it at this moment.
Permitted(w) == Mode(Tool(w)) = Allow \/ (run[w].approved /\ Cleared(Key(w)))

\* executeAgentAction up to the tool: a finished or a refused action is not run
\* again, and an approval is derived a second time.
Authorize(w) ==
  LET k == Key(w)
      settled == action[k] \in {"completed", "refused"} IN
  /\ pc[w] = "authorize"
  /\ \/ /\ settled /\ Goto(w, "settle")
        /\ run' = [run EXCEPT ![w].result = IF action[k] = "completed" THEN "ok" ELSE "failed"]
        /\ UNCHANGED action
     \/ /\ ~settled /\ Permitted(w) /\ Goto(w, "tool") /\ UNCHANGED run
        /\ action' = [action EXCEPT ![k] = "running"]
     \/ /\ ~settled /\ ~Permitted(w) /\ Goto(w, "settle")
        /\ run' = [run EXCEPT ![w].result = "failed"]
        /\ action' = [action EXCEPT ![k] = "refused"]
  /\ UNCHANGED <<status, reason, spendVars, lease, job, request, enrolled, fresh, at, done>>
  /\ WorkerOnly

\* executeTool asks for permission a third time, and answers a refusal with a
\* sentence.  Research and drafting are paid for whatever they return; failed
\* research may be retried.
UseTool(w) ==
  LET k == Key(w)  o == at[w] IN
  /\ pc[w] = "tool"
  /\ \/ /\ ~Permitted(w) /\ run' = [run EXCEPT ![w].result = "ok"]
        /\ UNCHANGED <<spent, fresh, enrolled, done>>
     \/ /\ Permitted(w)
        /\ \E result \in {"ok", "retry", "failed"} :
             /\ result = "retry" => k[3] = "research"
             /\ k[3] = "launch" => (result = "ok" <=> Launchable(o))
             /\ run' = [run EXCEPT ![w].result = result]
             /\ spent' = IF k[3] = "launch" THEN spent ELSE [spent EXCEPT ![o] = @ + 1]
             /\ fresh' = (fresh \/ (k[3] = "research" /\ result = "ok"))
             /\ enrolled' = IF k[3] = "launch" /\ result = "ok" THEN o ELSE enrolled
             /\ done' = IF result = "ok" THEN [done EXCEPT ![k] = @ + 1] ELSE done
  /\ Goto(w, "record")
  /\ UNCHANGED <<status, reason, used, lease, job, request, action, at>>
  /\ WorkerOnly

Record(w) ==
  /\ pc[w] = "record"
  /\ action' = [action EXCEPT ![Key(w)] =
                  IF run[w].result = "ok" THEN "completed" ELSE "failed"]
  /\ Goto(w, "settle") /\ Stay
  /\ UNCHANGED <<status, reason, spendVars, lease, job, request, enrolled, fresh, done>>
  /\ WorkerOnly

\* Mutants: a throw leaves before the ledgers are settled; a failed step is
\* passed over.
SettleOnReturn(w) ==
  LET result == run[w].result IN
  /\ pc[w] = "settle"
  /\ used' = IF result = "retry" THEN used ELSE [used EXCEPT ![at[w]] = spent[at[w]]]
  /\ \/ result = "ok" /\ Goto(w, "check") /\ run' = [run EXCEPT ![w].i = @ + 1]
     \/ result = "retry" /\ Goto(w, "throw") /\ UNCHANGED run
     \/ result = "failed" /\ Goto(w, "end") /\ UNCHANGED run
  /\ UNCHANGED <<status, reason, spent, lease, job, request, action, enrolled, fresh, at, done>>
  /\ WorkerOnly
SettleAndGoOn(w) ==
  /\ pc[w] = "settle"
  /\ used' = [used EXCEPT ![at[w]] = spent[at[w]]]
  /\ Goto(w, "check") /\ run' = [run EXCEPT ![w].i = @ + 1]
  /\ UNCHANGED <<status, reason, spent, lease, job, request, action, enrolled, fresh, at, done>>
  /\ WorkerOnly

\* settleConsumption, on the way out of a throw too: the counter of the row is
\* brought to the ledger's sum.
Settle(w) ==
  LET result == run[w].result IN
  /\ pc[w] = "settle"
  /\ used' = [used EXCEPT ![at[w]] = spent[at[w]]]
  /\ \/ result = "ok" /\ Goto(w, "check")
        /\ run' = [run EXCEPT ![w].i = @ + 1, ![w].approved = FALSE]
     \/ result = "retry" /\ Goto(w, "throw") /\ UNCHANGED run
     \/ result = "failed" /\ Goto(w, "end") /\ UNCHANGED run
  /\ UNCHANGED <<status, reason, spent, lease, job, request, action, enrolled, fresh, at,
                 done>>
  /\ WorkerOnly

\* releaseLeasesForWorkOrder asks for no token; releaseLease does.
Released(o) == IF lease.holder = o THEN [lease EXCEPT !.live = FALSE] ELSE lease
FencedRelease(w) ==
  IF run[w].token # 0 /\ lease.token = run[w].token THEN Released(at[w]) ELSE lease

\* finishWorkOrder.
Finish(w) ==
  LET o == at[w] IN
  /\ pc[w] = "finish"
  /\ \/ status[o] = "completed" /\ Goto(w, "end") /\ UNCHANGED <<status, reason>>
     \/ /\ status[o] # "completed" /\ Goto(w, "free")
        /\ status' = [status EXCEPT ![o] = "completed"]
        /\ reason' = [reason EXCEPT ![o] = "none"]
  /\ Stay
  /\ UNCHANGED <<spendVars, lease, job, request, action, enrolled, fresh, done>>
  /\ WorkerOnly

\* pauseWorkOrder, on an exhausted budget and on a pending approval.
Pause(w, why, next) ==
  LET o == at[w] IN
  /\ \/ status[o] = "paused" /\ Goto(w, "end") /\ UNCHANGED <<status, reason>>
     \/ status[o] = "completed" /\ Goto(w, "throw") /\ UNCHANGED <<status, reason>>
     \/ /\ status[o] = "active" /\ Goto(w, next)
        /\ status' = [status EXCEPT ![o] = "paused"]
        /\ reason' = [reason EXCEPT ![o] = why]
  /\ UNCHANGED <<spendVars, lease, job, request, action, enrolled, fresh, at, done>>
  /\ WorkerOnly

PauseBudget(w) == pc[w] = "pauseBudget" /\ Pause(w, "budget", "free") /\ UNCHANGED run
PauseApproval(w) ==
  pc[w] = "pauseApproval" /\ Pause(w, "approval", "end")
  /\ run' = [run EXCEPT ![w].keep = TRUE]

\* An ended or exhausted order frees the lead whoever holds it for the order;
\* the worker gives back only what its own token holds.  The job is done.
End(w) ==
  /\ pc[w] \in {"free", "end"}
  /\ lease' = CASE pc[w] = "free" -> Released(at[w])
                [] pc[w] = "end" /\ run[w].keep -> lease
                [] OTHER -> FencedRelease(w)
  /\ job' = IF job[at[w]].owner = w THEN [job EXCEPT ![at[w]] = NoJob] ELSE job
  /\ Leave(w)
  /\ UNCHANGED <<status, reason, spendVars, request, action, enrolled, fresh, done>>
  /\ WorkerOnly

\* Mutant: a job is retried without end.
ThrowForever(w) ==
  /\ pc[w] = "throw"
  /\ job' = IF job[at[w]].owner # w THEN job
            ELSE [job EXCEPT ![at[w]].state = "waiting", ![at[w]].owner = NoOrder,
                             ![at[w]].tries = @ + 1]
  /\ lease' = FencedRelease(w) /\ Leave(w)
  /\ UNCHANGED <<status, reason, spendVars, request, action, enrolled, fresh, done>>
  /\ WorkerOnly

\* An error leaves the job to its next attempt, if it has one.
Throw(w) ==
  LET o == at[w] IN
  /\ pc[w] = "throw"
  /\ lease' = FencedRelease(w)
  /\ job' = CASE job[o].owner # w -> job
              [] job[o].owner = w /\ job[o].tries + 1 < MaxAttempts ->
                   [job EXCEPT ![o].state = "waiting", ![o].owner = NoOrder, ![o].tries = @ + 1]
              [] OTHER -> [job EXCEPT ![o] = NoJob]
  /\ Leave(w)
  /\ UNCHANGED <<status, reason, spendVars, request, action, enrolled, fresh, done>>
  /\ WorkerOnly

(***************************************************************************)
(* People, time and failures                                               *)
(***************************************************************************)
OutsideOnly == UNCHANGED <<kind, status, reason, spendVars, minted, action, enrolled, fresh,
                           done>>

\* approveRequest and rejectRequest.
Decide(k) ==
  /\ request[k].status = "pending" /\ ~request[k].late /\ Event
  /\ \E answer \in {"approved", "rejected"} :
       request' = [request EXCEPT ![k].status = answer]
  /\ UNCHANGED <<overtime, lease, job, lead, policy, seen, procVars>> /\ OutsideOnly

\* APPROVAL_TTL_HOURS pass.
Overdue(k) ==
  /\ request[k].status \in {"pending", "approved"} /\ ~request[k].late /\ Event
  /\ request' = [request EXCEPT ![k].late = TRUE]
  /\ UNCHANGED <<overtime, lease, job, lead, policy, seen, procVars>> /\ OutsideOnly

\* expireStaleRequests
ExpireSweep(k) ==
  /\ request[k].status = "pending" /\ request[k].late
  /\ request' = [request EXCEPT ![k].status = "expired"]
  /\ UNCHANGED <<overtime, lease, job, lead, policy, seen, procVars, bounds>> /\ OutsideOnly

\* An administrator moves the autonomy of drafting and launching.
SetPolicy(m) ==
  /\ policy # m /\ Event
  /\ policy' = m /\ seen' = seen \cup {m}
  /\ UNCHANGED <<overtime, lease, job, request, lead, procVars>> /\ OutsideOnly

\* A reply arrives or somebody takes the lead over.
LeadTaken ==
  /\ lead = "ready" /\ Event
  /\ lead' = "human"
  /\ UNCHANGED <<overtime, lease, job, request, policy, seen, procVars>> /\ OutsideOnly

\* maxExecutionDuration passes, counted from the first activation.
TimeUp(o) ==
  /\ status[o] # "draft" /\ ~overtime[o] /\ Event
  /\ overtime' = [overtime EXCEPT ![o] = TRUE]
  /\ UNCHANGED <<lease, job, request, lead, policy, seen, procVars>> /\ OutsideOnly

\* The lease outlives a request; it need not outlive a run or an approval.
LeaseExpires ==
  /\ lease.live /\ Event
  /\ \A c \in Clerks : pc[c] = "idle"
  /\ lease' = [lease EXCEPT !.live = FALSE]
  /\ UNCHANGED <<overtime, job, request, lead, policy, seen, procVars>> /\ OutsideOnly

\* A process dies: a worker's job goes to another one, a request is gone.
Requeued(w) == [o \in Orders |->
  IF job[o].owner = w THEN [job[o] EXCEPT !.state = "waiting", !.owner = NoOrder] ELSE job[o]]

Crash(p) ==
  /\ pc[p] # "idle" /\ Fault
  /\ job' = IF p \in Workers THEN Requeued(p) ELSE job
  /\ Leave(p)
  /\ UNCHANGED <<overtime, lease, request, lead, policy, seen>> /\ OutsideOnly

\* A worker stops renewing its job's lock and carries on later.
Stall(w) ==
  /\ Requeued(w) # job /\ Fault
  /\ job' = Requeued(w)
  /\ UNCHANGED <<overtime, lease, request, lead, policy, seen, procVars>> /\ OutsideOnly

Work(w) ==
  \/ \E o \in Orders : Take(w, o)
  \/ Check(w) \/ Request(w) \/ Resume(w) \/ Authorize(w) \/ UseTool(w) \/ Record(w) \/ Settle(w)
  \/ Finish(w) \/ PauseBudget(w) \/ PauseApproval(w) \/ End(w) \/ Throw(w)

Serve(c) ==
  \/ \E o \in Orders : Dispatch(c, o)
  \/ Claim(c) \/ Reclaim(c) \/ Activate(c) \/ Enqueue(c)

Outside ==
  \/ \E k \in Keys : Decide(k) \/ Overdue(k) \/ ExpireSweep(k)
  \/ \E m \in Modes : SetPolicy(m)
  \/ LeadTaken
  \/ \E o \in Orders : TimeUp(o)
  \/ LeaseExpires
  \/ \E p \in Procs : Crash(p)
  \/ \E w \in Workers : Stall(w)

Next ==
  \/ \E w \in Workers : Work(w)
  \/ \E c \in Clerks : Serve(c)
  \/ Outside

Spec == Init /\ [][Next]_vars

(***************************************************************************)
(* Properties                                                              *)
(***************************************************************************)

\* An order is recorded completed only when its work was done: a design has its
\* draft, and a launch reached the prospect unless a person or another launch
\* has the lead.  It takes a policy that stays and approvals that stand.
CompletedIsDone ==
  seen = {policy} /\ (\A k \in Keys : ~request[k].late) =>
  \A o \in Orders : status[o] = "completed" =>
    \/ kind[o] = "design" /\ \E i \in {1, 2} : done[<<o, i, "draft">>] > 0
    \/ kind[o] = "launch" /\ (enrolled # NoOrder \/ lead = "human")

\* A launch, and a draft under a policy that was never open, ran only behind an
\* approval of that very action: one that was turned down, ran out or is still
\* waiting never runs, however the policy moves around it.
NothingRunsUnapproved ==
  \A k \in Keys : done[k] > 0 =>
    \/ k[3] = "research" \/ (k[3] = "draft" /\ Allow \in seen)
    \/ request[k].status = "approved"

\* Every unit of spend is on the order before its next step: a budget is passed
\* only by what a crash or a second execution kept off the counter.
OverspendNeedsFault == \A o \in Orders : spent[o] <= Budget + faults

\* An action's effect happens twice only when a process failed between the
\* effect and its record, or two executions were at it.
RepeatNeedsFault == \A k \in Keys : done[k] <= 1 + faults

\* A run that is retried meets the decision it was paused for: one order never
\* has two requests for the same tool.
AskedOnce ==
  \A o \in Orders, tool \in Tools :
    ~(request[<<o, 1, tool>>].status # "none" /\ request[<<o, 2, tool>>].status # "none")

\* An action that never ran is not marked done.
CompletedActionRan == \A k \in Keys : action[k] = "completed" => done[k] > 0

\* An active order that nothing will run can be dispatched again.
RedispatchQueues ==
  [][\A c \in Clerks : Reclaim(c) /\ job[at[c]].state = "none"
       => job'[at[c]].state = "waiting"]_vars

===============================================================================
