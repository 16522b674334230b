---------------------------- MODULE WorkOrderProofs ----------------------------
(***************************************************************************)
(* Proofs about WorkOrder, for any number of orders, workers and dispatch   *)
(* requests, any budget and any bound on attempts, events and faults.       *)
(***************************************************************************)
EXTENDS WorkOrder, FiniteSetTheorems, TLAPS

(***************************************************************************)
(* Types                                                                   *)
(***************************************************************************)
Plans == {<<>>, <<"launch">>, <<"draft">>, <<"research", "draft">>}
InStep == {"request", "resume", "authorize", "tool", "record", "settle"}
WorkerPhases == InStep \cup {"idle", "check", "finish", "free", "end", "throw", "pauseBudget",
                             "pauseApproval"}
ClerkPhases == {"idle", "claim", "reclaim", "activate", "enqueue"}
Phases == WorkerPhases \cup ClerkPhases

Requests == [status : {"none", "pending", "approved", "rejected", "expired"},
             level : 1..2, late : BOOLEAN]
Jobs == [state : {"none", "waiting", "active"}, owner : Workers \cup {NoOrder},
         token : 0..MaxEvents, tries : 0..(MaxAttempts - 1)]
Runs == [plan : Plans, i : 1..3, token : 0..MaxEvents, level : 1..2, approved : BOOLEAN,
         result : {"ok", "retry", "failed"}, keep : BOOLEAN]

RowType ==
  /\ kind \in [Orders -> {"launch", "design"}]
  /\ status \in [Orders -> {"draft", "active", "paused", "completed"}]
  /\ reason \in [Orders -> {"none", "budget", "approval"}]
  /\ overtime \in [Orders -> BOOLEAN]
  /\ used \in [Orders -> Nat] /\ spent \in [Orders -> Nat]

LedgerType ==
  /\ request \in [Keys -> Requests]
  /\ action \in [Keys -> {"none", "running", "completed", "failed", "refused"}]
  /\ done \in [Keys -> Nat]
  /\ \A k \in Keys : request[k].late => request[k].status # "none"

WorldType ==
  /\ lead \in {"ready", "human"} /\ enrolled \in Orders \cup {NoOrder} /\ fresh \in BOOLEAN
  /\ policy \in seen /\ seen \subseteq Modes
  /\ events \in 0..MaxEvents /\ faults \in 0..MaxFaults

\* A token is minted for a dispatch that was counted.
Minting == {c \in Clerks : pc[c] \in {"claim", "reclaim"}}
LeaseType ==
  /\ lease \in [holder : Orders \cup {NoOrder}, token : 0..MaxEvents, live : BOOLEAN]
  /\ minted \in Nat /\ minted + Cardinality(Minting) <= events
  /\ job \in [Orders -> Jobs]

ProcType ==
  /\ pc \in [Procs -> Phases] /\ at \in [Procs -> Orders \cup {NoOrder}]
  /\ run \in [Procs -> Runs]
  /\ \A w \in Workers : pc[w] \in WorkerPhases
  /\ \A c \in Clerks : pc[c] \in ClerkPhases
  /\ \A p \in Procs : at[p] = NoOrder <=> pc[p] = "idle"
  /\ \A p \in Procs : run[p].i <= Len(run[p].plan) + 1
  /\ \A p \in Procs : pc[p] \in InStep => run[p].i <= Len(run[p].plan)
  /\ \A p \in Procs : pc[p] = "finish" => run[p].i > Len(run[p].plan)

FullType == RowType /\ LedgerType /\ WorldType /\ LeaseType /\ ProcType

(***************************************************************************)
(* What was spent and what was done, against the failures                  *)
(***************************************************************************)

\* A job that somebody runs is run by an execution that is at its order.
JobHeld ==
  \A o \in Orders :
    /\ job[o].state = "active" <=> job[o].owner # NoOrder
    /\ job[o].owner # NoOrder => at[job[o].owner] = o

\* Executions at an order that no longer hold its job.
Lost(o) == {w \in Workers : at[w] = o /\ job[o].owner # w}

\* Executions that may still spend, and that have spent and not settled.
Spending(o) == {w \in Workers : at[w] = o /\ pc[w] \in {"request", "resume", "authorize", "tool"}}
Settling(o) == {w \in Workers : at[w] = o /\ pc[w] \in {"record", "settle"}}

\* What the counter of the row lacks is about to be settled, or a fault lost it;
\* and every execution that lost its job cost a fault of its own.
CounterLags ==
  \A o \in Orders :
    /\ Cardinality(Lost(o)) <= faults
    /\ spent[o] - used[o] - Cardinality(Settling(o)) + Cardinality(Lost(o)) <= faults

SpendCovered ==
  \A o \in Orders : spent[o] + Cardinality(Spending(o)) <= Budget + faults

\* Executions without a job that may still run the action of a key, or mark it
\* failed over another's success.
MayRun(w, k) ==
  /\ at[w] = k[1]
  /\ \/ run[w].i < k[2] /\ pc[w] \in InStep \cup {"check"}
     \/ run[w].i = k[2] /\ pc[w] \in {"check", "request", "resume", "authorize", "tool"}
     \/ run[w].i = k[2] /\ pc[w] = "record" /\ run[w].result # "ok"
Strays(k) == {w \in Workers : job[k[1]].owner # w /\ MayRun(w, k)}

OnKey(w, k) == at[w] = k[1] /\ pc[w] \in {"tool", "record"} /\ Key(w) = k

\* An action counts as done when the execution that holds the job and is at it
\* succeeded, or, when it is not at it, when the ledger says so.
Holder(k) == job[k[1]].owner
AtIt(k) == Holder(k) # NoOrder /\ OnKey(Holder(k), k)
Marked(k) ==
  IF AtIt(k) THEN pc[Holder(k)] = "record" /\ run[Holder(k)].result = "ok"
  ELSE action[k] = "completed"

\* One effect is marked; each further one, and each execution that may yet add
\* one, cost a fault.
RepeatCovered ==
  \A k \in Keys :
    done[k] + Cardinality(Strays(k)) <= faults + (IF Marked(k) THEN 1 ELSE 0)

(***************************************************************************)
(* What completion stands for                                              *)
(***************************************************************************)
Steady == seen = {policy} /\ \A k \in Keys : ~request[k].late

FinalTool(o) == IF kind[o] = "design" THEN "draft" ELSE "launch"
Fulfilled(o) ==
  \/ kind[o] = "design" /\ \E i \in {1, 2} : done[<<o, i, "draft">>] > 0
  \/ kind[o] = "launch" /\ (enrolled # NoOrder \/ lead = "human")

\* An order that has a job, or is about to get one, was activated.
Started ==
  /\ \A o \in Orders : job[o].state # "none" => status[o] # "draft"
  /\ \A p \in Procs : at[p] # NoOrder /\ pc[p] \in WorkerPhases \cup {"enqueue"} =>
       status[at[p]] # "draft"

\* The plan of an execution ends in the tool its order is for, and a launch has no
\* plan only when there is nothing left to launch.
PlanFits ==
  \A w \in Workers : at[w] # NoOrder =>
    /\ run[w].plan = <<>> => Fulfilled(at[w])
    /\ run[w].plan # <<>> => run[w].plan[Len(run[w].plan)] = FinalTool(at[w])

\* A stored approval that let an action through still lets it through.
ToolCleared ==
  \A w \in Workers : pc[w] = "tool" =>
    \/ Mode(Tool(w)) = Allow
    \/ /\ run[w].approved /\ Mode(Tool(w)) # Deny
       /\ request[Key(w)].status = "approved" /\ request[Key(w)].level >= Mode(Tool(w))

\* A final step that was answered, recorded or passed, and an order that is
\* completed, stand for work that was done.
WorkStands ==
  /\ \A o \in Orders :
      /\ status[o] = "completed" => Fulfilled(o)
      /\ \A i \in {1, 2} : action[<<o, i, FinalTool(o)>>] = "completed" => Fulfilled(o)
  /\ \A w \in Workers : at[w] # NoOrder =>
      /\ /\ pc[w] \in {"record", "settle"} /\ run[w].result = "ok"
         /\ Tool(w) = FinalTool(at[w])
         => Fulfilled(at[w])
      /\ run[w].i > Len(run[w].plan) => Fulfilled(at[w])

SteadyInv == Steady => ToolCleared /\ WorkStands

(***************************************************************************)
(* What a step of one process does to its phase, its order and its record   *)
(***************************************************************************)
Moves(p, l, a, r) ==
  /\ pc' = [pc EXCEPT ![p] = l]
  /\ at' = [at EXCEPT ![p] = a]
  /\ run' = [run EXCEPT ![p] = r]

\* The places a process may move to.
Placed(p, l, a, r) ==
  /\ r \in Runs /\ a \in Orders \cup {NoOrder}
  /\ p \in Workers => l \in WorkerPhases
  /\ p \in Clerks => l \in ClerkPhases
  /\ a = NoOrder <=> l = "idle"
  /\ r.i <= Len(r.plan) + 1
  /\ l \in InStep => r.i <= Len(r.plan)
  /\ l = "finish" => r.i > Len(r.plan)

\* Every plan is a sequence of at most two tools.
LEMMA PlansAreShort ==
  ASSUME NEW x \in Plans
  PROVE  x \in Seq(Tools) /\ Len(x) \in 0..2 /\ (x = <<>> <=> Len(x) = 0)
  <1>1. CASE x = <<>>
    BY <1>1 DEF Tools
  <1>2. CASE x = <<"launch">>
    BY <1>2 DEF Tools
  <1>3. CASE x = <<"draft">>
    BY <1>3 DEF Tools
  <1>4. CASE x = <<"research", "draft">>
    BY <1>4 DEF Tools
  <1> QED
    BY <1>1, <1>2, <1>3, <1>4 DEF Plans

\* A process that has no order has the empty record.
LEMMA NoRunType == NoRun \in Runs /\ NoRun.i = 1 /\ NoRun.plan = <<>> /\ Len(NoRun.plan) = 0
  <1>1. <<>> \in Plans /\ 0 \in 0..MaxEvents
    BY BoundAssumption DEF Plans
  <1> QED
    BY <1>1 DEF NoRun, Runs

\* A move, process by process.
LEMMA MovesPoint ==
  ASSUME ProcType, NEW p \in Procs, NEW l, NEW a, NEW r, Moves(p, l, a, r)
  PROVE  /\ pc'[p] = l /\ at'[p] = a /\ run'[p] = r
         /\ \A q \in Procs \ {p} : pc'[q] = pc[q] /\ at'[q] = at[q] /\ run'[q] = run[q]
  BY DEF ProcType, Moves

\* A move to a permitted place keeps the types of the processes.
LEMMA MovesType ==
  ASSUME ProcType, NEW p \in Procs, NEW l, NEW a, NEW r, Moves(p, l, a, r),
         Placed(p, l, a, r)
  PROVE  ProcType'
  <1>1. l \in Phases
    BY DEF Placed, Procs, Phases
  <1>2. /\ pc' \in [Procs -> Phases] /\ at' \in [Procs -> Orders \cup {NoOrder}]
        /\ run' \in [Procs -> Runs]
    BY <1>1 DEF ProcType, Moves, Placed
  <1>3. /\ pc'[p] = l /\ at'[p] = a /\ run'[p] = r
        /\ \A q \in Procs \ {p} : pc'[q] = pc[q] /\ at'[q] = at[q] /\ run'[q] = run[q]
    BY MovesPoint
  <1>4. \A w \in Workers : pc'[w] \in WorkerPhases
    BY <1>3 DEF Procs, ProcType, Placed
  <1>5. \A c \in Clerks : pc'[c] \in ClerkPhases
    BY <1>3 DEF Procs, ProcType, Placed
  <1>6. \A q \in Procs : at'[q] = NoOrder <=> pc'[q] = "idle"
    BY <1>3 DEF ProcType, Placed
  <1>7. \A q \in Procs : /\ run'[q].i <= Len(run'[q].plan) + 1
                         /\ pc'[q] \in InStep => run'[q].i <= Len(run'[q].plan)
                         /\ pc'[q] = "finish" => run'[q].i > Len(run'[q].plan)
    <2> TAKE q \in Procs
    <2>1. CASE q = p
      BY <1>3, <2>1 DEF Placed
    <2>2. CASE q # p
      BY <1>3, <2>2 DEF ProcType
    <2> QED
      BY <2>1, <2>2
  <1> QED
    BY <1>2, <1>4, <1>5, <1>6, <1>7 DEF ProcType

\* No move but a clerk's is one of those that mint a token.
LEMMA MintingKept ==
  ASSUME ProcType, NEW p \in Workers, NEW l, NEW a, NEW r, Moves(p, l, a, r)
  PROVE  Minting' = Minting
  <1>1. p \in Procs /\ Clerks \subseteq Procs \ {p}
    BY ProcAssumption DEF Procs
  <1>2. \A c \in Clerks : pc'[c] = pc[c]
    BY <1>1, MovesPoint
  <1> QED
    BY <1>2 DEF Minting

\* Leaving is a move.
LEMMA LeaveMoves ==
  ASSUME NEW p \in Procs, Leave(p)
  PROVE  Moves(p, "idle", NoOrder, NoRun) /\ Placed(p, "idle", NoOrder, NoRun)
  BY NoRunType DEF Leave, Goto, Moves, Placed, WorkerPhases, ClerkPhases, InStep

\* A process that is somewhere has an order, and a record of the right kind.
LEMMA Somewhere ==
  ASSUME ProcType, NEW p \in Procs
  PROVE  /\ run[p] \in Runs /\ run[p].plan \in Plans
         /\ Len(run[p].plan) \in 0..2 /\ run[p].i \in 1..3
         /\ run[p].plan \in Seq(Tools)
         /\ pc[p] # "idle" => at[p] \in Orders
         /\ pc[p] = "idle" => at[p] = NoOrder
  <1>1. run[p] \in Runs /\ run[p].plan \in Plans /\ run[p].i \in 1..3
    BY DEF ProcType, Runs
  <1>2. Len(run[p].plan) \in 0..2 /\ run[p].plan \in Seq(Tools)
    BY <1>1, PlansAreShort
  <1>3. (pc[p] # "idle" => at[p] \in Orders) /\ (pc[p] = "idle" => at[p] = NoOrder)
    BY DEF ProcType
  <1> QED
    BY <1>1, <1>2, <1>3

\* The tool of a step, and the key of the action it takes.
LEMMA StepHasKey ==
  ASSUME FullType, NEW w \in Workers, pc[w] \in InStep
  PROVE  /\ w \in Procs /\ at[w] \in Orders /\ run[w].i \in {1, 2}
         /\ run[w].i <= Len(run[w].plan)
         /\ Tool(w) \in Tools /\ Key(w) \in Keys
         /\ Key(w) = <<at[w], run[w].i, Tool(w)>>
         /\ Key(w)[1] = at[w] /\ Key(w)[2] = run[w].i /\ Key(w)[3] = Tool(w)
  <1>1. w \in Procs /\ ProcType
    BY DEF Procs, FullType
  <1>2. at[w] \in Orders
    BY <1>1, Somewhere DEF InStep
  <1>3. run[w].i <= Len(run[w].plan)
    BY <1>1 DEF ProcType
  <1>4. run[w].i \in 1..Len(run[w].plan) /\ Len(run[w].plan) \in 0..2
        /\ run[w].plan \in Seq(Tools)
    BY <1>1, <1>3, Somewhere
  <1>5. run[w].i \in {1, 2}
    <2>1. run[w].i \in 1..3 /\ Len(run[w].plan) \in 0..2
      BY <1>1, Somewhere
    <2>2. \A i \in 1..3, n \in 0..2 : i <= n => i \in {1, 2}
      OBVIOUS
    <2> QED
      BY <1>3, <2>1, <2>2
  <1>6. Tool(w) \in Tools
    BY <1>4 DEF Tool
  <1> QED
    BY <1>1, <1>2, <1>3, <1>5, <1>6 DEF Keys, Key

\* A process that does not change where it is.
LEMMA StayMoves ==
  ASSUME ProcType, NEW p \in Procs, NEW l, Goto(p, l), UNCHANGED at
  PROVE  /\ at' = [at EXCEPT ![p] = at[p]]
         /\ run' = run => Moves(p, l, at[p], run[p])
         /\ \A r : run' = [run EXCEPT ![p] = r] => Moves(p, l, at[p], r)
  BY DEF ProcType, Moves, Goto

\* The step gate leaves the execution where it is, or sends it on or out.
LEMMA CheckMoves ==
  ASSUME FullType, NEW w \in Workers, Check(w)
  PROVE  \E l \in {"finish", "end", "pauseBudget", "authorize", "request"}, r \in Runs :
           /\ Moves(w, l, at[w], r) /\ Placed(w, l, at[w], r)
           /\ r.plan = run[w].plan /\ r.i = run[w].i /\ r.result = run[w].result
           /\ l \in {"authorize", "request"} => ~Exhausted(at[w])
  <1>1. w \in Procs /\ ProcType /\ pc[w] = "check" /\ UNCHANGED at
    BY DEF Procs, FullType, Check
  <1>2. at[w] \in Orders /\ run[w] \in Runs /\ run[w].i \in 1..3
        /\ Len(run[w].plan) \in 0..2 /\ at[w] # NoOrder /\ run[w].i <= Len(run[w].plan) + 1
    BY <1>1, Somewhere, OrderAssumption DEF ProcType
  <1> DEFINE P(l, r) == /\ Moves(w, l, at[w], r) /\ Placed(w, l, at[w], r)
                        /\ r.plan = run[w].plan /\ r.i = run[w].i /\ r.result = run[w].result
                        /\ l \in {"authorize", "request"} => ~Exhausted(at[w])
  <1>3. CASE run[w].i > Len(run[w].plan) /\ Goto(w, "finish") /\ UNCHANGED run
    <2>1. Placed(w, "finish", at[w], run[w])
      BY <1>1, <1>2, <1>3, ProcAssumption DEF Placed, WorkerPhases, InStep
    <2>2. Moves(w, "finish", at[w], run[w])
      BY <1>1, <1>3, StayMoves
    <2> QED
      BY <1>2, <2>1, <2>2
  <1>4. CASE /\ run[w].i <= Len(run[w].plan) /\ status[at[w]] # "active" /\ Goto(w, "end")
             /\ run' = [run EXCEPT ![w].keep = (reason[at[w]] = "approval")]
    <2> DEFINE r == [run[w] EXCEPT !.keep = (reason[at[w]] = "approval")]
    <2>1. r \in Runs /\ r.plan = run[w].plan /\ r.i = run[w].i /\ r.result = run[w].result
      BY <1>2 DEF Runs
    <2>2. run' = [run EXCEPT ![w] = r]
      BY <1>4
    <2> HIDE DEF r
    <2>3. Moves(w, "end", at[w], r)
      BY <1>1, <1>4, <2>2, StayMoves
    <2>4. Placed(w, "end", at[w], r)
      BY <1>1, <1>2, <2>1, ProcAssumption DEF Placed, WorkerPhases, InStep
    <2> QED
      BY <2>1, <2>3, <2>4
  <1>5. CASE /\ run[w].i <= Len(run[w].plan) /\ UNCHANGED run
             /\ \E l \in {"end", "pauseBudget", "authorize"} :
                  Goto(w, l) /\ (l = "authorize" => ~Exhausted(at[w]))
    <2>1. PICK l \in {"end", "pauseBudget", "authorize"} :
                 Goto(w, l) /\ (l = "authorize" => ~Exhausted(at[w]))
      BY <1>5
    <2>2. Moves(w, l, at[w], run[w])
      BY <1>1, <1>5, <2>1, StayMoves
    <2>3. Placed(w, l, at[w], run[w])
      BY <1>1, <1>2, <1>5, ProcAssumption DEF Placed, WorkerPhases, InStep
    <2> QED
      BY <1>2, <2>1, <2>2, <2>3
  <1>6. CASE /\ run[w].i <= Len(run[w].plan) /\ Goto(w, "request") /\ ~Exhausted(at[w])
             /\ Mode(Tool(w)) \in 1..2 /\ run' = [run EXCEPT ![w].level = Mode(Tool(w))]
    <2> DEFINE r == [run[w] EXCEPT !.level = Mode(Tool(w))]
    <2>1. r \in Runs /\ r.plan = run[w].plan /\ r.i = run[w].i /\ r.result = run[w].result
      BY <1>2, <1>6 DEF Runs
    <2>2. run' = [run EXCEPT ![w] = r]
      BY <1>6
    <2> HIDE DEF r
    <2>3. Moves(w, "request", at[w], r)
      BY <1>1, <1>6, <2>2, StayMoves
    <2>4. Placed(w, "request", at[w], r)
      BY <1>1, <1>2, <1>6, <2>1, ProcAssumption DEF Placed, WorkerPhases, InStep
    <2> QED
      BY <1>6, <2>1, <2>3, <2>4
  <1> QED
    BY <1>3, <1>4, <1>5, <1>6 DEF Check

\* An execution that keeps its order, its plan and its place in it.
LEMMA StaysPlaced ==
  ASSUME ProcType, NEW w \in Workers, pc[w] # "idle", NEW r \in Runs,
         r.plan = run[w].plan, r.i = run[w].i,
         NEW l \in WorkerPhases \ {"idle", "finish"}, l \in InStep => pc[w] \in InStep
  PROVE  Placed(w, l, at[w], r)
  <1>1. w \in Procs /\ w \notin Clerks
    BY ProcAssumption DEF Procs
  <1>2. at[w] \in Orders /\ at[w] # NoOrder
    BY <1>1, Somewhere DEF ProcType
  <1>3. run[w].i <= Len(run[w].plan) + 1 /\ (pc[w] \in InStep => run[w].i <= Len(run[w].plan))
    BY <1>1 DEF ProcType
  <1> QED
    BY <1>1, <1>2, <1>3 DEF Placed

\* A taken job starts its execution at the check of the first step planned.
LEMMA TakeMoves ==
  ASSUME FullType, NEW w \in Workers, NEW o \in Orders, Take(w, o)
  PROVE  \E r \in Runs : /\ Moves(w, "check", o, r) /\ Placed(w, "check", o, r)
                         /\ r.plan = Plan(o) /\ r.i = 1
  <1> DEFINE r == [NoRun EXCEPT !.plan = Plan(o), !.token = job[o].token]
  <1>1. job[o].token \in 0..MaxEvents
    BY DEF FullType, LeaseType, Jobs
  <1>2. Plan(o) \in Plans
    BY DEF Plan, Plans
  <1>3. r \in Runs /\ r.plan = Plan(o) /\ r.i = 1
    BY <1>1, <1>2, NoRunType DEF Runs
  <1>4. Moves(w, "check", o, r)
    BY DEF Take, Goto, Moves
  <1> HIDE DEF r
  <1>5. Len(r.plan) \in 0..2 /\ 1 <= Len(r.plan) + 1
    BY <1>2, <1>3, PlansAreShort
  <1>6. Placed(w, "check", o, r)
    BY <1>3, <1>5, OrderAssumption, ProcAssumption DEF Placed, WorkerPhases, InStep
  <1> QED
    BY <1>3, <1>4, <1>6

\* An approval asked for ends the execution's part.
LEMMA RequestMoves ==
  ASSUME FullType, NEW w \in Workers, Request(w)
  PROVE  Moves(w, "resume", at[w], run[w]) /\ Placed(w, "resume", at[w], run[w])
  <1>1. w \in Procs /\ ProcType /\ pc[w] = "request"
    BY DEF Procs, FullType, Request
  <1>2. Moves(w, "resume", at[w], run[w])
    BY <1>1, StayMoves DEF Request, Stay
  <1>3. run[w] \in Runs
    BY <1>1, Somewhere
  <1> QED
    BY <1>1, <1>2, <1>3, StaysPlaced DEF WorkerPhases, InStep

\* A step that waited for an approval is authorized, pauses again or fails.
LEMMA ResumeMoves ==
  ASSUME FullType, NEW w \in Workers, Resume(w)
  PROVE  \E l \in {"pauseApproval", "authorize", "end"}, r \in Runs :
           /\ Moves(w, l, at[w], r) /\ Placed(w, l, at[w], r)
           /\ r.plan = run[w].plan /\ r.i = run[w].i /\ r.result = run[w].result
  <1>1. w \in Procs /\ ProcType /\ pc[w] = "resume" /\ UNCHANGED at
    BY DEF Procs, FullType, Resume
  <1>2. run[w] \in Runs
    BY <1>1, Somewhere
  <1> DEFINE q == [run[w] EXCEPT !.approved = TRUE]
  <1>3. q \in Runs /\ q.plan = run[w].plan /\ q.i = run[w].i /\ q.result = run[w].result
    BY <1>2 DEF Runs
  <1>4. \E l \in {"pauseApproval", "authorize", "end"} :
          Goto(w, l) /\ (run' = run \/ run' = [run EXCEPT ![w] = q])
    BY DEF Resume
  <1> HIDE DEF q
  <1>5. PICK l \in {"pauseApproval", "authorize", "end"} :
          Goto(w, l) /\ (run' = run \/ run' = [run EXCEPT ![w] = q])
    BY <1>4
  <1>6. PICK r \in {run[w], q} : Moves(w, l, at[w], r)
    BY <1>1, <1>5, StayMoves
  <1>7. r \in Runs /\ r.plan = run[w].plan /\ r.i = run[w].i /\ r.result = run[w].result
    BY <1>2, <1>3
  <1>8. Placed(w, l, at[w], r)
    BY <1>1, <1>7, StaysPlaced DEF WorkerPhases, InStep
  <1> QED
    BY <1>6, <1>7, <1>8

\* The execution goes to the tool, or past it when its action was settled before.
LEMMA AuthorizeMoves ==
  ASSUME FullType, NEW w \in Workers, Authorize(w)
  PROVE  \E l \in {"tool", "settle"}, r \in Runs :
           /\ Moves(w, l, at[w], r) /\ Placed(w, l, at[w], r)
           /\ r.plan = run[w].plan /\ r.i = run[w].i
           /\ l = "tool" => /\ r = run[w] /\ Permitted(w)
                            /\ action[Key(w)] \notin {"completed", "refused"}
                            /\ action' = [action EXCEPT ![Key(w)] = "running"]
           /\ l = "settle" => /\ r.result = "ok" => action[Key(w)] = "completed"
                              /\ \/ action' = action
                                 \/ action[Key(w)] \notin {"completed", "refused"}
                                    /\ action' = [action EXCEPT ![Key(w)] = "refused"]
  <1>1. w \in Procs /\ ProcType /\ pc[w] = "authorize" /\ UNCHANGED at
    BY DEF Procs, FullType, Authorize
  <1>2. run[w] \in Runs
    BY <1>1, Somewhere
  <1> DEFINE q(x) == [run[w] EXCEPT !.result = x]
  <1>3. \A x \in {"ok", "failed"} :
          q(x) \in Runs /\ q(x).plan = run[w].plan /\ q(x).i = run[w].i /\ q(x).result = x
    BY <1>2 DEF Runs
  <1> DEFINE P(l, r) ==
           /\ l = "tool" => /\ r = run[w] /\ Permitted(w)
                            /\ action[Key(w)] \notin {"completed", "refused"}
                            /\ action' = [action EXCEPT ![Key(w)] = "running"]
           /\ l = "settle" => /\ r.result = "ok" => action[Key(w)] = "completed"
                              /\ \/ action' = action
                                 \/ action[Key(w)] \notin {"completed", "refused"}
                                    /\ action' = [action EXCEPT ![Key(w)] = "refused"]
  <1>4. CASE /\ action[Key(w)] \in {"completed", "refused"} /\ Goto(w, "settle")
             /\ run' = [run EXCEPT ![w].result =
                          IF action[Key(w)] = "completed" THEN "ok" ELSE "failed"]
             /\ UNCHANGED action
    <2> DEFINE x == IF action[Key(w)] = "completed" THEN "ok" ELSE "failed"
    <2>1. x \in {"ok", "failed"} /\ (x = "ok" => action[Key(w)] = "completed")
      OBVIOUS
    <2>2. run' = [run EXCEPT ![w] = q(x)]
      BY <1>4
    <2> HIDE DEF x
    <2>3. q(x) \in Runs /\ q(x).plan = run[w].plan /\ q(x).i = run[w].i /\ q(x).result = x
      BY <1>3, <2>1
    <2> HIDE DEF q
    <2>4. Moves(w, "settle", at[w], q(x))
      BY <1>1, <1>4, <2>2, StayMoves
    <2>5. Placed(w, "settle", at[w], q(x))
      BY <1>1, <2>3, StaysPlaced DEF WorkerPhases, InStep
    <2> QED
      BY <1>4, <2>1, <2>3, <2>4, <2>5
  <1>5. CASE /\ action[Key(w)] \notin {"completed", "refused"} /\ Permitted(w)
             /\ Goto(w, "tool") /\ UNCHANGED run
             /\ action' = [action EXCEPT ![Key(w)] = "running"]
    <2>1. Moves(w, "tool", at[w], run[w])
      BY <1>1, <1>5, StayMoves
    <2>2. Placed(w, "tool", at[w], run[w])
      BY <1>1, <1>2, StaysPlaced DEF WorkerPhases, InStep
    <2> QED
      BY <1>2, <1>5, <2>1, <2>2
  <1>6. CASE /\ action[Key(w)] \notin {"completed", "refused"} /\ Goto(w, "settle")
             /\ run' = [run EXCEPT ![w].result = "failed"]
             /\ action' = [action EXCEPT ![Key(w)] = "refused"]
    <2>1. run' = [run EXCEPT ![w] = q("failed")]
      BY <1>6
    <2>2. /\ q("failed") \in Runs /\ q("failed").plan = run[w].plan
          /\ q("failed").i = run[w].i /\ q("failed").result = "failed"
      BY <1>3
    <2> HIDE DEF q
    <2>3. Moves(w, "settle", at[w], q("failed"))
      BY <1>1, <1>6, <2>1, StayMoves
    <2>4. Placed(w, "settle", at[w], q("failed"))
      BY <1>1, <2>2, StaysPlaced DEF WorkerPhases, InStep
    <2> QED
      BY <1>6, <2>2, <2>3, <2>4
  <1> QED
    BY <1>4, <1>5, <1>6 DEF Authorize

\* The tool ran, or it refused; either way a result is carried on.
LEMMA UseToolMoves ==
  ASSUME FullType, NEW w \in Workers, UseTool(w)
  PROVE  \E r \in Runs :
           /\ Moves(w, "record", at[w], r) /\ Placed(w, "record", at[w], r)
           /\ r.plan = run[w].plan /\ r.i = run[w].i
           /\ \/ ~Permitted(w) /\ r.result = "ok" /\ UNCHANGED <<spent, fresh, enrolled, done>>
              \/ /\ Permitted(w)
                 /\ Key(w)[3] = "launch" => (r.result = "ok" <=> Launchable(at[w]))
                 /\ spent' = IF Key(w)[3] = "launch" THEN spent
                             ELSE [spent EXCEPT ![at[w]] = @ + 1]
                 /\ fresh' = (fresh \/ (Key(w)[3] = "research" /\ r.result = "ok"))
                 /\ enrolled' = IF Key(w)[3] = "launch" /\ r.result = "ok" THEN at[w]
                                ELSE enrolled
                 /\ done' = IF r.result = "ok" THEN [done EXCEPT ![Key(w)] = @ + 1] ELSE done
  <1>1. w \in Procs /\ ProcType /\ pc[w] = "tool" /\ UNCHANGED at /\ Goto(w, "record")
    BY DEF Procs, FullType, UseTool
  <1>2. run[w] \in Runs
    BY <1>1, Somewhere
  <1> DEFINE q(x) == [run[w] EXCEPT !.result = x]
  <1> DEFINE P(x) ==
              \/ ~Permitted(w) /\ x = "ok" /\ UNCHANGED <<spent, fresh, enrolled, done>>
              \/ /\ Permitted(w)
                 /\ Key(w)[3] = "launch" => (x = "ok" <=> Launchable(at[w]))
                 /\ spent' = IF Key(w)[3] = "launch" THEN spent
                             ELSE [spent EXCEPT ![at[w]] = @ + 1]
                 /\ fresh' = (fresh \/ (Key(w)[3] = "research" /\ x = "ok"))
                 /\ enrolled' = IF Key(w)[3] = "launch" /\ x = "ok" THEN at[w]
                                ELSE enrolled
                 /\ done' = IF x = "ok" THEN [done EXCEPT ![Key(w)] = @ + 1] ELSE done
  <1>3. \E x \in {"ok", "retry", "failed"} : run' = [run EXCEPT ![w].result = x] /\ P(x)
    <2>1. CASE /\ ~Permitted(w) /\ run' = [run EXCEPT ![w].result = "ok"]
               /\ UNCHANGED <<spent, fresh, enrolled, done>>
      BY <2>1, Zenon
    <2>2. CASE /\ Permitted(w)
               /\ \E x \in {"ok", "retry", "failed"} :
                    /\ Key(w)[3] = "launch" => (x = "ok" <=> Launchable(at[w]))
                    /\ run' = [run EXCEPT ![w].result = x]
                    /\ spent' = IF Key(w)[3] = "launch" THEN spent
                                ELSE [spent EXCEPT ![at[w]] = @ + 1]
                    /\ fresh' = (fresh \/ (Key(w)[3] = "research" /\ x = "ok"))
                    /\ enrolled' = IF Key(w)[3] = "launch" /\ x = "ok" THEN at[w]
                                   ELSE enrolled
                    /\ done' = IF x = "ok" THEN [done EXCEPT ![Key(w)] = @ + 1] ELSE done
      BY <2>2, Zenon
    <2> QED
      BY <2>1, <2>2, Zenon DEF UseTool
  <1> HIDE DEF P
  <1>4. PICK x \in {"ok", "retry", "failed"} : run' = [run EXCEPT ![w].result = x] /\ P(x)
    BY <1>3
  <1>5. /\ run' = [run EXCEPT ![w] = q(x)] /\ q(x) \in Runs
        /\ q(x).plan = run[w].plan /\ q(x).i = run[w].i /\ q(x).result = x
    BY <1>2, <1>4 DEF Runs
  <1> HIDE DEF q
  <1>6. Moves(w, "record", at[w], q(x))
    BY <1>1, <1>5, StayMoves
  <1>7. Placed(w, "record", at[w], q(x))
    BY <1>1, <1>5, StaysPlaced DEF WorkerPhases, InStep
  <1>8. P(q(x).result)
    BY <1>4, <1>5
  <1> QED
    BY <1>5, <1>6, <1>7, <1>8, Zenon DEF P

\* The result is written down and the execution goes to settle.
LEMMA RecordMoves ==
  ASSUME FullType, NEW w \in Workers, Record(w)
  PROVE  Moves(w, "settle", at[w], run[w]) /\ Placed(w, "settle", at[w], run[w])
  <1>1. w \in Procs /\ ProcType /\ pc[w] = "record"
    BY DEF Procs, FullType, Record
  <1>2. Moves(w, "settle", at[w], run[w])
    BY <1>1, StayMoves DEF Record, Stay
  <1>3. run[w] \in Runs
    BY <1>1, Somewhere
  <1> QED
    BY <1>1, <1>2, <1>3, StaysPlaced DEF WorkerPhases, InStep

\* The budget is settled and the execution looks at the next step.
LEMMA SettleMoves ==
  ASSUME FullType, NEW w \in Workers, Settle(w)
  PROVE  \E l \in {"check", "throw", "end"}, r \in Runs :
           /\ Moves(w, l, at[w], r) /\ Placed(w, l, at[w], r)
           /\ r.plan = run[w].plan
           /\ l = "check" => r.i = run[w].i + 1 /\ run[w].result = "ok"
           /\ l # "check" => r = run[w]
  <1>1. w \in Procs /\ ProcType /\ pc[w] = "settle" /\ UNCHANGED at
    BY DEF Procs, FullType, Settle
  <1>2. run[w] \in Runs /\ run[w].i \in {1, 2} /\ at[w] \in Orders
        /\ run[w].i <= Len(run[w].plan) /\ Len(run[w].plan) \in 0..2
    BY <1>1, Somewhere, StepHasKey DEF InStep
  <1>3. CASE /\ run[w].result = "ok" /\ Goto(w, "check")
             /\ run' = [run EXCEPT ![w].i = @ + 1, ![w].approved = FALSE]
    <2> DEFINE q == [run[w] EXCEPT !.i = @ + 1, !.approved = FALSE]
    <2>1. q \in Runs /\ q.plan = run[w].plan /\ q.i = run[w].i + 1
      <3>1. \A i \in {1, 2} : i + 1 \in 1..3
        OBVIOUS
      <3>2. run[w].i + 1 \in 1..3
        BY <1>2, <3>1
      <3> DEFINE j == run[w].i + 1
      <3>3. j \in 1..3 /\ q = [run[w] EXCEPT !.i = j, !.approved = FALSE]
        BY <3>2
      <3> HIDE DEF j
      <3>4. [run[w] EXCEPT !.i = j, !.approved = FALSE] \in Runs
        BY <1>2, <3>3 DEF Runs
      <3>5. q.plan = run[w].plan /\ q.i = j
        BY <1>2, <3>3 DEF Runs
      <3> QED
        BY <3>3, <3>4, <3>5 DEF j
    <2>2. run' = [run EXCEPT ![w] = q]
      <3>1. run' = [run EXCEPT ![w] = [[run[w] EXCEPT !.i = @ + 1] EXCEPT !.approved = FALSE]]
        BY <1>1, <1>3 DEF ProcType
      <3> QED
        BY <3>1
    <2> HIDE DEF q
    <2>3. Moves(w, "check", at[w], q)
      BY <1>1, <1>3, <2>2, StayMoves
    <2>4. Placed(w, "check", at[w], q)
      <3>1. \A i \in {1, 2}, n \in 0..2 : i <= n => i + 1 <= n + 1
        OBVIOUS
      <3>2. q.i <= Len(q.plan) + 1
        BY <1>2, <2>1, <3>1
      <3> QED
        BY <1>2, <2>1, <3>2, OrderAssumption, ProcAssumption
           DEF Placed, WorkerPhases, InStep
    <2> QED
      BY <1>3, <2>1, <2>3, <2>4
  <1>4. CASE Goto(w, "throw") /\ UNCHANGED run
    BY <1>1, <1>2, <1>4, StayMoves, StaysPlaced DEF WorkerPhases, InStep
  <1>5. CASE Goto(w, "end") /\ UNCHANGED run
    BY <1>1, <1>2, <1>5, StayMoves, StaysPlaced DEF WorkerPhases, InStep
  <1> QED
    BY <1>3, <1>4, <1>5 DEF Settle

\* After the last step the execution frees its job, or ends after a failed write.
LEMMA FinishMoves ==
  ASSUME FullType, NEW w \in Workers, Finish(w)
  PROVE  \E l \in {"free", "end"} :
           Moves(w, l, at[w], run[w]) /\ Placed(w, l, at[w], run[w])
  <1>1. w \in Procs /\ ProcType /\ pc[w] = "finish" /\ UNCHANGED <<at, run>>
    BY DEF Procs, FullType, Finish, Stay
  <1>2. run[w] \in Runs
    BY <1>1, Somewhere
  <1>3. PICK l \in {"free", "end"} : Goto(w, l)
    BY DEF Finish
  <1>4. Moves(w, l, at[w], run[w])
    BY <1>1, <1>3, StayMoves
  <1> QED
    BY <1>1, <1>2, <1>4, StaysPlaced DEF WorkerPhases, InStep

\* A pause frees the job, or its write fails.
LEMMA PauseMoves ==
  ASSUME FullType, NEW w \in Workers, PauseBudget(w) \/ PauseApproval(w)
  PROVE  \E l \in {"free", "end", "throw"}, r \in Runs :
           /\ Moves(w, l, at[w], r) /\ Placed(w, l, at[w], r)
           /\ r.plan = run[w].plan /\ r.i = run[w].i
  <1>1. /\ w \in Procs /\ ProcType /\ UNCHANGED at
        /\ pc[w] \in {"pauseBudget", "pauseApproval"}
    BY DEF Procs, FullType, PauseBudget, PauseApproval, Pause
  <1>2. run[w] \in Runs
    BY <1>1, Somewhere
  <1> DEFINE q == [run[w] EXCEPT !.keep = TRUE]
  <1>3. q \in Runs /\ q.plan = run[w].plan /\ q.i = run[w].i
    BY <1>2 DEF Runs
  <1>4. \E l \in {"free", "end", "throw"} :
          Goto(w, l) /\ (run' = run \/ run' = [run EXCEPT ![w] = q])
    BY DEF PauseBudget, PauseApproval, Pause
  <1> HIDE DEF q
  <1>5. PICK l \in {"free", "end", "throw"} :
          Goto(w, l) /\ (run' = run \/ run' = [run EXCEPT ![w] = q])
    BY <1>4
  <1>6. PICK r \in {run[w], q} : Moves(w, l, at[w], r)
    BY <1>1, <1>5, StayMoves
  <1>7. r \in Runs /\ r.plan = run[w].plan /\ r.i = run[w].i
    BY <1>2, <1>3
  <1>8. Placed(w, l, at[w], r)
    BY <1>1, <1>7, StaysPlaced DEF WorkerPhases, InStep
  <1> QED
    BY <1>6, <1>7, <1>8

\* An execution that ends or throws is idle again.
LEMMA EndMoves ==
  ASSUME NEW w \in Workers, End(w) \/ Throw(w)
  PROVE  Moves(w, "idle", NoOrder, NoRun) /\ Placed(w, "idle", NoOrder, NoRun)
  BY LeaveMoves DEF End, Throw, Procs

(***************************************************************************)
(* Every step keeps the types                                              *)
(***************************************************************************)

\* Whatever a worker does, it moves itself to a permitted place.
LEMMA WorkMoves ==
  ASSUME FullType, NEW w \in Workers, Work(w)
  PROVE  /\ w \in Procs /\ ProcType'
         /\ \E l, a, r : Moves(w, l, a, r)
  <1>1. w \in Procs /\ ProcType
    BY DEF Procs, FullType
  <1>2. \E l, a, r : Moves(w, l, a, r) /\ Placed(w, l, a, r)
    <2>1. CASE \E o \in Orders : Take(w, o)
      BY <2>1, TakeMoves
    <2>2. CASE Check(w)
      BY <2>2, CheckMoves
    <2>3. CASE Request(w)
      BY <2>3, RequestMoves
    <2>4. CASE Resume(w)
      BY <2>4, ResumeMoves
    <2>5. CASE Authorize(w)
      BY <2>5, AuthorizeMoves
    <2>6. CASE UseTool(w)
      BY <2>6, UseToolMoves
    <2>7. CASE Record(w)
      BY <2>7, RecordMoves
    <2>8. CASE Settle(w)
      BY <2>8, SettleMoves
    <2>9. CASE Finish(w)
      BY <2>9, FinishMoves
    <2>10. CASE PauseBudget(w) \/ PauseApproval(w)
      BY <2>10, PauseMoves
    <2>11. CASE End(w) \/ Throw(w)
      BY <2>11, EndMoves
    <2> QED
      BY <2>1, <2>2, <2>3, <2>4, <2>5, <2>6, <2>7, <2>8, <2>9, <2>10, <2>11 DEF Work
  <1> QED
    BY <1>1, <1>2, MovesType

\* A request that is made has the level of the run that made it.
LEMMA WorkKeepsLedger ==
  ASSUME FullType, NEW w \in Workers, Work(w)
  PROVE  LedgerType'
  <1>1. w \in Procs /\ ProcType /\ LedgerType
    BY DEF Procs, FullType
  <1>2. pc[w] \in InStep => Key(w) \in Keys
    BY StepHasKey
  <1>3. CASE Request(w)
    <2>1. run[w].level \in 1..2
      BY <1>1, Somewhere DEF Runs
    <2> DEFINE new == [NoRequest EXCEPT !.status = "pending", !.level = run[w].level]
    <2>2. new \in Requests /\ new.status = "pending"
      BY <2>1 DEF NoRequest, Requests
    <2>3. request' = request \/ request' = [request EXCEPT ![Key(w)] = new]
      BY <1>3 DEF Request
    <2>4. UNCHANGED <<action, done>>
      BY <1>3 DEF Request
    <2> HIDE DEF new
    <2>5. request' \in [Keys -> Requests]
      BY <1>1, <2>2, <2>3 DEF LedgerType
    <2>6. \A k \in Keys : request'[k].late => request'[k].status # "none"
      BY <1>1, <2>2, <2>3 DEF LedgerType
    <2> QED
      BY <1>1, <2>4, <2>5, <2>6 DEF LedgerType
  <1>4. CASE Authorize(w) \/ Record(w)
    <2>1. UNCHANGED <<request, done>>
      BY <1>4 DEF Authorize, Record
    <2>2. action' \in [Keys -> {"none", "running", "completed", "failed", "refused"}]
      BY <1>1, <1>4 DEF Authorize, Record, LedgerType
    <2> QED
      BY <1>1, <2>1, <2>2 DEF LedgerType
  <1>5. CASE UseTool(w)
    <2>1. UNCHANGED <<request, action>>
      BY <1>5 DEF UseTool
    <2>2. \/ done' = done
          \/ done' = [done EXCEPT ![Key(w)] = @ + 1]
      BY <1>5 DEF UseTool
    <2>3. Key(w) \in Keys
      BY <1>2, <1>5 DEF UseTool, InStep
    <2>4. done' \in [Keys -> Nat]
      BY <1>1, <2>2, <2>3 DEF LedgerType
    <2> QED
      BY <1>1, <2>1, <2>4 DEF LedgerType
  <1>6. CASE UNCHANGED <<request, action, done>>
    BY <1>1, <1>6 DEF LedgerType
  <1> QED
    BY <1>3, <1>4, <1>5, <1>6
       DEF Work, Take, Check, Resume, Settle, Finish, PauseBudget, PauseApproval, Pause, End,
           Throw

\* A step of an execution keeps the types of the order's rows.
LEMMA WorkKeepsRows ==
  ASSUME FullType, NEW w \in Workers, Work(w)
  PROVE  RowType'
  <1>1. w \in Procs /\ ProcType /\ RowType /\ (pc[w] # "idle" => at[w] \in Orders)
    BY Somewhere DEF Procs, FullType
  <1>2. kind' = kind /\ overtime' = overtime
    BY DEF Work, Take, Check, Request, Resume, Authorize, UseTool, Record, Settle, Finish,
           PauseBudget, PauseApproval, Pause, End, Throw, WorkerOnly
  <1>3. CASE Finish(w) \/ PauseBudget(w) \/ PauseApproval(w)
    <2>1. UNCHANGED <<used, spent>>
      BY <1>3 DEF Finish, PauseBudget, PauseApproval, Pause, spendVars
    <2>2. /\ status' \in [Orders -> {"draft", "active", "paused", "completed"}]
          /\ reason' \in [Orders -> {"none", "budget", "approval"}]
      BY <1>1, <1>3 DEF Finish, PauseBudget, PauseApproval, Pause, RowType
    <2> QED
      BY <1>1, <1>2, <2>1, <2>2 DEF RowType
  <1>4. CASE Settle(w)
    BY <1>1, <1>2, <1>4 DEF Settle, RowType
  <1>5. CASE UseTool(w)
    <2>1. UNCHANGED <<status, reason, used>> /\ at[w] \in Orders
      BY <1>1, <1>5 DEF UseTool
    <2>2. spent' = spent \/ spent' = [spent EXCEPT ![at[w]] = @ + 1]
      BY <1>5 DEF UseTool
    <2>3. spent' \in [Orders -> Nat]
      BY <1>1, <2>1, <2>2 DEF RowType
    <2> QED
      BY <1>1, <1>2, <2>1, <2>3 DEF RowType
  <1>6. CASE UNCHANGED <<status, reason, used, spent>>
    BY <1>1, <1>2, <1>6 DEF RowType
  <1> QED
    BY <1>3, <1>4, <1>5, <1>6
       DEF Work, Take, Check, Request, Resume, Authorize, Record, End, Throw, spendVars

\* A step of an execution keeps the types of what it did outside.
LEMMA WorkKeepsWorld ==
  ASSUME FullType, NEW w \in Workers, Work(w)
  PROVE  WorldType'
  <1>1. w \in Procs /\ ProcType /\ WorldType /\ (pc[w] # "idle" => at[w] \in Orders)
    BY Somewhere DEF Procs, FullType
  <1>2. UNCHANGED <<lead, policy, seen, events, faults>>
    BY DEF Work, Take, Check, Request, Resume, Authorize, UseTool, Record, Settle, Finish,
           PauseBudget, PauseApproval, Pause, End, Throw, WorkerOnly, bounds
  <1>3. fresh' \in BOOLEAN /\ enrolled' \in Orders \cup {NoOrder}
    <2>1. CASE UseTool(w)
      <3>1. fresh' = fresh \/ fresh' = (fresh \/ TRUE) \/ fresh' = (fresh \/ FALSE)
        BY <2>1 DEF UseTool
      <3>2. enrolled' = enrolled \/ enrolled' = at[w]
        BY <2>1 DEF UseTool
      <3>3. at[w] \in Orders
        BY <1>1, <2>1 DEF UseTool
      <3>4. fresh' \in BOOLEAN
        BY <1>1, <3>1 DEF WorldType
      <3> QED
        BY <1>1, <3>2, <3>3, <3>4 DEF WorldType
    <2>2. CASE UNCHANGED <<fresh, enrolled>>
      BY <1>1, <2>2 DEF WorldType
    <2> QED
      BY <2>1, <2>2
         DEF Work, Take, Check, Request, Resume, Authorize, Record, Settle, Finish,
             PauseBudget, PauseApproval, Pause, End, Throw
  <1> QED
    BY <1>1, <1>2, <1>3 DEF WorldType

\* The lease keeps its type, and no worker gives it a new token.
LEMMA ReleaseType ==
  ASSUME LeaseType, NEW w \in Workers
  PROVE  /\ Released(at[w]) \in
              [holder : Orders \cup {NoOrder}, token : 0..MaxEvents, live : BOOLEAN]
         /\ FencedRelease(w) \in
              [holder : Orders \cup {NoOrder}, token : 0..MaxEvents, live : BOOLEAN]
  BY DEF LeaseType, Released, FencedRelease

\* A job that is let go of is nobody's.
NotHeld == {j \in Jobs : j.owner = NoOrder /\ j.state # "active"}

\* An empty job is held by nobody.
LEMMA NoJobType == NoJob \in NotHeld
  BY BoundAssumption DEF NoJob, NotHeld, Jobs

\* An execution that ends or throws gives up the job of its order, if it is its own.
LEMMA LetsGo ==
  ASSUME FullType, NEW w \in Workers, End(w) \/ Throw(w)
  PROVE  /\ at[w] \in Orders
         /\ \/ job' = job /\ job[at[w]].owner # w
            \/ /\ job[at[w]].owner = w
               /\ \E j \in NotHeld : job' = [job EXCEPT ![at[w]] = j]
  <1>1. w \in Procs /\ ProcType /\ LeaseType /\ pc[w] # "idle"
    BY DEF Procs, FullType, End, Throw
  <1>2. at[w] \in Orders
    BY <1>1, Somewhere
  <1>3. job \in [Orders -> Jobs] /\ job[at[w]] \in Jobs
    BY <1>1, <1>2 DEF LeaseType
  <1>4. CASE job[at[w]].owner # w
    BY <1>2, <1>4 DEF End, Throw
  <1>5. CASE /\ job[at[w]].owner = w
             /\ job' = [job EXCEPT ![at[w]] = NoJob]
    BY <1>2, <1>5, NoJobType
  <1>6. CASE /\ job[at[w]].owner = w /\ job[at[w]].tries + 1 < MaxAttempts
             /\ job' = [job EXCEPT ![at[w]].state = "waiting", ![at[w]].owner = NoOrder,
                                   ![at[w]].tries = @ + 1]
    <2> DEFINE t == job[at[w]].tries + 1
    <2>1. t \in 0..(MaxAttempts - 1)
      <3>1. \A x \in 0..(MaxAttempts - 1) : x + 1 < MaxAttempts => x + 1 \in 0..(MaxAttempts - 1)
        BY BoundAssumption
      <3>2. job[at[w]].tries \in 0..(MaxAttempts - 1)
        BY <1>3 DEF Jobs
      <3> QED
        BY <1>6, <3>1, <3>2
    <2> DEFINE j == [job[at[w]] EXCEPT !.state = "waiting", !.owner = NoOrder, !.tries = t]
    <2>2. job' = [job EXCEPT ![at[w]] = j]
      <3>1. job' = [job EXCEPT ![at[w]] =
                 [[[job[at[w]] EXCEPT !.state = "waiting"] EXCEPT !.owner = NoOrder]
                    EXCEPT !.tries = @ + 1]]
        BY <1>2, <1>3, <1>6
      <3>2. [[[job[at[w]] EXCEPT !.state = "waiting"] EXCEPT !.owner = NoOrder]
                    EXCEPT !.tries = @ + 1] = j
        BY <1>3 DEF Jobs
      <3> QED
        BY <3>1, <3>2
    <2> HIDE DEF t
    <2>3. j \in NotHeld
      BY <1>3, <2>1 DEF NotHeld, Jobs
    <2> HIDE DEF j
    <2> QED
      BY <1>2, <1>6, <2>2, <2>3
  <1> QED
    BY <1>4, <1>5, <1>6 DEF End, Throw

\* An execution that takes a waiting job becomes its owner.
LEMMA TakesJob ==
  ASSUME FullType, JobHeld, NEW w \in Workers, NEW o \in Orders, Take(w, o)
  PROVE  /\ pc[w] = "idle" /\ at[w] = NoOrder
         /\ job[o].state = "waiting" /\ job[o].owner = NoOrder
         /\ \E j \in Jobs : /\ j.state = "active" /\ j.owner = w
                            /\ job' = [job EXCEPT ![o] = j]
  <1>1. w \in Procs /\ ProcType /\ LeaseType /\ pc[w] = "idle" /\ job[o].state = "waiting"
    BY DEF Procs, FullType, Take
  <1>2. at[w] = NoOrder
    BY <1>1, Somewhere
  <1>3. job[o].owner = NoOrder
    BY <1>1 DEF JobHeld
  <1> DEFINE j == [job[o] EXCEPT !.state = "active", !.owner = w]
  <1>4. job \in [Orders -> Jobs] /\ job[o] \in Jobs
    BY <1>1 DEF LeaseType
  <1>5. job' = [job EXCEPT ![o] = j]
    <2>1. job' = [job EXCEPT ![o] = [[job[o] EXCEPT !.state = "active"] EXCEPT !.owner = w]]
      BY <1>4 DEF Take
    <2> QED
      BY <2>1
  <1>6. j \in Jobs /\ j.state = "active" /\ j.owner = w
    BY <1>4 DEF Jobs
  <1> QED
    BY <1>1, <1>2, <1>3, <1>5, <1>6

\* A step of an execution keeps the types of jobs and leases.
LEMMA WorkKeepsLease ==
  ASSUME FullType, JobHeld, NEW w \in Workers, Work(w)
  PROVE  LeaseType'
  <1>1. w \in Procs /\ ProcType /\ LeaseType
    BY DEF Procs, FullType
  <1>2. UNCHANGED <<minted, events>>
    BY DEF Work, Take, Check, Request, Resume, Authorize, UseTool, Record, Settle, Finish,
           PauseBudget, PauseApproval, Pause, End, Throw, WorkerOnly, bounds
  <1>3. Minting' = Minting
    BY <1>1, WorkMoves, MintingKept
  <1>4. lease' \in [holder : Orders \cup {NoOrder}, token : 0..MaxEvents, live : BOOLEAN]
    <2>1. lease' \in {lease, Released(at[w]), FencedRelease(w)}
      BY DEF Work, Take, Check, Request, Resume, Authorize, UseTool, Record, Settle, Finish,
             PauseBudget, PauseApproval, Pause, End, Throw
    <2> QED
      BY <1>1, <2>1, ReleaseType DEF LeaseType
  <1>5. job' \in [Orders -> Jobs]
    <2>1. CASE \E o \in Orders : Take(w, o)
      BY <1>1, <2>1, TakesJob DEF LeaseType
    <2>2. CASE End(w) \/ Throw(w)
      BY <1>1, <2>2, LetsGo DEF LeaseType, NotHeld
    <2>3. CASE UNCHANGED job
      BY <1>1, <2>3 DEF LeaseType
    <2> QED
      BY <2>1, <2>2, <2>3
         DEF Work, Check, Request, Resume, Authorize, UseTool, Record, Settle, Finish,
             PauseBudget, PauseApproval, Pause
  <1> QED
    BY <1>1, <1>2, <1>3, <1>4, <1>5 DEF LeaseType

\* A step of an execution keeps every type.
LEMMA WorkKeepsType ==
  ASSUME FullType, JobHeld, NEW w \in Workers, Work(w)
  PROVE  FullType'
  BY WorkMoves, WorkKeepsLedger, WorkKeepsRows, WorkKeepsWorld, WorkKeepsLease DEF FullType

\* A clerk that minted a token holds one that is in range.
LEMMA TokenInRange ==
  ASSUME FullType, NEW c \in Clerks, pc[c] \in {"claim", "reclaim"}
  PROVE  /\ c \in Minting /\ IsFiniteSet(Minting)
         /\ minted + 1 \in 0..MaxEvents /\ minted + Cardinality(Minting) <= events
         /\ Cardinality(Minting \ {c}) = Cardinality(Minting) - 1
         /\ Cardinality(Minting) \in Nat /\ minted \in Nat /\ events \in Nat
  <1>1. c \in Minting /\ Minting \subseteq Clerks
    BY DEF Minting
  <1>2. IsFiniteSet(Minting)
    BY <1>1, ProcAssumption, FS_Subset
  <1>3. Cardinality(Minting) \in Nat /\ Cardinality(Minting \ {c}) \in Nat
        /\ Cardinality(Minting \ {c}) = Cardinality(Minting) - 1
    BY <1>1, <1>2, FS_RemoveElement, FS_CardinalityType, FS_Subset
  <1>4. /\ minted \in Nat /\ minted + Cardinality(Minting) <= events
        /\ events \in 0..MaxEvents /\ MaxEvents \in Nat
    BY BoundAssumption DEF FullType, LeaseType, WorldType
  <1>5. minted + 1 \in 0..MaxEvents /\ events \in Nat
    BY <1>3, <1>4
  <1> QED
    BY <1>1, <1>2, <1>3, <1>4, <1>5

\* A clerk moves itself, and its moves are permitted.
LEMMA ServeMoves ==
  ASSUME FullType, NEW c \in Clerks, Serve(c)
  PROVE  /\ c \in Procs /\ c \notin Workers
         /\ \E l, a, r : Moves(c, l, a, r) /\ Placed(c, l, a, r)
  <1>1. c \in Procs /\ ProcType /\ c \notin Workers
    BY ProcAssumption DEF Procs, FullType
  <1>2. /\ run[c] \in Runs /\ run[c].i <= Len(run[c].plan) + 1
        /\ at[c] \in Orders \cup {NoOrder} /\ (pc[c] # "idle" => at[c] # NoOrder)
    BY <1>1, Somewhere DEF ProcType
  <1>3. CASE \E o \in Orders : Dispatch(c, o)
    <2>1. PICK o \in Orders : Dispatch(c, o)
      BY <1>3
    <2>2. PICK l \in {"claim", "reclaim"} : Goto(c, l)
      BY <2>1 DEF Dispatch
    <2>3. Moves(c, l, o, run[c])
      BY <1>1, <2>1, <2>2 DEF Dispatch, Goto, Moves, ProcType
    <2>4. Placed(c, l, o, run[c])
      BY <1>1, <1>2, OrderAssumption DEF Placed, ClerkPhases, InStep
    <2> QED
      BY <1>1, <2>3, <2>4
  <1>4. CASE Leave(c)
    BY <1>1, <1>4, LeaveMoves
  <1>5. CASE /\ pc[c] # "idle" /\ UNCHANGED <<at, run>>
             /\ \E l \in {"activate", "enqueue"} : Goto(c, l)
    <2>1. PICK l \in {"activate", "enqueue"} : Goto(c, l)
      BY <1>5
    <2>2. Moves(c, l, at[c], run[c])
      BY <1>1, <1>5, <2>1, StayMoves
    <2>3. Placed(c, l, at[c], run[c])
      BY <1>1, <1>2, <1>5 DEF Placed, ClerkPhases, InStep
    <2> QED
      BY <1>1, <2>2, <2>3
  <1>6. CASE /\ pc[c] = "claim" /\ UNCHANGED at /\ Goto(c, "activate")
             /\ run' = [run EXCEPT ![c].token = minted + 1]
    <2> DEFINE r == [run[c] EXCEPT !.token = minted + 1]
    <2>1. minted + 1 \in 0..MaxEvents
      BY <1>6, TokenInRange
    <2>2. r \in Runs /\ r.plan = run[c].plan /\ r.i = run[c].i
      BY <1>2, <2>1 DEF Runs
    <2>3. run' = [run EXCEPT ![c] = r]
      BY <1>6
    <2> HIDE DEF r
    <2>4. Moves(c, "activate", at[c], r)
      BY <1>1, <1>6, <2>3, StayMoves
    <2>5. Placed(c, "activate", at[c], r)
      BY <1>1, <1>2, <1>6, <2>2 DEF Placed, ClerkPhases, InStep
    <2> QED
      BY <1>1, <2>4, <2>5
  <1> QED
    BY <1>3, <1>4, <1>5, <1>6 DEF Serve, Claim, Reclaim, Activate, Enqueue, Stay

\* A request keeps the types of jobs and leases.
LEMMA ServeKeepsLease ==
  ASSUME FullType, JobHeld, NEW c \in Clerks, Serve(c)
  PROVE  LeaseType'
  <1>1. c \in Procs /\ ProcType /\ LeaseType
    BY DEF Procs, FullType
  <1>2. PICK l, a, r : Moves(c, l, a, r)
    BY ServeMoves
  <1>3. pc'[c] = l /\ \A d \in Clerks \ {c} : pc'[d] = pc[d]
    BY <1>1, <1>2, MovesPoint DEF Procs
  <1>4. IsFiniteSet(Minting)
    BY ProcAssumption, FS_Subset DEF Minting
  <1>5. /\ Cardinality(Minting) \in Nat /\ minted \in Nat /\ events \in Nat
        /\ minted + Cardinality(Minting) <= events
    BY <1>4, FS_CardinalityType DEF FullType, LeaseType, WorldType
  <1>6. CASE \E o \in Orders : Dispatch(c, o)
    <2>1. /\ UNCHANGED <<minted, lease, job>> /\ events' = events + 1
          /\ pc[c] = "idle" /\ pc'[c] \in {"claim", "reclaim"}
      BY <1>1, <1>6 DEF Dispatch, Event, leaseVars, Goto, ProcType
    <2>2. c \notin Minting /\ Minting' = Minting \cup {c}
      BY <1>3, <2>1 DEF Minting
    <2>3. Cardinality(Minting') = Cardinality(Minting) + 1
      BY <1>4, <2>2, FS_AddElement
    <2>4. minted' + Cardinality(Minting') <= events'
      BY <1>5, <2>1, <2>3
    <2> QED
      BY <1>1, <2>1, <2>4 DEF LeaseType
  <1>7. CASE Claim(c) \/ Reclaim(c)
    <2>1. /\ pc[c] \in {"claim", "reclaim"} /\ pc'[c] \notin {"claim", "reclaim"}
          /\ UNCHANGED <<events, job>>
      BY <1>1, <1>7 DEF Claim, Reclaim, Leave, Goto, ProcType, bounds
    <2>2. Minting' = Minting \ {c}
      BY <1>3, <2>1 DEF Minting
    <2>3. Cardinality(Minting') = Cardinality(Minting) - 1 /\ minted + 1 \in 0..MaxEvents
      BY <2>1, <2>2, TokenInRange
    <2>4. \/ UNCHANGED <<lease, minted>>
          \/ /\ lease' = [holder |-> at[c], token |-> minted + 1, live |-> TRUE]
             /\ minted' = minted + 1
      BY <1>7 DEF Claim, Reclaim, TakeLease, leaseVars
    <2>5. minted' \in Nat /\ minted' <= minted + 1
      BY <1>5, <2>4
    <2>6. minted' + Cardinality(Minting') <= events'
      BY <1>5, <2>1, <2>3, <2>5
    <2>7. at[c] \in Orders
      BY <1>1, <2>1, Somewhere
    <2>8. lease' \in [holder : Orders \cup {NoOrder}, token : 0..MaxEvents, live : BOOLEAN]
      <3> DEFINE t == minted + 1
      <3>1. t \in 0..MaxEvents
        BY <2>3
      <3>2. lease' = lease \/ lease' = [holder |-> at[c], token |-> t, live |-> TRUE]
        BY <2>4
      <3> HIDE DEF t
      <3>3. [holder |-> at[c], token |-> t, live |-> TRUE] \in
              [holder : Orders \cup {NoOrder}, token : 0..MaxEvents, live : BOOLEAN]
        BY <2>7, <3>1
      <3>4. lease \in [holder : Orders \cup {NoOrder}, token : 0..MaxEvents, live : BOOLEAN]
        BY <1>1 DEF LeaseType
      <3> QED
        BY <3>2, <3>3, <3>4, Zenon
    <2> QED
      BY <1>1, <2>1, <2>5, <2>6, <2>8 DEF LeaseType
  <1>8. CASE Activate(c) \/ Enqueue(c)
    <2>1. /\ pc[c] \notin {"claim", "reclaim"} /\ pc'[c] \notin {"claim", "reclaim"}
          /\ UNCHANGED <<events, minted, lease>>
      BY <1>1, <1>8 DEF Activate, Enqueue, Leave, Goto, ProcType, bounds, leaseVars
    <2>2. Minting' = Minting
      BY <1>3, <2>1 DEF Minting
    <2>3. job' \in [Orders -> Jobs]
      <3> DEFINE j == [NoJob EXCEPT !.state = "waiting", !.token = run[c].token]
      <3>1. run[c].token \in 0..MaxEvents
        BY <1>1, Somewhere DEF Runs
      <3>2. j \in Jobs
        BY <3>1, NoJobType DEF NoJob, NotHeld, Jobs
      <3>3. job' = job \/ job' = [job EXCEPT ![at[c]] = j]
        BY <1>8 DEF Activate, Enqueue
      <3> HIDE DEF j
      <3> QED
        BY <1>1, <3>2, <3>3 DEF LeaseType
    <2> QED
      BY <1>1, <2>1, <2>2, <2>3 DEF LeaseType
  <1> QED
    BY <1>6, <1>7, <1>8 DEF Serve

\* A request keeps every type.
LEMMA ServeKeepsType ==
  ASSUME FullType, JobHeld, NEW c \in Clerks, Serve(c)
  PROVE  FullType'
  <1>1. c \in Procs /\ ProcType /\ RowType /\ LedgerType /\ WorldType
    BY DEF Procs, FullType
  <1>2. ProcType'
    BY <1>1, ServeMoves, MovesType
  <1>3. LeaseType'
    BY ServeKeepsLease
  <1>4. LedgerType'
    BY <1>1 DEF Serve, Dispatch, Claim, Reclaim, Activate, Enqueue, LedgerType
  <1>5. RowType'
    <2>1. UNCHANGED <<kind, overtime, used, spent>>
      BY DEF Serve, Dispatch, Claim, Reclaim, Activate, Enqueue, rowVars, spendVars
    <2>2. /\ status' \in [Orders -> {"draft", "active", "paused", "completed"}]
          /\ reason' \in [Orders -> {"none", "budget", "approval"}]
      BY <1>1 DEF Serve, Dispatch, Claim, Reclaim, Activate, Enqueue, rowVars, RowType
    <2> QED
      BY <1>1, <2>1, <2>2 DEF RowType
  <1>6. WorldType'
    <2>1. UNCHANGED <<lead, enrolled, fresh, policy, seen, faults>>
      BY DEF Serve, Dispatch, Claim, Reclaim, Activate, Enqueue, worldVars, bounds, Event
    <2>2. events' = events \/ (events < MaxEvents /\ events' = events + 1)
      BY DEF Serve, Dispatch, Claim, Reclaim, Activate, Enqueue, bounds, Event
    <2>3. events' \in 0..MaxEvents
      BY <1>1, <2>2, BoundAssumption DEF WorldType
    <2> QED
      BY <1>1, <2>1, <2>3 DEF WorldType
  <1> QED
    BY <1>2, <1>3, <1>4, <1>5, <1>6 DEF FullType

\* A job that is put back is waiting and nobody's; the others are left alone.
LEMMA RequeuedJobs ==
  ASSUME LeaseType, NEW w \in Workers
  PROVE  /\ Requeued(w) \in [Orders -> Jobs]
         /\ \A o \in Orders :
              IF job[o].owner = w
              THEN Requeued(w)[o].state = "waiting" /\ Requeued(w)[o].owner = NoOrder
              ELSE Requeued(w)[o] = job[o]
  <1>1. \A o \in Orders : job[o] \in Jobs
    BY DEF LeaseType
  <1>2. \A j \in Jobs : /\ [j EXCEPT !.state = "waiting", !.owner = NoOrder] \in Jobs
                        /\ [j EXCEPT !.state = "waiting", !.owner = NoOrder].state = "waiting"
                        /\ [j EXCEPT !.state = "waiting", !.owner = NoOrder].owner = NoOrder
    BY DEF Jobs
  <1> QED
    BY <1>1, <1>2 DEF Requeued

\* What happens outside moves no process, except that one that dies is gone.
LEMMA OutsideMoves ==
  ASSUME FullType, Outside
  PROVE  \/ UNCHANGED procVars
         \/ \E p \in Procs : Crash(p) /\ Moves(p, "idle", NoOrder, NoRun)
                             /\ Placed(p, "idle", NoOrder, NoRun)
  <1>1. CASE \E p \in Procs : Crash(p)
    BY <1>1, LeaveMoves DEF Crash
  <1>2. CASE UNCHANGED procVars
    BY <1>2
  <1> QED
    BY <1>1, <1>2 DEF Outside, Decide, Overdue, ExpireSweep, SetPolicy, LeadTaken, TimeUp,
                      LeaseExpires, Stall

\* The counters of events and faults stay in range and never go back.
LEMMA OutsideCounts ==
  ASSUME FullType, Outside
  PROVE  /\ events' \in 0..MaxEvents /\ faults' \in 0..MaxFaults
         /\ events' \in {events, events + 1} /\ faults' \in {faults, faults + 1}
         /\ events \in Nat /\ faults \in Nat
  <1>1. /\ events' = events \/ (events < MaxEvents /\ events' = events + 1)
        /\ faults' = faults \/ (faults < MaxFaults /\ faults' = faults + 1)
    BY DEF Outside, Decide, Overdue, ExpireSweep, SetPolicy, LeadTaken, TimeUp, LeaseExpires,
           Crash, Stall, Event, Fault, bounds
  <1>2. events \in 0..MaxEvents /\ faults \in 0..MaxFaults /\ MaxEvents \in Nat
        /\ MaxFaults \in Nat
    BY BoundAssumption DEF FullType, WorldType
  <1> QED
    BY <1>1, <1>2

\* The queue, the sweeps and the crashes keep every type.
LEMMA OutsideKeepsType ==
  ASSUME FullType, JobHeld, Outside
  PROVE  FullType'
  <1>1. ProcType /\ RowType /\ LedgerType /\ WorldType /\ LeaseType
    BY DEF FullType
  <1>2. ProcType' /\ Minting' \subseteq Minting
    <2>1. CASE UNCHANGED procVars
      BY <1>1, <2>1 DEF ProcType, procVars, Minting
    <2>2. ASSUME NEW p \in Procs, Moves(p, "idle", NoOrder, NoRun),
                 Placed(p, "idle", NoOrder, NoRun)
          PROVE  ProcType' /\ Minting' \subseteq Minting
      <3>1. ProcType'
        BY <1>1, <2>2, MovesType
      <3>2. /\ pc'[p] = "idle"
            /\ \A q \in Procs \ {p} : pc'[q] = pc[q]
        BY <1>1, <2>2, MovesPoint
      <3> QED
        BY <3>1, <3>2 DEF Minting, Procs
    <2> QED
      BY <2>1, <2>2, OutsideMoves
  <1>3. RowType'
    <2>1. UNCHANGED <<kind, status, reason, used, spent>>
      BY DEF Outside, Decide, Overdue, ExpireSweep, SetPolicy, LeadTaken, TimeUp, LeaseExpires,
             Crash, Stall, OutsideOnly, spendVars
    <2>2. overtime' = overtime \/ \E o \in Orders : overtime' = [overtime EXCEPT ![o] = TRUE]
      BY DEF Outside, Decide, Overdue, ExpireSweep, SetPolicy, LeadTaken, TimeUp, LeaseExpires,
             Crash, Stall
    <2>3. overtime' \in [Orders -> BOOLEAN]
      BY <1>1, <2>2 DEF RowType
    <2> QED
      BY <1>1, <2>1, <2>3 DEF RowType
  <1>4. LedgerType'
    <2>1. UNCHANGED <<action, done>>
      BY DEF Outside, Decide, Overdue, ExpireSweep, SetPolicy, LeadTaken, TimeUp, LeaseExpires,
             Crash, Stall, OutsideOnly
    <2>2. CASE \E k \in Keys : Decide(k)
      <3>1. PICK k \in Keys, x \in {"approved", "rejected"} :
              request' = [request EXCEPT ![k].status = x]
        BY <2>2 DEF Decide
      <3> DEFINE new == [request[k] EXCEPT !.status = x]
      <3>2. request' = [request EXCEPT ![k] = new]
        BY <3>1
      <3>3. new \in Requests /\ new.status # "none"
        BY <1>1 DEF LedgerType, Requests
      <3> HIDE DEF new
      <3> QED
        BY <1>1, <2>1, <3>2, <3>3 DEF LedgerType
    <2>3. CASE \E k \in Keys : Overdue(k)
      <3>1. PICK k \in Keys : /\ request' = [request EXCEPT ![k].late = TRUE]
                              /\ request[k].status \in {"pending", "approved"}
        BY <2>3 DEF Overdue
      <3> DEFINE new == [request[k] EXCEPT !.late = TRUE]
      <3>2. request' = [request EXCEPT ![k] = new]
        BY <3>1
      <3>3. new \in Requests /\ new.status # "none"
        BY <1>1, <3>1 DEF LedgerType, Requests
      <3> HIDE DEF new
      <3> QED
        BY <1>1, <2>1, <3>2, <3>3 DEF LedgerType
    <2>4. CASE \E k \in Keys : ExpireSweep(k)
      <3>1. PICK k \in Keys : request' = [request EXCEPT ![k].status = "expired"]
        BY <2>4 DEF ExpireSweep
      <3> DEFINE new == [request[k] EXCEPT !.status = "expired"]
      <3>2. request' = [request EXCEPT ![k] = new]
        BY <3>1
      <3>3. new \in Requests /\ new.status # "none"
        BY <1>1 DEF LedgerType, Requests
      <3> HIDE DEF new
      <3> QED
        BY <1>1, <2>1, <3>2, <3>3 DEF LedgerType
    <2>5. CASE request' = request
      BY <1>1, <2>1, <2>5 DEF LedgerType
    <2> QED
      BY <2>2, <2>3, <2>4, <2>5
         DEF Outside, SetPolicy, LeadTaken, TimeUp, LeaseExpires, Crash, Stall
  <1>5. WorldType'
    <2>1. UNCHANGED <<enrolled, fresh>> /\ lead' \in {lead, "human"}
      BY DEF Outside, Decide, Overdue, ExpireSweep, SetPolicy, LeadTaken, TimeUp, LeaseExpires,
             Crash, Stall, OutsideOnly
    <2>2. \/ UNCHANGED <<policy, seen>>
          \/ \E m \in Modes : policy' = m /\ seen' = seen \cup {m}
      BY DEF Outside, Decide, Overdue, ExpireSweep, SetPolicy, LeadTaken, TimeUp, LeaseExpires,
             Crash, Stall
    <2>3. policy' \in seen' /\ seen' \subseteq Modes
      BY <1>1, <2>2 DEF WorldType
    <2> QED
      BY <1>1, <2>1, <2>3, OutsideCounts DEF WorldType
  <1>6. LeaseType'
    <2>1. IsFiniteSet(Minting) /\ IsFiniteSet(Minting')
      <3>1. Minting \subseteq Clerks /\ Minting' \subseteq Clerks
        BY DEF Minting
      <3> QED
        BY <3>1, ProcAssumption, FS_Subset
    <2>2. /\ Cardinality(Minting') <= Cardinality(Minting)
          /\ Cardinality(Minting') \in Nat /\ Cardinality(Minting) \in Nat
      BY <1>2, <2>1, FS_Subset, FS_CardinalityType
    <2>3. minted' = minted
      BY DEF Outside, Decide, Overdue, ExpireSweep, SetPolicy, LeadTaken, TimeUp, LeaseExpires,
             Crash, Stall, OutsideOnly
    <2>4. minted' \in Nat /\ minted' + Cardinality(Minting') <= events'
      BY <1>1, <2>2, <2>3, OutsideCounts DEF LeaseType
    <2>5. lease' = lease \/ lease' = [lease EXCEPT !.live = FALSE]
      BY DEF Outside, Decide, Overdue, ExpireSweep, SetPolicy, LeadTaken, TimeUp, LeaseExpires,
             Crash, Stall
    <2>6. lease' \in [holder : Orders \cup {NoOrder}, token : 0..MaxEvents, live : BOOLEAN]
      BY <1>1, <2>5 DEF LeaseType
    <2>7. job' = job \/ \E w \in Workers : job' = Requeued(w)
      BY DEF Outside, Decide, Overdue, ExpireSweep, SetPolicy, LeadTaken, TimeUp, LeaseExpires,
             Crash, Stall
    <2>8. job' \in [Orders -> Jobs]
      BY <1>1, <2>7, RequeuedJobs DEF LeaseType
    <2> QED
      BY <2>4, <2>6, <2>8 DEF LeaseType
  <1> QED
    BY <1>2, <1>3, <1>4, <1>5, <1>6 DEF FullType

\* The types hold at first, and nobody holds a job.
LEMMA InitType == Init => FullType /\ JobHeld
  <1> SUFFICES ASSUME Init PROVE FullType /\ JobHeld
    OBVIOUS
  <1>1. RowType
    BY DEF Init, RowType
  <1>2. LedgerType
    BY DEF Init, LedgerType, NoRequest, Requests
  <1>3. WorldType
    <2>1. 0 \in 0..MaxEvents /\ 0 \in 0..MaxFaults
      BY BoundAssumption
    <2>2. policy \in seen /\ seen \subseteq Modes
      BY DEF Init
    <2> QED
      BY <2>1, <2>2 DEF Init, WorldType
  <1>4. LeaseType
    <2>1. Minting = {}
      BY DEF Init, Minting, Procs
    <2>2. minted = 0 /\ events = 0 /\ Cardinality(Minting) = 0
      BY <2>1, FS_EmptySet DEF Init
    <2>3. NoJob \in Jobs /\ 0 \in 0..MaxEvents
      BY NoJobType, BoundAssumption DEF NotHeld
    <2>4. lease \in [holder : Orders \cup {NoOrder}, token : 0..MaxEvents, live : BOOLEAN]
      BY <2>3 DEF Init
    <2>5. job \in [Orders -> Jobs]
      BY <2>3 DEF Init
    <2> QED
      BY <2>2, <2>4, <2>5 DEF LeaseType
  <1>5. ProcType
    BY NoRunType
       DEF Init, ProcType, Procs, Phases, WorkerPhases, ClerkPhases, InStep
  <1>6. JobHeld
    BY DEF Init, JobHeld, NoJob
  <1> QED
    BY <1>1, <1>2, <1>3, <1>4, <1>5, <1>6 DEF FullType

\* A worker takes a job, lets one go, or touches neither its place nor the queue.
LEMMA WorkSplit ==
  ASSUME NEW w \in Workers, Work(w)
  PROVE  \/ \E o \in Orders : Take(w, o)
         \/ End(w) \/ Throw(w)
         \/ /\ UNCHANGED <<at, job>>
            /\ \/ Check(w) \/ Request(w) \/ Resume(w) \/ Authorize(w) \/ UseTool(w)
               \/ Record(w) \/ Settle(w) \/ Finish(w) \/ PauseBudget(w) \/ PauseApproval(w)
  BY DEF Work, Check, Request, Resume, Authorize, UseTool, Record, Settle, Finish,
         PauseBudget, PauseApproval, Pause, Stay

\* Jobs are held by executions that are at them.
LEMMA JobsStayHeld ==
  ASSUME FullType, JobHeld, Next
  PROVE  JobHeld'
  <1>1. ProcType /\ LeaseType /\ job \in [Orders -> Jobs]
    BY DEF FullType, LeaseType
  <1>2. \A o \in Orders : job[o].owner \in Workers \cup {NoOrder}
    BY <1>1 DEF Jobs
  <1>3. ASSUME NEW w \in Workers, Work(w) PROVE JobHeld'
    <2>1. w \in Procs
      BY DEF Procs
    <2>2. CASE \E o \in Orders : Take(w, o)
      <3>1. PICK o \in Orders : Take(w, o)
        BY <2>2
      <3>2. PICK j \in Jobs : j.state = "active" /\ j.owner = w /\ job' = [job EXCEPT ![o] = j]
        BY <3>1, TakesJob
      <3>3. PICK r : Moves(w, "check", o, r)
        BY <3>1, TakeMoves
      <3>4. at'[w] = o /\ \A q \in Procs \ {w} : at'[q] = at[q]
        BY <1>1, <2>1, <3>3, MovesPoint
      <3>5. at[w] = NoOrder
        BY <3>1, TakesJob
      <3>6. job'[o] = j /\ \A p \in Orders \ {o} : job'[p] = job[p]
        BY <1>1, <3>2
      <3>7. \A p \in Orders \ {o} : job[p].owner # w
        BY <3>5, OrderAssumption DEF JobHeld
      <3> QED
        BY <1>2, <3>2, <3>4, <3>6, <3>7, OrderAssumption DEF JobHeld, Procs
    <2>3. CASE End(w) \/ Throw(w)
      <3>1. \A q \in Procs \ {w} : at'[q] = at[q]
        BY <1>1, <2>1, <2>3, EndMoves, MovesPoint
      <3>2. \A o \in Orders : job[o].owner = w => o = at[w]
        BY OrderAssumption DEF JobHeld
      <3>3. CASE job' = job /\ job[at[w]].owner # w
        BY <1>2, <3>1, <3>2, <3>3 DEF JobHeld, Procs
      <3>4. CASE \E j \in NotHeld : job' = [job EXCEPT ![at[w]] = j]
        BY <1>1, <1>2, <3>1, <3>2, <3>4 DEF JobHeld, Procs, NotHeld
      <3> QED
        BY <2>3, <3>3, <3>4, LetsGo
    <2>4. CASE UNCHANGED <<at, job>>
      BY <2>4 DEF JobHeld
    <2> QED
      BY <1>3, <2>2, <2>3, <2>4, WorkSplit
  <1>4. ASSUME NEW c \in Clerks, Serve(c) PROVE JobHeld'
    <2>1. PICK l, a, r : Moves(c, l, a, r)
      BY <1>4, ServeMoves
    <2>2. \A w \in Workers : at'[w] = at[w]
      BY <1>1, <2>1, MovesPoint, ProcAssumption DEF Procs
    <2>3. \A o \in Orders : \/ job'[o] = job[o]
                            \/ /\ job[o].state = "none" /\ job'[o].state = "waiting"
                               /\ job'[o].owner = NoOrder
      <3>1. CASE Enqueue(c)
        <4> DEFINE j == [NoJob EXCEPT !.state = "waiting", !.token = run[c].token]
        <4>1. j.state = "waiting" /\ j.owner = NoOrder
          BY DEF NoJob
        <4>2. job' = job \/ (job[at[c]].state = "none" /\ job' = [job EXCEPT ![at[c]] = j])
          BY <3>1 DEF Enqueue
        <4> HIDE DEF j
        <4> QED
          BY <1>1, <4>1, <4>2
      <3>2. CASE UNCHANGED job
        BY <3>2
      <3> QED
        BY <1>4, <3>1, <3>2 DEF Serve, Dispatch, Claim, Reclaim, Activate
    <2> QED
      BY <1>2, <2>2, <2>3, OrderAssumption DEF JobHeld
  <1>5. ASSUME Outside PROVE JobHeld'
    <2>1. CASE \E p \in Procs : Crash(p)
      <3>1. PICK p \in Procs : Crash(p)
        BY <2>1
      <3>2. \A q \in Procs \ {p} : at'[q] = at[q]
        BY <1>1, <3>1, LeaveMoves, MovesPoint DEF Crash
      <3>3. CASE p \in Workers
        <4>1. job' = Requeued(p)
          BY <3>1, <3>3 DEF Crash
        <4> QED
          BY <1>1, <1>2, <3>2, <3>3, <4>1, RequeuedJobs, OrderAssumption DEF JobHeld, Procs
      <3>4. CASE p \notin Workers
        <4>1. job' = job
          BY <3>1, <3>4 DEF Crash
        <4> QED
          BY <1>2, <3>2, <3>4, <4>1 DEF JobHeld, Procs
      <3> QED
        BY <3>3, <3>4
    <2>2. CASE \E w \in Workers : Stall(w)
      <3>1. PICK w \in Workers : job' = Requeued(w) /\ at' = at
        BY <2>2 DEF Stall, procVars
      <3> QED
        BY <1>1, <1>2, <3>1, RequeuedJobs, OrderAssumption DEF JobHeld
    <2>3. CASE UNCHANGED <<at, job>>
      BY <2>3 DEF JobHeld
    <2> QED
      BY <1>5, <2>1, <2>2, <2>3
         DEF Outside, Decide, Overdue, ExpireSweep, SetPolicy, LeadTaken, TimeUp, LeaseExpires,
             procVars
  <1> QED
    BY <1>3, <1>4, <1>5 DEF Next

\* Every step keeps the types, and jobs held by their executions.
LEMMA StepKeepsType ==
  ASSUME FullType, JobHeld, [Next]_vars
  PROVE  FullType' /\ JobHeld'
  <1>1. CASE Next
    BY <1>1, WorkKeepsType, ServeKeepsType, OutsideKeepsType, JobsStayHeld DEF Next
  <1>2. CASE UNCHANGED vars
    BY <1>2 DEF vars, rowVars, spendVars, leaseVars, worldVars, procVars, bounds, FullType,
                RowType, LedgerType, WorldType, LeaseType, Minting, ProcType, JobHeld
  <1> QED
    BY <1>1, <1>2

\* Everything the model writes stays in its type.
THEOREM TypeCorrect == Spec => []TypeOK
  <1>1. FullType => TypeOK
    <2> SUFFICES ASSUME FullType PROVE TypeOK
      OBVIOUS
    <2>1. ProcType /\ RowType /\ LedgerType /\ WorldType /\ LeaseType
      BY DEF FullType
    <2>2. run \in [Procs -> [plan : Seq(Tools), i : Nat, token : 0..MaxEvents, level : 1..2,
                             approved : BOOLEAN, result : {"ok", "retry", "failed"},
                             keep : BOOLEAN]]
      <3>1. \A x \in Plans : x \in Seq(Tools)
        BY PlansAreShort
      <3>2. Runs \subseteq [plan : Seq(Tools), i : Nat, token : 0..MaxEvents, level : 1..2,
                            approved : BOOLEAN, result : {"ok", "retry", "failed"},
                            keep : BOOLEAN]
        BY <3>1 DEF Runs
      <3> QED
        BY <2>1, <3>2 DEF ProcType
    <2>3. pc \in [Procs -> {"idle", "check", "request", "resume", "authorize", "tool",
                       "record", "settle", "finish", "free", "end", "throw", "pauseBudget",
                       "pauseApproval", "claim", "reclaim", "activate",
                       "enqueue"}]
      BY <2>1 DEF ProcType, Phases, WorkerPhases, ClerkPhases, InStep
    <2>4. at \in [Procs -> Orders \cup {NoOrder}]
      BY <2>1 DEF ProcType
    <2>5. minted \in 0..MaxEvents
      <3>1. IsFiniteSet(Minting)
        BY ProcAssumption, FS_Subset DEF Minting
      <3>2. Cardinality(Minting) \in Nat
        BY <3>1, FS_CardinalityType
      <3>3. minted \in Nat /\ minted + Cardinality(Minting) <= events /\ events \in 0..MaxEvents
            /\ MaxEvents \in Nat
        BY <2>1, BoundAssumption DEF LeaseType, WorldType
      <3> QED
        BY <3>2, <3>3
    <2>6. /\ lease \in [holder : Orders \cup {NoOrder}, token : 0..MaxEvents, live : BOOLEAN]
          /\ job \in [Orders -> [state : {"none", "waiting", "active"},
                         owner : Workers \cup {NoOrder}, token : 0..MaxEvents,
                         tries : 0..(MaxAttempts - 1)]]
      BY <2>1 DEF LeaseType, Jobs
    <2>7. /\ request \in [Keys -> [status : {"none", "pending", "approved", "rejected",
                                             "expired"}, level : 1..2, late : BOOLEAN]]
          /\ action \in [Keys -> {"none", "running", "completed", "failed", "refused"}]
          /\ done \in [Keys -> Nat]
      BY <2>1 DEF LedgerType, Requests
    <2> QED
      BY <2>1, <2>2, <2>3, <2>4, <2>5, <2>6, <2>7 DEF TypeOK, RowType, WorldType
  <1>2. Init => FullType /\ JobHeld
    BY InitType
  <1>3. FullType /\ JobHeld /\ [Next]_vars => (FullType /\ JobHeld)'
    BY StepKeepsType
  <1> QED
    BY <1>1, <1>2, <1>3, PTL DEF Spec

(***************************************************************************)
(* Nothing runs without its approval                                       *)
(***************************************************************************)

\* What a request may turn into: a decision is never taken back, and only a
\* request that was not there is made.
LEMMA RequestsMoveOn ==
  ASSUME FullType, [Next]_vars, NEW k \in Keys
  PROVE  /\ request[k].status = "approved" => request'[k].status = "approved"
         /\ request'[k].late \/ ~request[k].late
         /\ request'[k].level = request[k].level \/ request[k].status = "none"
  <1>1. request \in [Keys -> Requests] /\ (request[k].late => request[k].status # "none")
    BY DEF FullType, LedgerType
  <1>2. CASE \E w \in Workers : Request(w)
    <2>1. PICK w \in Workers : Request(w)
      BY <1>2
    <2> DEFINE new == [NoRequest EXCEPT !.status = "pending", !.level = run[w].level]
    <2>2. \/ request' = request
          \/ request[Key(w)].status = "none" /\ request' = [request EXCEPT ![Key(w)] = new]
      BY <2>1 DEF Request
    <2> HIDE DEF new
    <2>3. k # Key(w) \/ request[Key(w)].status # "none" => request'[k] = request[k]
      BY <1>1, <2>2
    <2> QED
      BY <1>1, <2>3
  <1>3. CASE \E m \in Keys : Decide(m)
    <2>1. PICK m \in Keys, x \in {"approved", "rejected"} :
            request[m].status = "pending" /\ request' = [request EXCEPT ![m].status = x]
      BY <1>3 DEF Decide
    <2>2. request'[k] = IF k = m THEN [request[k] EXCEPT !.status = x] ELSE request[k]
      BY <1>1, <2>1
    <2>3. request[k] \in Requests
      BY <1>1
    <2> QED
      BY <2>1, <2>2, <2>3 DEF Requests
  <1>4. CASE \E m \in Keys : Overdue(m)
    <2>1. PICK m \in Keys : request' = [request EXCEPT ![m].late = TRUE]
      BY <1>4 DEF Overdue
    <2>2. request'[k] = IF k = m THEN [request[k] EXCEPT !.late = TRUE] ELSE request[k]
      BY <1>1, <2>1
    <2>3. request[k] \in Requests
      BY <1>1
    <2> QED
      BY <2>2, <2>3 DEF Requests
  <1>5. CASE \E m \in Keys : ExpireSweep(m)
    <2>1. PICK m \in Keys : /\ request[m].status = "pending"
                            /\ request' = [request EXCEPT ![m].status = "expired"]
      BY <1>5 DEF ExpireSweep
    <2>2. request'[k] = IF k = m THEN [request[k] EXCEPT !.status = "expired"] ELSE request[k]
      BY <1>1, <2>1
    <2>3. request[k] \in Requests
      BY <1>1
    <2> QED
      BY <2>1, <2>2, <2>3 DEF Requests
  <1>6. CASE UNCHANGED request
    BY <1>6
  <1>7. ASSUME NEW w \in Workers, Work(w) PROVE Request(w) \/ UNCHANGED request
    BY <1>7 DEF Work, Take, Check, Resume, Authorize, UseTool, Record, Settle, Finish,
                PauseBudget, PauseApproval, Pause, End, Throw
  <1>8. ASSUME NEW c \in Clerks, Serve(c) PROVE UNCHANGED request
    BY <1>8 DEF Serve, Dispatch, Claim, Reclaim, Activate, Enqueue
  <1>9. ASSUME Outside
        PROVE  \/ \E m \in Keys : Decide(m) \/ Overdue(m) \/ ExpireSweep(m)
               \/ UNCHANGED request
    BY <1>9 DEF Outside, SetPolicy, LeadTaken, TimeUp, LeaseExpires, Crash, Stall
  <1>10. UNCHANGED vars => UNCHANGED request
    BY DEF vars
  <1> QED
    BY <1>2, <1>3, <1>4, <1>5, <1>6, <1>7, <1>8, <1>9, <1>10 DEF Next

\* Effects are counted by the tools that had them, and the modes that were seen
\* are never forgotten.
LEMMA DoneMovesOn ==
  ASSUME FullType, [Next]_vars
  PROVE  /\ seen \subseteq seen'
         /\ \/ done' = done
            \/ \E w \in Workers : /\ UseTool(w) /\ Permitted(w) /\ Key(w) \in Keys
                                  /\ done' = [done EXCEPT ![Key(w)] = @ + 1]
  <1>1. seen \subseteq seen'
    <2>1. ASSUME NEW w \in Workers, Work(w) PROVE seen' = seen
      BY <2>1 DEF Work, Take, Check, Request, Resume, Authorize, UseTool, Record, Settle,
                  Finish, PauseBudget, PauseApproval, Pause, End, Throw, WorkerOnly
    <2>2. ASSUME NEW c \in Clerks, Serve(c) PROVE seen' = seen
      BY <2>2 DEF Serve, Dispatch, Claim, Reclaim, Activate, Enqueue, worldVars
    <2>3. ASSUME Outside PROVE seen \subseteq seen'
      BY <2>3 DEF Outside, Decide, Overdue, ExpireSweep, SetPolicy, LeadTaken, TimeUp,
                  LeaseExpires, Crash, Stall
    <2> QED
      BY <2>1, <2>2, <2>3 DEF Next, vars, worldVars
  <1>2. ASSUME NEW w \in Workers, Work(w)
        PROVE  \/ done' = done
               \/ /\ UseTool(w) /\ Permitted(w) /\ Key(w) \in Keys
                  /\ done' = [done EXCEPT ![Key(w)] = @ + 1]
    <2>1. CASE UseTool(w)
      <3>1. pc[w] \in InStep
        BY <2>1 DEF UseTool, InStep
      <3>2. Key(w) \in Keys
        BY <3>1, StepHasKey
      <3>3. done' = done \/ (Permitted(w) /\ done' = [done EXCEPT ![Key(w)] = @ + 1])
        BY <2>1 DEF UseTool
      <3> QED
        BY <2>1, <3>2, <3>3
    <2>2. CASE UNCHANGED done
      BY <2>2
    <2> QED
      BY <1>2, <2>1, <2>2
         DEF Work, Take, Check, Request, Resume, Authorize, Record, Settle, Finish,
             PauseBudget, PauseApproval, Pause, End, Throw
  <1>3. ASSUME NEW c \in Clerks, Serve(c) PROVE done' = done
    BY <1>3 DEF Serve, Dispatch, Claim, Reclaim, Activate, Enqueue
  <1>4. ASSUME Outside PROVE done' = done
    BY <1>4 DEF Outside, Decide, Overdue, ExpireSweep, SetPolicy, LeadTaken, TimeUp,
                LeaseExpires, Crash, Stall, OutsideOnly
  <1> QED
    BY <1>1, <1>2, <1>3, <1>4 DEF Next, vars

\* The effect of an action stands behind the approval of that very action, unless it is
\* research or the policy let drafts run free (authorization.ts, runtime.ts).
THEOREM ApprovedRuns == Spec => []NothingRunsUnapproved
  <1>1. Init => NothingRunsUnapproved
    BY DEF Init, NothingRunsUnapproved
  <1>2. ASSUME FullType, JobHeld, NothingRunsUnapproved, [Next]_vars
        PROVE  NothingRunsUnapproved'
    <2>1. \A k \in Keys : request[k].status = "approved" => request'[k].status = "approved"
      BY <1>2, RequestsMoveOn
    <2>2. seen \subseteq seen'
      BY <1>2, DoneMovesOn
    <2>3. CASE done' = done
      BY <1>2, <2>1, <2>2, <2>3 DEF NothingRunsUnapproved
    <2>4. ASSUME NEW w \in Workers, UseTool(w), Permitted(w), Key(w) \in Keys,
                 done' = [done EXCEPT ![Key(w)] = @ + 1]
          PROVE  NothingRunsUnapproved'
      <3>1. pc[w] \in InStep
        BY <2>4 DEF UseTool, InStep
      <3>2. Key(w)[3] = Tool(w) /\ Tool(w) \in Tools
        BY <1>2, <3>1, StepHasKey
      <3>3. policy \in seen
        BY <1>2 DEF FullType, WorldType
      <3>4. Mode(Tool(w)) = Allow => Tool(w) = "research" \/ (Tool(w) = "draft" /\ Allow \in seen)
        BY <3>2, <3>3 DEF Mode, Allow, Tools
      <3>5. request' = request
        BY <2>4 DEF UseTool
      <3>6. \/ Key(w)[3] = "research" \/ (Key(w)[3] = "draft" /\ Allow \in seen')
            \/ request'[Key(w)].status = "approved"
        BY <2>2, <2>4, <3>2, <3>4, <3>5 DEF Permitted, Cleared
      <3>7. \A k \in Keys : k # Key(w) => done'[k] = done[k]
        BY <1>2, <2>4 DEF FullType, LedgerType
      <3> QED
        BY <1>2, <2>1, <2>2, <3>6, <3>7 DEF NothingRunsUnapproved
    <2> QED
      BY <1>2, <2>3, <2>4, DoneMovesOn
  <1>3. Init => FullType /\ JobHeld
    BY InitType
  <1>4. FullType /\ JobHeld /\ NothingRunsUnapproved /\ [Next]_vars
          => (FullType /\ JobHeld /\ NothingRunsUnapproved)'
    BY <1>2, StepKeepsType
  <1> QED
    BY <1>1, <1>3, <1>4, PTL DEF Spec

(***************************************************************************)
(* What is spent and what is done, against the failures                    *)
(***************************************************************************)

\* Counting executions.
LEMMA WorkersCount ==
  ASSUME NEW A \in SUBSET Workers, NEW B \in SUBSET Workers, NEW w \in Workers
  PROVE  /\ Cardinality(A) \in Nat
         /\ A \subseteq B => Cardinality(A) <= Cardinality(B)
         /\ A \subseteq B \cup {w} => Cardinality(A) <= Cardinality(B) + 1
         /\ A \subseteq B \ {w} /\ w \in B => Cardinality(A) + 1 <= Cardinality(B)
  <1>1. IsFiniteSet(A) /\ IsFiniteSet(B)
    BY ProcAssumption, FS_Subset
  <1>2. Cardinality(A) \in Nat /\ Cardinality(B) \in Nat
    BY <1>1, FS_CardinalityType
  <1>3. A \subseteq B => Cardinality(A) <= Cardinality(B)
    BY <1>1, FS_Subset
  <1>4. ASSUME A \subseteq B \cup {w} PROVE Cardinality(A) <= Cardinality(B) + 1
    <2>1. IsFiniteSet(B \cup {w})
      BY <1>1, FS_AddElement
    <2>2. Cardinality(B \cup {w}) = IF w \in B THEN Cardinality(B) ELSE Cardinality(B) + 1
      BY <1>1, FS_AddElement
    <2>3. Cardinality(A) <= Cardinality(B \cup {w})
      BY <1>4, <2>1, FS_Subset
    <2>4. CASE w \in B
      BY <1>2, <2>2, <2>3, <2>4
    <2>5. CASE w \notin B
      BY <1>2, <2>2, <2>3, <2>5
    <2> QED
      BY <2>4, <2>5
  <1>5. ASSUME A \subseteq B \ {w}, w \in B PROVE Cardinality(A) + 1 <= Cardinality(B)
    <2>1. IsFiniteSet(B \ {w}) /\ Cardinality(B \ {w}) \in Nat
      BY <1>1, FS_Subset, FS_CardinalityType
    <2>2. Cardinality(B \ {w}) = Cardinality(B) - 1
      BY <1>1, <1>5, FS_RemoveElement
    <2>3. Cardinality(A) <= Cardinality(B \ {w})
      BY <1>5, <2>1, FS_Subset
    <2> QED
      BY <1>2, <2>1, <2>2, <2>3
  <1> QED
    BY <1>2, <1>3, <1>4, <1>5

\* What one worker does, or what befalls it, leaves the other workers and their
\* jobs alone.
LEMMA OthersKept ==
  ASSUME FullType, JobHeld, NEW w \in Workers, Work(w) \/ Crash(w) \/ Stall(w),
         NEW v \in Workers \ {w}
  PROVE  /\ at'[v] = at[v] /\ pc'[v] = pc[v] /\ run'[v] = run[v]
         /\ \A o \in Orders : job'[o].owner = v <=> job[o].owner = v
  <1>1. w \in Procs /\ v \in Procs \ {w} /\ ProcType /\ LeaseType /\ job \in [Orders -> Jobs]
        /\ v # NoOrder
    BY OrderAssumption DEF FullType, LeaseType, Procs
  <1>2. CASE Work(w)
    <2>1. at'[v] = at[v] /\ pc'[v] = pc[v] /\ run'[v] = run[v]
      BY <1>1, <1>2, WorkMoves, MovesPoint
    <2>2. CASE \E o \in Orders : Take(w, o)
      BY <1>1, <2>1, <2>2, TakesJob
    <2>3. CASE End(w) \/ Throw(w)
      BY <1>1, <2>1, <2>3, LetsGo DEF NotHeld
    <2>4. CASE UNCHANGED <<at, job>>
      BY <2>1, <2>4
    <2> QED
      BY <1>2, <2>2, <2>3, <2>4, WorkSplit
  <1>3. CASE Crash(w)
    <2>1. Moves(w, "idle", NoOrder, NoRun) /\ job' = Requeued(w)
      BY <1>1, <1>3, LeaveMoves DEF Crash
    <2> QED
      BY <1>1, <2>1, MovesPoint, RequeuedJobs
  <1>4. CASE Stall(w)
    <2>1. job' = Requeued(w) /\ UNCHANGED procVars
      BY <1>4 DEF Stall
    <2> QED
      BY <1>1, <2>1, RequeuedJobs DEF procVars
  <1> QED
    BY <1>2, <1>3, <1>4

\* No other step touches a worker, and none but a worker's own makes it an owner.
LEMMA WorkersKept ==
  ASSUME FullType, JobHeld,
         \/ UNCHANGED vars
         \/ \E c \in Clerks : Serve(c)
         \/ Outside /\ ~(\E w \in Workers : Crash(w) \/ Stall(w))
  PROVE  /\ \A v \in Workers : at'[v] = at[v] /\ pc'[v] = pc[v] /\ run'[v] = run[v]
         /\ \A o \in Orders : job'[o].owner = job[o].owner
  <1>1. /\ ProcType /\ LeaseType /\ job \in [Orders -> Jobs]
        /\ \A v \in Workers : v \in Procs /\ v # NoOrder /\ v \notin Clerks
    BY OrderAssumption, ProcAssumption DEF FullType, LeaseType, Procs
  <1>2. CASE UNCHANGED vars
    BY <1>2 DEF vars, procVars
  <1>3. CASE \E c \in Clerks : Serve(c)
    <2>1. PICK c \in Clerks : Serve(c)
      BY <1>3
    <2>2. \A v \in Workers : at'[v] = at[v] /\ pc'[v] = pc[v] /\ run'[v] = run[v]
      BY <1>1, <2>1, ServeMoves, MovesPoint
    <2>3. CASE Enqueue(c)
      <3> DEFINE j == [NoJob EXCEPT !.state = "waiting", !.token = run[c].token]
      <3>1. j.owner = NoOrder
        BY DEF NoJob
      <3>2. job' = job \/ (job[at[c]].state = "none" /\ job' = [job EXCEPT ![at[c]] = j])
        BY <2>3 DEF Enqueue
      <3> HIDE DEF j
      <3>3. \A o \in Orders : job[o].state = "none" => job[o].owner = NoOrder
        BY DEF JobHeld
      <3> QED
        BY <1>1, <2>2, <3>1, <3>2, <3>3
    <2>4. CASE UNCHANGED job
      BY <2>2, <2>4
    <2> QED
      BY <2>1, <2>3, <2>4 DEF Serve, Dispatch, Claim, Reclaim, Activate
  <1>4. CASE Outside /\ ~(\E w \in Workers : Crash(w) \/ Stall(w))
    <2>1. CASE \E p \in Procs : Crash(p)
      <3>1. PICK p \in Procs : Crash(p) /\ p \notin Workers
        BY <1>4, <2>1
      <3>2. Moves(p, "idle", NoOrder, NoRun) /\ job' = job
        BY <3>1, LeaveMoves DEF Crash
      <3> QED
        BY <1>1, <3>1, <3>2, MovesPoint
    <2>2. CASE UNCHANGED <<procVars, job>>
      BY <2>2 DEF procVars
    <2> QED
      BY <1>4, <2>1, <2>2 DEF Outside, Decide, Overdue, ExpireSweep, SetPolicy, LeadTaken,
                              TimeUp, LeaseExpires
  <1> QED
    BY <1>2, <1>3, <1>4

\* The counts of an order, and what is known of them before a step.
LEMMA Counts ==
  ASSUME FullType, NEW o \in Orders
  PROVE  /\ Lost(o) \in SUBSET Workers /\ Spending(o) \in SUBSET Workers
         /\ Settling(o) \in SUBSET Workers
         /\ Cardinality(Lost(o)) \in Nat /\ Cardinality(Spending(o)) \in Nat
         /\ Cardinality(Settling(o)) \in Nat
         /\ spent[o] \in Nat /\ used[o] \in Nat /\ faults \in Nat /\ Budget \in Nat
  <1>1. /\ Lost(o) \in SUBSET Workers /\ Spending(o) \in SUBSET Workers
        /\ Settling(o) \in SUBSET Workers
    BY DEF Lost, Spending, Settling
  <1>2. /\ Cardinality(Lost(o)) \in Nat /\ Cardinality(Spending(o)) \in Nat
        /\ Cardinality(Settling(o)) \in Nat
    BY <1>1, ProcAssumption, FS_Subset, FS_CardinalityType
  <1>3. spent[o] \in Nat /\ used[o] \in Nat /\ faults \in Nat /\ Budget \in Nat
    BY BoundAssumption DEF FullType, RowType, WorldType
  <1> QED
    BY <1>1, <1>2, <1>3

\* Only a stall makes an execution lose a job it goes on with; only the check of the
\* budget lets one in that may spend; only the settling of the counter, or a crash,
\* takes one away that has to settle.
LEMMA WhoMoves ==
  ASSUME FullType, JobHeld, NEW w \in Workers, Work(w) \/ Crash(w) \/ Stall(w),
         NEW o \in Orders
  PROVE  /\ Lost(o)' \subseteq Lost(o) \/ (Stall(w) /\ Lost(o)' \subseteq Lost(o) \cup {w})
         /\ \/ Spending(o)' \subseteq Spending(o)
            \/ /\ Check(w) /\ at[w] = o /\ ~Exhausted(o)
               /\ Spending(o)' \subseteq Spending(o) \cup {w}
         /\ \/ Settling(o) \subseteq Settling(o)'
            \/ (Crash(w) \/ (Settle(w) /\ at[w] = o)) /\ Settling(o) \subseteq Settling(o)' \cup {w}
  <1>1. w \in Procs /\ ProcType /\ LeaseType /\ w # NoOrder /\ o # NoOrder
    BY OrderAssumption DEF FullType, Procs
  <1>2. \A v \in Workers \ {w} : /\ at'[v] = at[v] /\ pc'[v] = pc[v]
                                 /\ job'[o].owner = v <=> job[o].owner = v
    BY OthersKept
  <1>3. w \in Lost(o)' => w \in Lost(o) \/ Stall(w)
    <2>1. CASE \E q \in Orders : Take(w, q)
      <3>1. PICK q \in Orders : Take(w, q)
        BY <2>1
      <3>2. at'[w] = q
        BY <1>1, <3>1, TakeMoves, MovesPoint
      <3>3. job'[q].owner = w
        BY <1>1, <3>1, TakesJob DEF LeaseType
      <3> QED
        BY <3>2, <3>3 DEF Lost
    <2>2. CASE End(w) \/ Throw(w) \/ Crash(w)
      <3>1. at'[w] = NoOrder
        BY <1>1, <2>2, EndMoves, LeaveMoves, MovesPoint DEF Crash
      <3> QED
        BY <1>1, <3>1 DEF Lost
    <2>3. CASE UNCHANGED <<at, job>>
      BY <2>3 DEF Lost
    <2> QED
      BY <2>1, <2>2, <2>3, WorkSplit
  <1>4. w \in Spending(o)' => w \in Spending(o) \/ (Check(w) /\ at[w] = o /\ ~Exhausted(o))
    <2>1. CASE \E q \in Orders : Take(w, q)
      BY <1>1, <2>1, TakeMoves, MovesPoint DEF Spending
    <2>2. CASE Check(w)
      BY <1>1, <2>2, CheckMoves, MovesPoint DEF Spending
    <2>3. CASE Request(w)
      <3>1. pc[w] = "request"
        BY <2>3 DEF Request
      <3>2. at'[w] = at[w]
        BY <1>1, <2>3, RequestMoves, MovesPoint
      <3> QED
        BY <3>1, <3>2 DEF Spending
    <2>4. CASE Resume(w)
      BY <1>1, <2>4, ResumeMoves, MovesPoint DEF Spending, Resume
    <2>5. CASE Authorize(w)
      <3>1. pc[w] = "authorize"
        BY <2>5 DEF Authorize
      <3>2. at'[w] = at[w]
        BY <1>1, <2>5, AuthorizeMoves, MovesPoint
      <3> QED
        BY <3>1, <3>2 DEF Spending
    <2>6. CASE UseTool(w)
      BY <1>1, <2>6, UseToolMoves, MovesPoint DEF Spending
    <2>7. CASE Record(w)
      BY <1>1, <2>7, RecordMoves, MovesPoint DEF Spending
    <2>8. CASE Settle(w)
      BY <1>1, <2>8, SettleMoves, MovesPoint DEF Spending
    <2>9. CASE Finish(w)
      BY <1>1, <2>9, FinishMoves, MovesPoint DEF Spending
    <2>10. CASE PauseBudget(w) \/ PauseApproval(w)
      BY <1>1, <2>10, PauseMoves, MovesPoint DEF Spending
    <2>11. CASE End(w) \/ Throw(w) \/ Crash(w)
      BY <1>1, <2>11, EndMoves, LeaveMoves, MovesPoint DEF Spending, Crash
    <2>12. CASE Stall(w)
      BY <2>12 DEF Spending, Stall, procVars
    <2> QED
      BY <2>1, <2>2, <2>3, <2>4, <2>5, <2>6, <2>7, <2>8, <2>9, <2>10, <2>11, <2>12, WorkSplit
  <1>5. w \in Settling(o) => w \in Settling(o)' \/ Crash(w) \/ (Settle(w) /\ at[w] = o)
    <2>1. CASE \E q \in Orders : Take(w, q)
      BY <2>1 DEF Settling, Take
    <2>2. CASE \/ Check(w) \/ Request(w) \/ Resume(w) \/ Authorize(w) \/ UseTool(w)
               \/ Finish(w) \/ PauseBudget(w) \/ PauseApproval(w) \/ End(w) \/ Throw(w)
      BY <2>2 DEF Settling, Check, Request, Resume, Authorize, UseTool, Finish, PauseBudget,
                  PauseApproval, End, Throw
    <2>3. CASE Record(w)
      BY <1>1, <2>3, RecordMoves, MovesPoint DEF Settling
    <2>4. CASE Settle(w)
      BY <2>4 DEF Settling
    <2>5. CASE Stall(w)
      BY <2>5 DEF Settling, Stall, procVars
    <2> QED
      BY <2>1, <2>2, <2>3, <2>4, <2>5, WorkSplit
  <1>6. Lost(o)' \ {w} = Lost(o) \ {w}
    BY <1>2 DEF Lost
  <1>7. Spending(o)' \ {w} = Spending(o) \ {w}
    BY <1>2 DEF Spending
  <1>8. Settling(o)' \ {w} = Settling(o) \ {w}
    BY <1>2 DEF Settling
  <1>9. Lost(o)' \subseteq Lost(o) \/ (Stall(w) /\ Lost(o)' \subseteq Lost(o) \cup {w})
    BY <1>3, <1>6
  <1>10. \/ Spending(o)' \subseteq Spending(o)
         \/ /\ Check(w) /\ at[w] = o /\ ~Exhausted(o)
            /\ Spending(o)' \subseteq Spending(o) \cup {w}
    BY <1>4, <1>7
  <1>11. \/ Settling(o) \subseteq Settling(o)'
         \/ (Crash(w) \/ (Settle(w) /\ at[w] = o)) /\ Settling(o) \subseteq Settling(o)' \cup {w}
    BY <1>5, <1>8
  <1> QED
    BY <1>9, <1>10, <1>11

\* Executions at an order that may spend or have to settle lost its job, but for
\* the one that holds it.
LEMMA SpendersLost ==
  ASSUME FullType, JobHeld, NEW w \in Workers, pc[w] = "check", at[w] \in Orders
  PROVE  LET o == at[w] IN
         Cardinality(Spending(o)) + Cardinality(Settling(o)) <= Cardinality(Lost(o))
  <1> DEFINE o == at[w]
  <1>1. o \in Orders /\ w # NoOrder /\ w \notin Spending(o) /\ w \notin Settling(o)
    BY OrderAssumption DEF Spending, Settling
  <1>2. /\ IsFiniteSet(Spending(o)) /\ IsFiniteSet(Settling(o)) /\ IsFiniteSet(Lost(o))
    BY ProcAssumption, FS_Subset DEF Spending, Settling, Lost
  <1>3. Spending(o) \cap Settling(o) = {}
    BY DEF Spending, Settling
  <1> DEFINE U == Spending(o) \cup Settling(o)
  <1>4. Cardinality(U) = Cardinality(Spending(o)) + Cardinality(Settling(o))
                           - Cardinality(Spending(o) \cap Settling(o))
    <2> HIDE DEF o
    <2>1. \A S, T : IsFiniteSet(S) /\ IsFiniteSet(T) =>
            Cardinality(S \cup T) = Cardinality(S) + Cardinality(T) - Cardinality(S \cap T)
      BY FS_Union
    <2> QED
      BY <1>2, <2>1
  <1>5. Cardinality({}) = 0
    BY FS_EmptySet
  <1>6. /\ Cardinality(Spending(o)) \in Nat /\ Cardinality(Settling(o)) \in Nat
        /\ Cardinality(Lost(o)) \in Nat
    BY <1>1, Counts
  <1>7. Cardinality(U) = Cardinality(Spending(o)) + Cardinality(Settling(o))
    <2>1. Cardinality(Spending(o) \cap Settling(o)) = 0
      BY <1>3, <1>5
    <2> HIDE DEF U
    <2> QED
      BY <1>4, <1>6, <2>1
  <1>8. U \in SUBSET Workers /\ Lost(o) \in SUBSET Workers
    BY DEF Spending, Settling, Lost
  <1>9. CASE job[o].owner = w
    <2>1. U \subseteq Lost(o)
      BY <1>1, <1>9 DEF Spending, Settling, Lost
    <2>2. Cardinality(U) <= Cardinality(Lost(o))
      BY <1>8, <2>1, WorkersCount
    <2> QED
      BY <1>7, <2>2
  <1>10. CASE job[o].owner # w
    <2>1. w \in Lost(o)
      BY <1>10 DEF Lost
    <2>2. CASE job[o].owner \in Workers
      <3> DEFINE v == job[o].owner
      <3>1. U \ {v} \subseteq Lost(o) \ {w}
        BY <1>1 DEF Spending, Settling, Lost
      <3>2. U \subseteq (U \ {v}) \cup {v} /\ U \ {v} \in SUBSET Workers
        BY <1>8
      <3>3. Cardinality(U) <= Cardinality(U \ {v}) + 1
        BY <1>8, <2>2, <3>2, WorkersCount
      <3>4. Cardinality(U \ {v}) + 1 <= Cardinality(Lost(o))
        BY <1>8, <2>1, <3>1, <3>2, WorkersCount
      <3>5. Cardinality(U \ {v}) \in Nat /\ Cardinality(U) \in Nat
        BY <1>8, <3>2, WorkersCount
      <3> QED
        BY <1>6, <1>7, <3>3, <3>4, <3>5
    <2>3. CASE job[o].owner \notin Workers
      <3>1. U \subseteq Lost(o)
        BY <2>3 DEF Spending, Settling, Lost
      <3>2. Cardinality(U) <= Cardinality(Lost(o))
        BY <1>8, <3>1, WorkersCount
      <3> QED
        BY <1>7, <3>2
    <2> QED
      BY <2>2, <2>3
  <1> QED
    BY <1>9, <1>10

\* The counters of an order move only with the tool that was paid for, and with the
\* settling of the row.
LEMMA WhoSpends ==
  ASSUME FullType, NEW w \in Workers, Work(w) \/ Crash(w) \/ Stall(w), NEW o \in Orders
  PROVE  /\ \/ spent'[o] = spent[o]
            \/ UseTool(w) /\ at[w] = o /\ spent'[o] = spent[o] + 1
         /\ \/ used'[o] = used[o]
            \/ Settle(w) /\ at[w] = o /\ used'[o] = spent[o] /\ spent'[o] = spent[o]
         /\ Settle(w) /\ at[w] = o => used'[o] = spent[o] /\ spent'[o] = spent[o]
  <1>1. spent \in [Orders -> Nat] /\ used \in [Orders -> Nat]
    BY DEF FullType, RowType
  <1>2. CASE UseTool(w)
    <2>1. used' = used /\ (spent' = spent \/ spent' = [spent EXCEPT ![at[w]] = @ + 1])
      BY <1>2 DEF UseTool
    <2>2. pc[w] = "tool"
      BY <1>2 DEF UseTool
    <2> QED
      BY <1>1, <1>2, <2>1, <2>2 DEF Settle
  <1>3. CASE Settle(w)
    <2>1. used' = [used EXCEPT ![at[w]] = spent[at[w]]] /\ spent' = spent
      BY <1>3 DEF Settle
    <2> QED
      BY <1>1, <1>3, <2>1
  <1>4. ASSUME UNCHANGED <<spent, used>>, ~Settle(w)
        PROVE  spent'[o] = spent[o] /\ used'[o] = used[o]
    BY <1>4
  <1>5. ~UseTool(w) /\ ~Settle(w) => UNCHANGED <<spent, used>>
    BY DEF Work, Take, Check, Request, Resume, Authorize, Record, Finish, PauseBudget,
           PauseApproval, Pause, End, Throw, Crash, Stall, OutsideOnly, spendVars
  <1> QED
    BY <1>2, <1>3, <1>4, <1>5

\* A failure is counted, and nothing else is.
LEMMA FaultsCount ==
  ASSUME FullType, [Next]_vars
  PROVE  /\ faults \in Nat /\ faults' \in {faults, faults + 1}
         /\ \A p \in Procs : Crash(p) => faults' = faults + 1
         /\ \A w \in Workers : Stall(w) => faults' = faults + 1
  <1>1. faults \in Nat
    BY BoundAssumption DEF FullType, WorldType
  <1>2. ASSUME NEW w \in Workers, Work(w) PROVE faults' = faults
    BY <1>2 DEF Work, Take, Check, Request, Resume, Authorize, UseTool, Record, Settle, Finish,
                PauseBudget, PauseApproval, Pause, End, Throw, WorkerOnly, bounds
  <1>3. ASSUME NEW c \in Clerks, Serve(c) PROVE faults' = faults
    BY <1>3 DEF Serve, Dispatch, Claim, Reclaim, Activate, Enqueue, Event, bounds
  <1>4. (\A p \in Procs : Crash(p) => faults' = faults + 1)
        /\ \A w \in Workers : Stall(w) => faults' = faults + 1
    BY DEF Crash, Stall, Fault
  <1>5. UNCHANGED vars => faults' = faults
    BY DEF vars, bounds
  <1> QED
    BY <1>1, <1>2, <1>3, <1>4, <1>5, OutsideCounts DEF Next

SpendInv == CounterLags /\ SpendCovered

\* Every step keeps what was spent covered by the budget and the faults.
LEMMA SpendStep ==
  ASSUME FullType, JobHeld, SpendInv, [Next]_vars, FullType'
  PROVE  SpendInv'
  <1> SUFFICES ASSUME NEW o \in Orders
               PROVE  /\ Cardinality(Lost(o)') <= faults'
                      /\ spent'[o] - used'[o] - Cardinality(Settling(o)')
                           + Cardinality(Lost(o)') <= faults'
                      /\ spent'[o] + Cardinality(Spending(o)') <= Budget + faults'
    BY DEF SpendInv, CounterLags, SpendCovered
  <1> DEFINE L == Cardinality(Lost(o))
             S == Cardinality(Spending(o))
             T == Cardinality(Settling(o))
             L1 == Cardinality(Lost(o)')
             S1 == Cardinality(Spending(o)')
             T1 == Cardinality(Settling(o)')
  <1>1. L \in Nat /\ S \in Nat /\ T \in Nat
    BY Counts
  <1>2. /\ Lost(o)' \in SUBSET Workers /\ Spending(o)' \in SUBSET Workers
        /\ Settling(o)' \in SUBSET Workers
        /\ Lost(o) \in SUBSET Workers /\ Spending(o) \in SUBSET Workers
        /\ Settling(o) \in SUBSET Workers
    BY DEF Lost, Spending, Settling
  <1>3. L1 \in Nat /\ S1 \in Nat /\ T1 \in Nat
    BY <1>2, ProcAssumption, FS_Subset, FS_CardinalityType
  <1>4. /\ spent[o] \in Nat /\ used[o] \in Nat /\ faults \in Nat /\ Budget \in Nat
        /\ spent'[o] \in Nat /\ used'[o] \in Nat
    BY Counts DEF FullType, RowType
  <1>5. L <= faults /\ spent[o] - used[o] - T + L <= faults /\ spent[o] + S <= Budget + faults
    BY DEF SpendInv, CounterLags, SpendCovered
  <1>6. faults' \in {faults, faults + 1}
    BY FaultsCount
  <1>7. ASSUME \/ UNCHANGED vars
               \/ \E c \in Clerks : Serve(c)
               \/ Outside /\ ~(\E w \in Workers : Crash(w) \/ Stall(w))
        PROVE  L1 <= faults' /\ spent'[o] - used'[o] - T1 + L1 <= faults'
               /\ spent'[o] + S1 <= Budget + faults'
    <2>1. \A v \in Workers : at'[v] = at[v] /\ pc'[v] = pc[v] /\ job'[o].owner = job[o].owner
      BY <1>7, WorkersKept
    <2>2. Lost(o)' = Lost(o) /\ Spending(o)' = Spending(o) /\ Settling(o)' = Settling(o)
      BY <2>1 DEF Lost, Spending, Settling
    <2>3. UNCHANGED <<spent, used>>
      BY <1>7 DEF vars, spendVars, Serve, Dispatch, Claim, Reclaim, Activate, Enqueue, Outside,
                  Decide, Overdue, ExpireSweep, SetPolicy, LeadTaken, TimeUp, LeaseExpires,
                  Crash, Stall, OutsideOnly
    <2>4. L1 = L /\ S1 = S /\ T1 = T /\ spent'[o] = spent[o] /\ used'[o] = used[o]
      BY <2>2, <2>3
    <2> HIDE DEF L, S, T, L1, S1, T1
    <2> QED
      BY <1>1, <1>4, <1>5, <1>6, <2>4
  <1>8. ASSUME NEW w \in Workers, Work(w) \/ Crash(w) \/ Stall(w)
        PROVE  L1 <= faults' /\ spent'[o] - used'[o] - T1 + L1 <= faults'
               /\ spent'[o] + S1 <= Budget + faults'
    <2>0. w \in Procs /\ ProcType
      BY DEF Procs, FullType
    <2>1. L1 <= L \/ (L1 <= L + 1 /\ faults' = faults + 1)
      <3>1. L1 <= L \/ (Stall(w) /\ L1 <= L + 1)
        BY <1>2, <1>8, WhoMoves, WorkersCount
      <3> QED
        BY <3>1, FaultsCount
    <2>2. CASE Check(w) /\ at[w] = o /\ ~Exhausted(o)
      <3>1. S1 <= S + 1 /\ T <= T1
        <4>1. Spending(o)' \subseteq Spending(o) \cup {w}
          BY <1>8, <2>2, WhoMoves
        <4>2. Settling(o) \subseteq Settling(o)'
          <5>1. pc[w] = "check"
            BY <2>2 DEF Check
          <5>2. \A v \in Workers \ {w} : at'[v] = at[v] /\ pc'[v] = pc[v]
            BY <1>8, OthersKept
          <5> QED
            BY <5>1, <5>2 DEF Settling
        <4> QED
          BY <1>2, <4>1, <4>2, WorkersCount
      <3>2. S + T <= L
        <4>1. pc[w] = "check" /\ at[w] \in Orders
          BY <2>2 DEF Check
        <4> QED
          BY <2>2, <4>1, SpendersLost
      <3>3. used[o] < Budget
        BY <1>4, <2>2 DEF Exhausted
      <3>4. spent'[o] = spent[o] /\ used'[o] = used[o]
        BY <2>2 DEF Check, spendVars
      <3> HIDE DEF L, S, T, L1, S1, T1
      <3> QED
        BY <1>1, <1>3, <1>4, <1>5, <1>6, <2>1, <3>1, <3>2, <3>3, <3>4
    <2>3. CASE UseTool(w) /\ at[w] = o
      <3>1. pc[w] = "tool" /\ pc'[w] = "record" /\ at'[w] = o
        <4>1. pc[w] = "tool"
          BY <2>3 DEF UseTool
        <4> QED
          BY <2>0, <2>3, <4>1, UseToolMoves, MovesPoint
      <3>2. \A v \in Workers \ {w} : at'[v] = at[v] /\ pc'[v] = pc[v]
        BY <1>8, OthersKept
      <3>3. Spending(o)' \subseteq Spending(o) \ {w} /\ w \in Spending(o)
        BY <2>3, <3>1, <3>2 DEF Spending
      <3>4. Settling(o) \subseteq Settling(o)' \ {w} /\ w \in Settling(o)'
        BY <2>3, <3>1, <3>2 DEF Settling
      <3>5. S1 + 1 <= S /\ T + 1 <= T1
        BY <1>2, <3>3, <3>4, WorkersCount
      <3>6. spent'[o] \in {spent[o], spent[o] + 1} /\ used'[o] = used[o]
        BY <1>8, <2>3, <3>1, WhoSpends DEF Settle
      <3> HIDE DEF L, S, T, L1, S1, T1
      <3> QED
        BY <1>1, <1>3, <1>4, <1>5, <1>6, <2>1, <3>5, <3>6
    <2>4. CASE Settle(w) /\ at[w] = o
      <3>1. S1 <= S
        BY <1>2, <1>8, <2>4, WhoMoves, WorkersCount DEF Check, Settle
      <3>2. used'[o] = spent[o] /\ spent'[o] = spent[o]
        BY <1>8, <2>4, WhoSpends
      <3> HIDE DEF L, S, T, L1, S1, T1
      <3> QED
        BY <1>1, <1>3, <1>4, <1>5, <1>6, <2>1, <3>1, <3>2
    <2>5. CASE /\ ~(Check(w) /\ at[w] = o /\ ~Exhausted(o))
               /\ ~(UseTool(w) /\ at[w] = o) /\ ~(Settle(w) /\ at[w] = o)
      <3>1. S1 <= S
        BY <1>2, <1>8, <2>5, WhoMoves, WorkersCount
      <3>2. spent'[o] = spent[o] /\ used'[o] = used[o]
        BY <1>8, <2>5, WhoSpends
      <3>3. \/ T <= T1
            \/ Crash(w) /\ T <= T1 + 1
        BY <1>2, <1>8, <2>5, WhoMoves, WorkersCount
      <3>4. CASE T <= T1
        <4> HIDE DEF L, S, T, L1, S1, T1
        <4> QED
          BY <1>1, <1>3, <1>4, <1>5, <1>6, <2>1, <3>1, <3>2, <3>4
      <3>5. CASE Crash(w) /\ T <= T1 + 1
        <4>1. faults' = faults + 1
          BY <2>0, <3>5, FaultsCount
        <4>2. L1 <= L
          <5>1. ~Stall(w)
            BY <2>0, <3>5, OrderAssumption DEF Crash, Stall, procVars, Leave, Goto, ProcType
          <5> QED
            BY <1>2, <1>8, <5>1, WhoMoves, WorkersCount
        <4> HIDE DEF L, S, T, L1, S1, T1
        <4> QED
          BY <1>1, <1>3, <1>4, <1>5, <3>1, <3>2, <3>5, <4>1, <4>2
      <3> QED
        BY <3>3, <3>4, <3>5
    <2> QED
      BY <2>2, <2>3, <2>4, <2>5
  <1> QED
    BY <1>7, <1>8 DEF Next

\* An order is over its budget by no more than the failures there were.
THEOREM BudgetHolds == Spec => []OverspendNeedsFault
  <1>1. Init => SpendInv
    <2> SUFFICES ASSUME Init, NEW o \in Orders
                 PROVE  /\ Cardinality(Lost(o)) <= faults
                        /\ spent[o] - used[o] - Cardinality(Settling(o))
                             + Cardinality(Lost(o)) <= faults
                        /\ spent[o] + Cardinality(Spending(o)) <= Budget + faults
      BY DEF SpendInv, CounterLags, SpendCovered
    <2>1. \A w \in Workers : at[w] = NoOrder
      BY DEF Init, Procs
    <2>2. Lost(o) = {} /\ Spending(o) = {} /\ Settling(o) = {}
      BY <2>1, OrderAssumption DEF Lost, Spending, Settling
    <2>3. Cardinality(Lost(o)) = 0 /\ Cardinality(Spending(o)) = 0
          /\ Cardinality(Settling(o)) = 0
      BY <2>2, FS_EmptySet
    <2>4. spent[o] = 0 /\ used[o] = 0 /\ faults = 0 /\ Budget \in Nat
      BY BoundAssumption DEF Init
    <2> QED
      BY <2>3, <2>4
  <1>2. Init => FullType /\ JobHeld
    BY InitType
  <1>3. FullType /\ JobHeld /\ SpendInv /\ [Next]_vars => (FullType /\ JobHeld /\ SpendInv)'
    BY StepKeepsType, SpendStep
  <1>4. FullType /\ SpendInv => OverspendNeedsFault
    <2> SUFFICES ASSUME FullType, SpendInv, NEW o \in Orders
                 PROVE  spent[o] <= Budget + faults
      BY DEF OverspendNeedsFault
    <2>1. spent[o] + Cardinality(Spending(o)) <= Budget + faults
      BY DEF SpendInv, SpendCovered
    <2> QED
      BY <2>1, Counts
  <1> QED
    BY <1>1, <1>2, <1>3, <1>4, PTL DEF Spec

\* An execution that is at a key of its order, and one that may get there.
LEMMA KeyParts ==
  ASSUME NEW k \in Keys
  PROVE  k[1] \in Orders /\ k[2] \in {1, 2} /\ k[3] \in Tools /\ k[1] # NoOrder
  BY OrderAssumption DEF Keys

\* No step of a worker's own brings it closer to an action it has no job for.
LEMMA StraysShrink ==
  ASSUME FullType, JobHeld, NEW w \in Workers, Work(w) \/ Crash(w), NEW k \in Keys
  PROVE  Strays(k)' \subseteq Strays(k)
  <1>1. w \in Procs /\ ProcType /\ LeaseType
    BY DEF FullType, Procs
  <1>2. k[1] \in Orders /\ k[2] \in {1, 2} /\ k[1] # NoOrder
    BY KeyParts
  <1>3. \A v \in Workers \ {w} :
          /\ at'[v] = at[v] /\ pc'[v] = pc[v] /\ run'[v] = run[v]
          /\ job'[k[1]].owner = v <=> job[k[1]].owner = v
    BY <1>2, OthersKept
  <1>4. \A v \in Workers \ {w} : v \in Strays(k)' => v \in Strays(k)
    BY <1>3 DEF Strays, MayRun
  <1> DEFINE Before(i, l, x) ==
               \/ i < k[2] /\ l \in InStep \cup {"check"}
               \/ i = k[2] /\ l \in {"check", "request", "resume", "authorize", "tool"}
               \/ i = k[2] /\ l = "record" /\ x # "ok"
  <1>5. \A v \in Workers :
          /\ MayRun(v, k) <=> at[v] = k[1] /\ Before(run[v].i, pc[v], run[v].result)
          /\ MayRun(v, k)' <=> at'[v] = k[1] /\ Before(run'[v].i, pc'[v], run'[v].result)
    BY DEF MayRun
  <1>6. w \in Strays(k)' => w \in Strays(k)
    <2>1. CASE \E o \in Orders : Take(w, o)
      <3>1. PICK o \in Orders : Take(w, o)
        BY <2>1
      <3>2. at'[w] = o
        BY <1>1, <3>1, TakeMoves, MovesPoint
      <3>3. job'[o].owner = w
        BY <1>1, <3>1, TakesJob DEF LeaseType
      <3> QED
        BY <3>2, <3>3 DEF Strays, MayRun
    <2>2. CASE End(w) \/ Throw(w) \/ Crash(w)
      <3>1. at'[w] = NoOrder
        BY <1>1, <2>2, EndMoves, LeaveMoves, MovesPoint DEF Crash
      <3> QED
        BY <1>2, <3>1 DEF Strays, MayRun
    <2>3. ASSUME /\ UNCHANGED <<at, job>>
                 /\ \/ Check(w) \/ Request(w) \/ Resume(w) \/ Authorize(w) \/ UseTool(w)
                    \/ Record(w) \/ Settle(w) \/ Finish(w) \/ PauseBudget(w)
                    \/ PauseApproval(w)
          PROVE  w \in Strays(k)' => w \in Strays(k)
      <3> SUFFICES Before(run'[w].i, pc'[w], run'[w].result)
                     => Before(run[w].i, pc[w], run[w].result)
        <4> HIDE DEF Before
        <4> QED
          BY <1>5, <2>3 DEF Strays
      <3>1. CASE Check(w)
        <4>1. pc[w] = "check" /\ run'[w].i = run[w].i
              /\ pc'[w] \in {"finish", "end", "pauseBudget", "authorize", "request"}
          BY <1>1, <3>1, CheckMoves, MovesPoint DEF Check
        <4> QED
          BY <4>1 DEF InStep
      <3>2. CASE Request(w)
        <4>1. pc[w] = "request" /\ run'[w].i = run[w].i /\ pc'[w] = "resume"
          BY <1>1, <3>2, RequestMoves, MovesPoint DEF Request
        <4> QED
          BY <4>1 DEF InStep
      <3>3. CASE Resume(w)
        <4>1. pc[w] = "resume" /\ run'[w].i = run[w].i
              /\ pc'[w] \in {"pauseApproval", "authorize", "end"}
          BY <1>1, <3>3, ResumeMoves, MovesPoint DEF Resume
        <4> QED
          BY <4>1 DEF InStep
      <3>4. CASE Authorize(w)
        <4>1. pc[w] = "authorize"
          BY <3>4 DEF Authorize
        <4>2. run'[w].i = run[w].i /\ pc'[w] \in {"tool", "settle"}
          BY <1>1, <3>4, AuthorizeMoves, MovesPoint
        <4> QED
          BY <4>1, <4>2 DEF InStep
      <3>5. CASE UseTool(w)
        <4>1. pc[w] = "tool"
          BY <3>5 DEF UseTool
        <4>2. run'[w].i = run[w].i /\ pc'[w] = "record"
          BY <1>1, <3>5, UseToolMoves, MovesPoint
        <4> QED
          BY <4>1, <4>2 DEF InStep
      <3>6. CASE Record(w)
        <4>1. pc[w] = "record" /\ run'[w].i = run[w].i /\ pc'[w] = "settle"
          BY <1>1, <3>6, RecordMoves, MovesPoint DEF Record
        <4> QED
          BY <4>1 DEF InStep
      <3>7. CASE Settle(w)
        <4>1. pc[w] = "settle"
          BY <3>7 DEF Settle
        <4>2. /\ pc'[w] \in {"check", "throw", "end"}
              /\ pc'[w] = "check" => run'[w].i = run[w].i + 1
          BY <1>1, <3>7, SettleMoves, MovesPoint
        <4>3. run[w].i \in {1, 2}
          BY <4>1, StepHasKey DEF InStep
        <4>4. CASE pc'[w] = "check"
          <5>1. \A i, j \in {1, 2} : i + 1 <= j => i < j
            OBVIOUS
          <5>2. Before(run'[w].i, pc'[w], run'[w].result) => run[w].i + 1 <= k[2]
            BY <1>2, <4>2, <4>3, <4>4 DEF InStep
          <5> QED
            BY <1>2, <4>1, <4>3, <5>1, <5>2 DEF InStep
        <4>5. CASE pc'[w] # "check"
          BY <4>2, <4>5 DEF InStep
        <4> QED
          BY <4>4, <4>5
      <3>8. CASE Finish(w)
        <4>1. pc'[w] \in {"free", "end"}
          BY <1>1, <3>8, FinishMoves, MovesPoint
        <4> QED
          BY <4>1 DEF InStep
      <3>9. CASE PauseBudget(w) \/ PauseApproval(w)
        <4>1. pc'[w] \in {"free", "end", "throw"}
          BY <1>1, <3>9, PauseMoves, MovesPoint
        <4> QED
          BY <4>1 DEF InStep
      <3> QED
        BY <2>3, <3>1, <3>2, <3>3, <3>4, <3>5, <3>6, <3>7, <3>8, <3>9
    <2> QED
      BY <2>1, <2>2, <2>3, WorkSplit
  <1>7. Strays(k)' \subseteq Workers
    BY DEF Strays
  <1> QED
    BY <1>4, <1>6, <1>7

\* An execution comes to an action it may run from the ledger, which has not seen it
\* completed.
LEMMA ComesToIt ==
  ASSUME FullType, NEW w \in Workers, Work(w), NEW k \in Keys, OnKey(w, k)'
  PROVE  \/ UseTool(w) /\ OnKey(w, k)
         \/ Authorize(w) /\ action[k] # "completed"
  <1>1. w \in Procs /\ ProcType
    BY DEF FullType, Procs
  <1>2. pc'[w] \in {"tool", "record"} /\ at'[w] = k[1]
    BY DEF OnKey
  <1>3. CASE Authorize(w)
    <2>1. PICK l \in {"tool", "settle"}, r \in Runs :
                 /\ Moves(w, l, at[w], r)
                 /\ l = "tool" => r = run[w] /\ action[Key(w)] \notin {"completed", "refused"}
      BY <1>3, AuthorizeMoves
    <2>2. at'[w] = at[w] /\ pc'[w] = l /\ run'[w] = r
      BY <1>1, <2>1, MovesPoint
    <2>3. run'[w] = run[w] /\ action[Key(w)] # "completed"
      BY <1>2, <2>1, <2>2
    <2>4. Key(w)' = Key(w)
      BY <2>2, <2>3 DEF Key, Tool
    <2> QED
      BY <1>3, <2>3, <2>4 DEF OnKey
  <1>4. CASE UseTool(w)
    <2>1. /\ pc[w] = "tool"
      BY <1>4 DEF UseTool
    <2>2. /\ at'[w] = at[w] /\ run'[w].plan = run[w].plan /\ run'[w].i = run[w].i
      BY <1>1, <1>4, UseToolMoves, MovesPoint
    <2>3. Key(w)' = Key(w)
      BY <2>2 DEF Key, Tool
    <2> QED
      BY <1>4, <2>1, <2>2, <2>3 DEF OnKey
  <1>5. ~(\E o \in Orders : Take(w, o))
    BY <1>1, <1>2, TakeMoves, MovesPoint
  <1>6. ~Check(w)
    BY <1>1, <1>2, CheckMoves, MovesPoint
  <1>7. ~Request(w) /\ ~Record(w)
    BY <1>1, <1>2, RequestMoves, RecordMoves, MovesPoint
  <1>8. ~Resume(w)
    BY <1>1, <1>2, ResumeMoves, MovesPoint
  <1>9. ~Settle(w)
    BY <1>1, <1>2, SettleMoves, MovesPoint
  <1>10. ~Finish(w) /\ ~PauseBudget(w) /\ ~PauseApproval(w)
    BY <1>1, <1>2, FinishMoves, PauseMoves, MovesPoint
  <1>11. ~End(w) /\ ~Throw(w)
    BY <1>1, <1>2, EndMoves, MovesPoint
  <1> QED
    BY <1>3, <1>4, <1>5, <1>6, <1>7, <1>8, <1>9, <1>10, <1>11 DEF Work

\* A completed action stays completed but for an execution that records a failure
\* over it.
LEMMA CompletedStays ==
  ASSUME FullType, NEW w \in Workers, Work(w), NEW k \in Keys, action[k] = "completed",
         ~(Record(w) /\ Key(w) = k /\ run[w].result # "ok")
  PROVE  action'[k] = "completed"
  <1>1. action \in [Keys -> {"none", "running", "completed", "failed", "refused"}]
    BY DEF FullType, LedgerType
  <1>2. CASE Authorize(w)
    <2>1. \/ action' = action
          \/ action[Key(w)] # "completed" /\ \E x : action' = [action EXCEPT ![Key(w)] = x]
      BY <1>2, AuthorizeMoves
    <2> QED
      BY <1>1, <2>1
  <1>3. CASE Record(w)
    <2>1. action' = [action EXCEPT ![Key(w)] =
                       IF run[w].result = "ok" THEN "completed" ELSE "failed"]
      BY <1>3 DEF Record
    <2> QED
      BY <1>1, <1>3, <2>1
  <1>4. CASE UNCHANGED action
    BY <1>4
  <1> QED
    BY <1>2, <1>3, <1>4 DEF Work, Take, Check, Request, Resume, UseTool, Settle, Finish,
                            PauseBudget, PauseApproval, Pause, End, Throw

\* Who holds an order's job changes hands only with the worker that steps.
LEMMA HolderMoves ==
  ASSUME FullType, JobHeld, NEW w \in Workers, Work(w), NEW k \in Keys
  PROVE  /\ Holder(k) \in Workers \cup {NoOrder} /\ Holder(k)' \in Workers \cup {NoOrder}
         /\ \A v \in Workers \ {w} : Holder(k)' = v <=> Holder(k) = v
         /\ Holder(k) # w /\ Holder(k)' = w => pc'[w] = "check"
         /\ Holder(k) = w /\ Holder(k)' # w => pc[w] \notin {"tool", "record"}
                                               /\ Holder(k)' = NoOrder
  <1>1. k[1] \in Orders
    BY KeyParts
  <1>2. w \in Procs /\ ProcType /\ FullType'
    BY WorkKeepsType DEF FullType, Procs
  <1>3. Holder(k) \in Workers \cup {NoOrder} /\ Holder(k)' \in Workers \cup {NoOrder}
    BY <1>1, <1>2 DEF Holder, FullType, LeaseType, Jobs
  <1>4. \A v \in Workers \ {w} : Holder(k)' = v <=> Holder(k) = v
    BY <1>1, OthersKept DEF Holder
  <1>5. Holder(k) # w /\ Holder(k)' = w => pc'[w] = "check"
    <2>1. CASE \E o \in Orders : Take(w, o)
      BY <1>2, <2>1, TakeMoves, MovesPoint
    <2>2. CASE End(w) \/ Throw(w)
      BY <1>1, <1>2, <2>2, LetsGo, OrderAssumption DEF Holder, NotHeld, FullType, LeaseType
    <2>3. CASE UNCHANGED job
      BY <2>3 DEF Holder
    <2> QED
      BY <2>1, <2>2, <2>3, WorkSplit
  <1>6. Holder(k) = w /\ Holder(k)' # w => pc[w] \notin {"tool", "record"}
    <2>1. CASE (\E o \in Orders : Take(w, o)) \/ End(w) \/ Throw(w)
      BY <2>1 DEF Take, End, Throw
    <2>2. CASE UNCHANGED job
      BY <2>2 DEF Holder
    <2> QED
      BY <2>1, <2>2, WorkSplit
  <1>7. Holder(k) = w /\ Holder(k)' # w => Holder(k)' = NoOrder
    BY <1>3, <1>4
  <1> QED
    BY <1>3, <1>4, <1>5, <1>6, <1>7

\* Only an execution that lost its job takes back the mark of an action.
LEMMA MarkedStays ==
  ASSUME FullType, JobHeld, NEW w \in Workers, Work(w), NEW k \in Keys, Marked(k),
         ~(Record(w) /\ Key(w) = k /\ run[w].result # "ok" /\ Holder(k) # w)
  PROVE  Marked(k)'
  <1>1. w \in Procs /\ ProcType /\ w # NoOrder
    BY OrderAssumption DEF FullType, Procs
  <1>2. /\ Holder(k) \in Workers \cup {NoOrder} /\ Holder(k)' \in Workers \cup {NoOrder}
        /\ \A v \in Workers \ {w} : Holder(k)' = v <=> Holder(k) = v
        /\ Holder(k) # w /\ Holder(k)' = w => pc'[w] = "check"
        /\ Holder(k) = w /\ Holder(k)' # w => pc[w] \notin {"tool", "record"}
                                               /\ Holder(k)' = NoOrder
    BY HolderMoves
  <1>3. CASE Holder(k) = w
    <2>1. CASE OnKey(w, k)
      <3>1. pc[w] = "record" /\ run[w].result = "ok" /\ Key(w) = k /\ Holder(k)' = w
        BY <1>1, <1>2, <1>3, <2>1 DEF Marked, AtIt, OnKey
      <3>2. Record(w)
        BY <3>1 DEF Work, Take, Check, Request, Resume, Authorize, UseTool, Settle,
                    Finish, PauseBudget, PauseApproval, End, Throw
      <3>3. pc'[w] = "settle"
        BY <1>1, <3>2, RecordMoves, MovesPoint
      <3>4. action'[k] = "completed"
        BY <3>1, <3>2 DEF Record, FullType, LedgerType
      <3>5. ~OnKey(w, k)'
        BY <3>3 DEF OnKey
      <3>6. ~AtIt(k)'
        BY <3>1, <3>5 DEF AtIt
      <3> QED
        BY <3>4, <3>6 DEF Marked
    <2>2. CASE ~OnKey(w, k)
      <3>1. action[k] = "completed"
        BY <1>3, <2>2 DEF Marked, AtIt
      <3>2. ~OnKey(w, k)'
        BY <2>2, <3>1, ComesToIt
      <3>3. ~(Record(w) /\ Key(w) = k /\ run[w].result # "ok")
        <4>1. Record(w) => pc[w] = "record"
          BY DEF Record
        <4>2. pc[w] = "record" => Key(w)[1] = at[w]
          BY StepHasKey DEF InStep
        <4> QED
          BY <2>2, <4>1, <4>2 DEF OnKey
      <3>4. action'[k] = "completed"
        BY <3>1, <3>3, CompletedStays
      <3>5. Holder(k)' = w \/ Holder(k)' = NoOrder
        BY <1>2, <1>3
      <3>6. ~AtIt(k)'
        BY <3>2, <3>5 DEF AtIt
      <3> QED
        BY <3>4, <3>6 DEF Marked
    <2> QED
      BY <2>1, <2>2
  <1>4. CASE Holder(k) \in Workers \ {w}
    <2>1. PICK v \in Workers \ {w} : Holder(k) = v
      BY <1>4
    <2>2. Holder(k)' = v /\ v # NoOrder
      BY <1>2, <2>1, OrderAssumption
    <2>3. at'[v] = at[v] /\ pc'[v] = pc[v] /\ run'[v] = run[v]
      BY OthersKept
    <2>4. OnKey(v, k)' <=> OnKey(v, k)
      BY <2>3 DEF OnKey, Key, Tool
    <2>5. /\ AtIt(k) <=> OnKey(v, k)
          /\ AtIt(k)' <=> OnKey(v, k)'
      BY <2>1, <2>2 DEF AtIt
    <2>6. CASE OnKey(v, k)
      BY <2>1, <2>2, <2>3, <2>4, <2>5, <2>6 DEF Marked
    <2>7. CASE ~OnKey(v, k)
      <3>1. action[k] = "completed"
        BY <2>5, <2>7 DEF Marked
      <3>2. action'[k] = "completed"
        BY <2>1, <3>1, CompletedStays
      <3> QED
        BY <2>4, <2>5, <2>7, <3>2 DEF Marked
    <2> QED
      BY <2>6, <2>7
  <1>5. CASE Holder(k) = NoOrder
    <2>1. action[k] = "completed"
      BY <1>5 DEF Marked, AtIt
    <2>2. action'[k] = "completed"
      BY <1>1, <1>5, <2>1, CompletedStays
    <2>3. Holder(k)' = NoOrder \/ (Holder(k)' = w /\ pc'[w] = "check")
      BY <1>1, <1>2, <1>5, OrderAssumption
    <2>4. ~AtIt(k)'
      BY <2>3 DEF AtIt, OnKey
    <2> QED
      BY <2>2, <2>4 DEF Marked
  <1> QED
    BY <1>2, <1>3, <1>4, <1>5

\* Every step keeps repeated actions paid for by faults.
LEMMA RepeatStep ==
  ASSUME FullType, JobHeld, RepeatCovered, [Next]_vars, FullType'
  PROVE  RepeatCovered'
  <1> DEFINE N(b) == IF b THEN 1 ELSE 0
  <1> SUFFICES ASSUME NEW k \in Keys
               PROVE  done'[k] + Cardinality(Strays(k)') <= faults' + N(Marked(k)')
    BY DEF RepeatCovered
  <1> DEFINE S == Cardinality(Strays(k))
             S1 == Cardinality(Strays(k)')
             m == N(Marked(k))
             m1 == N(Marked(k)')
  <1>1. Strays(k) \in SUBSET Workers /\ Strays(k)' \in SUBSET Workers
    BY DEF Strays
  <1>2. S \in Nat /\ S1 \in Nat
    BY <1>1, ProcAssumption, FS_Subset, FS_CardinalityType
  <1>3. done[k] \in Nat /\ done'[k] \in Nat /\ faults \in Nat
    BY BoundAssumption DEF FullType, LedgerType, WorldType
  <1>4. m \in {0, 1} /\ m1 \in {0, 1} /\ (Marked(k) => m = 1) /\ (~Marked(k) => m = 0)
        /\ (Marked(k)' => m1 = 1) /\ (~Marked(k)' => m1 = 0)
    OBVIOUS
  <1>5. done[k] + S <= faults + m
    BY DEF RepeatCovered
  <1>6. faults' \in {faults, faults + 1}
    BY FaultsCount
  <1>7. k[1] \in Orders /\ k[1] # NoOrder
    BY KeyParts
  <1>8. ASSUME \/ UNCHANGED vars
               \/ \E c \in Clerks : Serve(c)
               \/ Outside /\ ~(\E w \in Workers : Crash(w) \/ Stall(w))
        PROVE  done'[k] + S1 <= faults' + m1
    <2>1. /\ \A v \in Workers : at'[v] = at[v] /\ pc'[v] = pc[v] /\ run'[v] = run[v]
          /\ job'[k[1]].owner = job[k[1]].owner
      BY <1>7, <1>8, WorkersKept
    <2>2. Strays(k)' = Strays(k)
      BY <2>1 DEF Strays, MayRun
    <2>3. UNCHANGED <<done, action>>
      BY <1>8 DEF vars, Serve, Dispatch, Claim, Reclaim, Activate, Enqueue, Outside,
                  Decide, Overdue, ExpireSweep, SetPolicy, LeadTaken, TimeUp, LeaseExpires,
                  Crash, Stall, OutsideOnly
    <2>4. Holder(k)' = Holder(k) /\ Holder(k) \in Workers \cup {NoOrder}
      BY <1>7, <2>1 DEF Holder, FullType, LeaseType, Jobs
    <2>5. \A v \in Workers : OnKey(v, k)' <=> OnKey(v, k)
      BY <2>1 DEF OnKey, Key, Tool
    <2>6. AtIt(k)' <=> AtIt(k)
      BY <2>4, <2>5 DEF AtIt
    <2>7. Marked(k)' <=> Marked(k)
      <3>1. CASE AtIt(k)
        BY <2>1, <2>4, <2>6, <3>1 DEF Marked, AtIt
      <3>2. CASE ~AtIt(k)
        BY <2>3, <2>6, <3>2 DEF Marked
      <3> QED
        BY <3>1, <3>2
    <2>8. S1 = S /\ m1 = m /\ done'[k] = done[k]
      BY <2>2, <2>3, <2>7
    <2> HIDE DEF S, S1, m, m1
    <2> QED
      BY <1>2, <1>3, <1>4, <1>5, <1>6, <2>8
  <1>9. ASSUME NEW w \in Workers, Work(w)
        PROVE  done'[k] + S1 <= faults' + m1
    <2>1. S1 <= S
      BY <1>1, <1>9, StraysShrink, WorkersCount
    <2>2. w \in Procs /\ ProcType /\ w # NoOrder
      BY OrderAssumption DEF FullType, Procs
    <2>3. CASE Record(w) /\ Key(w) = k /\ run[w].result # "ok" /\ Holder(k) # w
      <3>1. pc[w] = "record"
        BY <2>3 DEF Record
      <3>2. at[w] = k[1] /\ run[w].i = k[2]
        BY <2>3, <3>1, StepHasKey DEF InStep
      <3>3. w \in Strays(k)
        BY <2>3, <3>1, <3>2 DEF Strays, MayRun, Holder
      <3>4. pc'[w] = "settle" /\ run'[w].i = run[w].i
        BY <2>2, <2>3, RecordMoves, MovesPoint
      <3>5. ~MayRun(w, k)'
        <4>1. k[2] \in {1, 2} /\ ~(k[2] < k[2])
          BY KeyParts
        <4> QED
          BY <3>2, <3>4, <4>1 DEF MayRun
      <3>6. Strays(k)' \subseteq Strays(k) \ {w}
        BY <1>9, <3>5, StraysShrink DEF Strays
      <3>7. S1 + 1 <= S
        BY <1>1, <3>3, <3>6, WorkersCount
      <3>8. done'[k] = done[k]
        BY <2>3 DEF Record
      <3> HIDE DEF S, S1, m, m1
      <3> QED
        BY <1>2, <1>3, <1>4, <1>5, <1>6, <3>7, <3>8
    <2>4. CASE ~(Record(w) /\ Key(w) = k /\ run[w].result # "ok" /\ Holder(k) # w)
      <3>1. Marked(k) => Marked(k)'
        BY <1>9, <2>4, MarkedStays
      <3>2. m <= m1
        BY <3>1
      <3>3. CASE done'[k] = done[k]
        <4> HIDE DEF S, S1, m, m1
        <4> QED
          BY <1>2, <1>3, <1>4, <1>5, <1>6, <2>1, <3>2, <3>3
      <3>4. CASE done'[k] # done[k]
        <4>1. /\ UseTool(w) /\ Key(w) = k /\ done'[k] = done[k] + 1
              /\ pc'[w] = "record" /\ run'[w].result = "ok" /\ at'[w] = at[w]
              /\ run'[w].i = run[w].i /\ run'[w].plan = run[w].plan
          <5>1. UseTool(w)
            BY <1>9, <3>4 DEF Work, Take, Check, Request, Resume, Authorize, Record, Settle,
                   Finish, PauseBudget, PauseApproval, Pause, End, Throw
          <5>2. PICK r \in Runs :
                  /\ Moves(w, "record", at[w], r) /\ r.plan = run[w].plan /\ r.i = run[w].i
                  /\ \/ done' = done
                     \/ done' = IF r.result = "ok" THEN [done EXCEPT ![Key(w)] = @ + 1]
                                ELSE done
            BY <5>1, UseToolMoves
          <5>3. r.result = "ok" /\ done' = [done EXCEPT ![Key(w)] = @ + 1]
            BY <3>4, <5>2
          <5>4. done \in [Keys -> Nat]
            BY DEF FullType, LedgerType
          <5>5. Key(w) = k /\ done'[k] = done[k] + 1
            BY <3>4, <5>3, <5>4
          <5> QED
            BY <2>2, <5>1, <5>2, <5>3, <5>5, MovesPoint
        <4>2. pc[w] = "tool" /\ job' = job
          BY <4>1 DEF UseTool
        <4>3. at[w] = k[1] /\ run[w].i = k[2]
          BY <4>1, <4>2, StepHasKey DEF InStep
        <4>4. CASE Holder(k) = w
          <5>1. AtIt(k) /\ ~Marked(k)
            BY <2>2, <4>1, <4>2, <4>3, <4>4 DEF AtIt, OnKey, Marked
          <5>2. Key(w)' = Key(w) /\ Holder(k)' = w
            BY <4>1, <4>2, <4>4 DEF Key, Tool, Holder
          <5>3. AtIt(k)' /\ Marked(k)'
            BY <2>2, <4>1, <4>3, <5>2 DEF AtIt, OnKey, Marked
          <5>4. m = 0 /\ m1 = 1
            BY <5>1, <5>3
          <5> HIDE DEF S, S1, m, m1
          <5> QED
            BY <1>2, <1>3, <1>5, <1>6, <2>1, <4>1, <5>4
        <4>5. CASE Holder(k) # w
          <5>1. w \in Strays(k)
            BY <4>2, <4>3, <4>5 DEF Strays, MayRun, Holder
          <5>2. ~MayRun(w, k)'
            <6>1. k[2] \in {1, 2} /\ ~(k[2] < k[2])
              BY KeyParts
            <6> QED
              BY <4>1, <4>3, <6>1 DEF MayRun
          <5>3. Strays(k)' \subseteq Strays(k) \ {w}
            BY <1>9, <5>2, StraysShrink DEF Strays
          <5>4. S1 + 1 <= S
            BY <1>1, <5>1, <5>3, WorkersCount
          <5> HIDE DEF S, S1, m, m1
          <5> QED
            BY <1>2, <1>3, <1>4, <1>5, <1>6, <3>2, <4>1, <5>4
        <4> QED
          BY <4>4, <4>5
      <3> QED
        BY <3>3, <3>4
    <2> QED
      BY <2>3, <2>4
  <1>10. ASSUME NEW w \in Workers, Crash(w)
         PROVE  done'[k] + S1 <= faults' + m1
    <2>1. S1 <= S
      BY <1>1, <1>10, StraysShrink, WorkersCount
    <2>2. done'[k] = done[k] /\ faults' = faults + 1
      BY <1>10, FaultsCount DEF Crash, OutsideOnly, Procs
    <2> HIDE DEF S, S1, m, m1
    <2> QED
      BY <1>2, <1>3, <1>4, <1>5, <2>1, <2>2
  <1>11. ASSUME NEW w \in Workers, Stall(w)
         PROVE  done'[k] + S1 <= faults' + m1
    <2>1. /\ done'[k] = done[k] /\ faults' = faults + 1 /\ action' = action
          /\ UNCHANGED <<pc, at, run>> /\ job' = Requeued(w)
      BY <1>11, FaultsCount DEF Stall, OutsideOnly, Procs, procVars
    <2>2. \A v \in Workers : OnKey(v, k)' <=> OnKey(v, k)
      BY <2>1 DEF OnKey, Key, Tool
    <2>3. Holder(k)' = IF Holder(k) = w THEN NoOrder ELSE Holder(k)
      BY <1>7, <2>1, RequeuedJobs DEF Holder, FullType
    <2>4. Strays(k)' \subseteq Strays(k) \cup {w}
      BY <2>1, <2>3 DEF Strays, MayRun, Holder
    <2>5. S1 <= S + 1
      BY <1>1, <2>4, WorkersCount
    <2>6. Holder(k) \in Workers \cup {NoOrder} /\ w # NoOrder
      BY <1>7, OrderAssumption DEF Holder, FullType, LeaseType, Jobs
    <2>7. CASE Holder(k) = w /\ OnKey(w, k) /\ pc[w] = "record" /\ run[w].result = "ok"
      <3>1. run[w].i = k[2] /\ k[2] \in {1, 2} /\ ~(k[2] < k[2])
        BY <2>7, StepHasKey, KeyParts DEF OnKey, InStep
      <3>2. ~MayRun(w, k)'
        BY <2>1, <2>7, <3>1 DEF MayRun
      <3>3. Strays(k)' \subseteq Strays(k)
        BY <2>4, <3>2 DEF Strays
      <3>4. S1 <= S
        BY <1>1, <3>3, WorkersCount
      <3> HIDE DEF S, S1, m, m1
      <3> QED
        BY <1>2, <1>3, <1>4, <1>5, <2>1, <3>4
    <2>8. CASE ~(Holder(k) = w /\ OnKey(w, k) /\ pc[w] = "record" /\ run[w].result = "ok")
      <3>1. Marked(k) => Marked(k)'
        <4>1. CASE Holder(k) = w
          BY <2>1, <2>3, <2>6, <2>8, <4>1 DEF Marked, AtIt
        <4>2. CASE Holder(k) # w
          <5>1. Holder(k)' = Holder(k)
            BY <2>3, <4>2
          <5>2. AtIt(k)' <=> AtIt(k)
            BY <2>2, <2>6, <5>1 DEF AtIt
          <5>3. pc' = pc /\ run' = run /\ action' = action
            BY <2>1
          <5> QED
            BY <5>1, <5>2, <5>3 DEF Marked
        <4> QED
          BY <4>1, <4>2
      <3>2. m <= m1
        BY <3>1
      <3> HIDE DEF S, S1, m, m1
      <3> QED
        BY <1>2, <1>3, <1>4, <1>5, <2>1, <2>5, <3>2
    <2> QED
      BY <2>7, <2>8
  <1> QED
    BY <1>8, <1>9, <1>10, <1>11 DEF Next

\* The effect of one action happens once, and once more for each failure at most.
THEOREM RepeatsAreFaults == Spec => []RepeatNeedsFault
  <1>1. Init => RepeatCovered
    <2> SUFFICES ASSUME Init, NEW k \in Keys
                 PROVE  done[k] + Cardinality(Strays(k))
                          <= faults + (IF Marked(k) THEN 1 ELSE 0)
      BY DEF RepeatCovered
    <2>1. \A w \in Workers : at[w] = NoOrder
      BY DEF Init, Procs
    <2>2. Strays(k) = {}
      BY <2>1, KeyParts DEF Strays, MayRun
    <2>3. Cardinality(Strays(k)) = 0
      BY <2>2, FS_EmptySet
    <2>4. done[k] = 0 /\ faults = 0
      BY DEF Init
    <2> QED
      BY <2>3, <2>4
  <1>2. Init => FullType /\ JobHeld
    BY InitType
  <1>3. FullType /\ JobHeld /\ RepeatCovered /\ [Next]_vars
          => (FullType /\ JobHeld /\ RepeatCovered)'
    BY StepKeepsType, RepeatStep
  <1>4. FullType /\ RepeatCovered => RepeatNeedsFault
    <2> SUFFICES ASSUME FullType, RepeatCovered, NEW k \in Keys
                 PROVE  done[k] <= 1 + faults
      BY DEF RepeatNeedsFault
    <2>1. done[k] + Cardinality(Strays(k)) <= faults + (IF Marked(k) THEN 1 ELSE 0)
      BY DEF RepeatCovered
    <2>2. Strays(k) \in SUBSET Workers
      BY DEF Strays
    <2>3. Cardinality(Strays(k)) \in Nat
      BY <2>2, ProcAssumption, FS_Subset, FS_CardinalityType
    <2>4. done[k] \in Nat /\ faults \in Nat
      BY BoundAssumption DEF FullType, LedgerType, WorldType
    <2> DEFINE c == IF Marked(k) THEN 1 ELSE 0
    <2>5. c \in {0, 1} /\ done[k] + Cardinality(Strays(k)) <= faults + c
      BY <2>1
    <2> HIDE DEF c
    <2> QED
      BY <2>3, <2>4, <2>5
  <1> QED
    BY <1>1, <1>2, <1>3, <1>4, PTL DEF Spec

(***************************************************************************)
(* What completion stands for                                              *)
(***************************************************************************)

\* An order that was activated is never a draft again, and only the end of a run
\* completes it.
LEMMA StatusMoves ==
  ASSUME FullType, [Next]_vars, NEW o \in Orders
  PROVE  /\ kind' = kind
         /\ status'[o] = "draft" => status[o] = "draft"
         /\ status'[o] = "completed" =>
              status[o] = "completed" \/ \E w \in Workers : Finish(w) /\ at[w] = o
  <1>1. status \in [Orders -> {"draft", "active", "paused", "completed"}]
    BY DEF FullType, RowType
  <1>2. kind' = kind
    <2>1. ASSUME NEW w \in Workers, Work(w) PROVE kind' = kind
      BY <2>1 DEF Work, Take, Check, Request, Resume, Authorize, UseTool, Record, Settle,
                  Finish, PauseBudget, PauseApproval, Pause, End, Throw, WorkerOnly
    <2>2. ASSUME NEW c \in Clerks, Serve(c) PROVE kind' = kind
      BY <2>2 DEF Serve, Dispatch, Claim, Reclaim, Activate, Enqueue, rowVars
    <2>3. ASSUME Outside PROVE kind' = kind
      BY <2>3 DEF Outside, Decide, Overdue, ExpireSweep, SetPolicy, LeadTaken, TimeUp,
                  LeaseExpires, Crash, Stall, OutsideOnly
    <2> QED
      BY <2>1, <2>2, <2>3 DEF Next, vars, rowVars
  <1>3. ASSUME NEW w \in Workers, Work(w)
        PROVE  /\ status'[o] = "draft" => status[o] = "draft"
               /\ status'[o] = "completed" =>
                    status[o] = "completed" \/ (Finish(w) /\ at[w] = o)
    <2>1. CASE Finish(w)
      BY <1>1, <2>1 DEF Finish
    <2>2. CASE PauseBudget(w) \/ PauseApproval(w)
      BY <1>1, <2>2 DEF PauseBudget, PauseApproval, Pause
    <2>3. CASE UNCHANGED status
      BY <2>3
    <2> QED
      BY <1>3, <2>1, <2>2, <2>3
         DEF Work, Take, Check, Request, Resume, Authorize, UseTool, Record, Settle, End, Throw
  <1>4. ASSUME NEW c \in Clerks, Serve(c)
        PROVE  /\ status'[o] = "draft" => status[o] = "draft"
               /\ status'[o] = "completed" => status[o] = "completed"
    BY <1>1, <1>4 DEF Serve, Dispatch, Claim, Reclaim, Activate, Enqueue, rowVars
  <1>5. ASSUME Outside PROVE status' = status
    BY <1>5 DEF Outside, Decide, Overdue, ExpireSweep, SetPolicy, LeadTaken, TimeUp,
                LeaseExpires, Crash, Stall, OutsideOnly
  <1>6. UNCHANGED vars => status' = status
    BY DEF vars, rowVars
  <1> QED
    BY <1>2, <1>3, <1>4, <1>5, <1>6 DEF Next

\* Work that was done stays done.
LEMMA FulfilledStays ==
  ASSUME FullType, [Next]_vars, NEW o \in Orders, Fulfilled(o)
  PROVE  Fulfilled(o)'
  <1>1. kind' = kind
    BY StatusMoves
  <1>2. \A k \in Keys : done[k] > 0 => done'[k] > 0
    <2>1. done \in [Keys -> Nat]
      BY DEF FullType, LedgerType
    <2>2. CASE done' = done
      BY <2>2
    <2>3. ASSUME NEW j \in Keys, done' = [done EXCEPT ![j] = @ + 1]
          PROVE  \A k \in Keys : done[k] > 0 => done'[k] > 0
      BY <2>1, <2>3
    <2> QED
      BY <2>2, <2>3, DoneMovesOn
  <1>3. \A i \in {1, 2} : <<o, i, "draft">> \in Keys
    BY DEF Keys, Tools
  <1>4. (enrolled # NoOrder => enrolled' # NoOrder) /\ (lead = "human" => lead' = "human")
    <2>1. ASSUME NEW w \in Workers, Work(w)
          PROVE  lead' = lead /\ (enrolled' = enrolled \/ (UseTool(w) /\ enrolled' = at[w]))
      BY <2>1 DEF Work, Take, Check, Request, Resume, Authorize, UseTool, Record, Settle,
                  Finish, PauseBudget, PauseApproval, Pause, End, Throw, WorkerOnly
    <2>2. ASSUME NEW w \in Workers, UseTool(w) PROVE at[w] # NoOrder
      BY <2>2, StepHasKey, OrderAssumption DEF UseTool, InStep
    <2>3. ASSUME NEW c \in Clerks, Serve(c) PROVE UNCHANGED <<lead, enrolled>>
      BY <2>3 DEF Serve, Dispatch, Claim, Reclaim, Activate, Enqueue, worldVars
    <2>4. ASSUME Outside PROVE enrolled' = enrolled /\ lead' \in {lead, "human"}
      BY <2>4 DEF Outside, Decide, Overdue, ExpireSweep, SetPolicy, LeadTaken, TimeUp,
                  LeaseExpires, Crash, Stall, OutsideOnly
    <2>5. UNCHANGED vars => UNCHANGED <<lead, enrolled>>
      BY DEF vars, worldVars
    <2> QED
      BY <2>1, <2>2, <2>3, <2>4, <2>5 DEF Next
  <1> QED
    BY <1>1, <1>2, <1>3, <1>4 DEF Fulfilled

\* A policy that has not moved, and approvals that stand, were so before.
LEMMA SteadyBefore ==
  ASSUME FullType, [Next]_vars, FullType', Steady'
  PROVE  Steady /\ policy' = policy
  <1>1. \A k \in Keys : ~request[k].late
    BY RequestsMoveOn DEF Steady
  <1>2. seen \subseteq seen' /\ policy \in seen /\ seen' = {policy'}
    BY DoneMovesOn DEF FullType, WorldType, Steady
  <1> QED
    BY <1>1, <1>2 DEF Steady

\* A worker takes a new plan, drops its plan, or keeps it.
LEMMA PlansKept ==
  ASSUME FullType, NEW w \in Workers, Work(w)
  PROVE  \/ \E o \in Orders : Take(w, o) /\ at'[w] = o /\ run'[w].plan = Plan(o)
                              /\ run'[w].i = 1 /\ pc'[w] = "check"
         \/ at'[w] = NoOrder /\ pc'[w] = "idle"
         \/ /\ at'[w] = at[w] /\ run'[w].plan = run[w].plan
            /\ run'[w].i = run[w].i \/ Settle(w)
  <1>1. w \in Procs /\ ProcType
    BY DEF FullType, Procs
  <1>2. CASE \E o \in Orders : Take(w, o)
    BY <1>1, <1>2, TakeMoves, MovesPoint
  <1>3. CASE Check(w)
    BY <1>1, <1>3, CheckMoves, MovesPoint
  <1>4. CASE Request(w) \/ Record(w)
    BY <1>1, <1>4, RequestMoves, RecordMoves, MovesPoint
  <1>5. CASE Resume(w)
    BY <1>1, <1>5, ResumeMoves, MovesPoint
  <1>6. CASE Authorize(w)
    BY <1>1, <1>6, AuthorizeMoves, MovesPoint
  <1>7. CASE UseTool(w)
    BY <1>1, <1>7, UseToolMoves, MovesPoint
  <1>8. CASE Settle(w)
    BY <1>1, <1>8, SettleMoves, MovesPoint
  <1>9. CASE Finish(w)
    BY <1>1, <1>9, FinishMoves, MovesPoint
  <1>10. CASE PauseBudget(w) \/ PauseApproval(w)
    BY <1>1, <1>10, PauseMoves, MovesPoint
  <1>11. CASE End(w) \/ Throw(w)
    BY <1>1, <1>11, EndMoves, MovesPoint
  <1> QED
    BY <1>2, <1>3, <1>4, <1>5, <1>6, <1>7, <1>8, <1>9, <1>10, <1>11 DEF Work

\* Every step keeps Started.
LEMMA StartedStep ==
  ASSUME FullType, JobHeld, Started, [Next]_vars
  PROVE  Started'
  <1>1. \A o \in Orders : status'[o] = "draft" => status[o] = "draft"
    BY StatusMoves
  <1>2. ProcType /\ LeaseType /\ job \in [Orders -> Jobs]
    BY DEF FullType, LeaseType
  <1>3. ASSUME NEW o \in Orders
        PROVE  job'[o].state # "none" => status'[o] # "draft"
    <2>1. CASE job[o].state # "none"
      BY <1>1, <2>1 DEF Started
    <2>2. CASE job[o].state = "none"
      <3>1. job[o].owner = NoOrder
        BY <2>2 DEF JobHeld
      <3>2. ASSUME NEW w \in Workers, Work(w) PROVE job'[o] = job[o]
        <4>1. w # NoOrder
          BY OrderAssumption
        <4>2. CASE \E q \in Orders : Take(w, q)
          BY <1>2, <2>2, <4>2, TakesJob
        <4>3. CASE End(w) \/ Throw(w)
          BY <1>2, <3>1, <4>1, <4>3, LetsGo
        <4>4. CASE UNCHANGED job
          BY <4>4
        <4> QED
          BY <3>2, <4>2, <4>3, <4>4, WorkSplit
      <3>3. ASSUME NEW c \in Clerks, Serve(c)
            PROVE  job'[o] = job[o] \/ status'[o] # "draft"
        <4>1. CASE Enqueue(c)
          <5>1. pc[c] = "enqueue" /\ at[c] \in Orders
            BY <1>2, <4>1, Somewhere DEF Enqueue, Procs
          <5>2. status[at[c]] # "draft" /\ status'[at[c]] # "draft"
            BY <1>1, <5>1, OrderAssumption DEF Started, Procs
          <5>3. job' = job \/ \E j : job' = [job EXCEPT ![at[c]] = j]
            BY <4>1 DEF Enqueue
          <5> QED
            BY <1>2, <5>2, <5>3
        <4>2. CASE UNCHANGED job
          BY <4>2
        <4> QED
          BY <3>3, <4>1, <4>2 DEF Serve, Dispatch, Claim, Reclaim, Activate
      <3>4. ASSUME Outside PROVE job'[o] = job[o]
        <4>1. job' = job \/ \E w \in Workers : job' = Requeued(w)
          BY <3>4 DEF Outside, Decide, Overdue, ExpireSweep, SetPolicy, LeadTaken, TimeUp,
                      LeaseExpires, Crash, Stall
        <4> QED
          BY <1>2, <3>1, <4>1, RequeuedJobs, OrderAssumption
      <3> QED
        BY <2>2, <3>2, <3>3, <3>4 DEF Next, vars
    <2> QED
      BY <2>1, <2>2
  <1> DEFINE Past(l) == l \in WorkerPhases \cup {"enqueue"}
  <1>4. ASSUME NEW p \in Procs
        PROVE  at'[p] # NoOrder /\ Past(pc'[p]) => status'[at'[p]] # "draft"
    <2>1. CASE at'[p] = at[p] /\ (Past(pc'[p]) => Past(pc[p]))
      <3>1. at[p] \in Orders \cup {NoOrder}
        BY <1>2 DEF ProcType
      <3>2. at[p] # NoOrder /\ Past(pc[p]) => status[at[p]] # "draft"
        BY DEF Started
      <3> HIDE DEF Past
      <3> QED
        BY <1>1, <2>1, <3>1, <3>2
    <2>2. CASE at'[p] = NoOrder
      BY <2>2
    <2>3. ASSUME NEW w \in Workers, Work(w)
          PROVE  at'[p] # NoOrder /\ Past(pc'[p]) => status'[at'[p]] # "draft"
      <3>1. w \in Procs /\ (\A q \in Procs \ {w} : at'[q] = at[q] /\ pc'[q] = pc[q])
        BY <1>2, <2>3, WorkMoves, MovesPoint
      <3>2. CASE p = w /\ \E o \in Orders : Take(w, o) /\ at'[w] = o
        <4>1. PICK o \in Orders : Take(w, o) /\ at'[w] = o
          BY <3>2
        <4>2. status[o] # "draft"
          BY <4>1 DEF Take, Started
        <4> QED
          BY <1>1, <3>2, <4>1, <4>2
      <3>3. CASE p = w /\ at'[w] = at[w]
        <4>1. Past(pc[w])
          BY <1>2 DEF ProcType
        <4> QED
          BY <2>1, <3>3, <4>1
      <3> QED
        BY <2>1, <2>2, <2>3, <3>1, <3>2, <3>3, PlansKept
    <2>4. ASSUME NEW c \in Clerks, Serve(c)
          PROVE  at'[p] # NoOrder /\ Past(pc'[p]) => status'[at'[p]] # "draft"
      <3>1. c \in Procs /\ (\A q \in Procs \ {c} : at'[q] = at[q] /\ pc'[q] = pc[q])
        BY <1>2, <2>4, ServeMoves, MovesPoint
      <3>2. CASE p = c /\ Leave(c)
        BY <1>2, <3>1, <3>2, LeaveMoves, MovesPoint
      <3>3. CASE p = c /\ Claim(c) /\ ~Leave(c)
        <4>1. pc'[c] = "activate"
          BY <1>2, <3>1, <3>3 DEF Claim, Goto, ProcType
        <4> QED
          BY <3>3, <4>1 DEF WorkerPhases, InStep
      <3>4. CASE p = c /\ Activate(c) /\ ~Leave(c)
        <4>1. at' = at /\ status' = [status EXCEPT ![at[c]] = "active"] /\ pc[c] = "activate"
          BY <3>4 DEF Activate, Stay
        <4>2. at[c] \in Orders
          BY <1>2, <3>1, <4>1, Somewhere
        <4>3. status'[at[c]] = "active"
          BY <4>1, <4>2 DEF FullType, RowType
        <4> QED
          BY <3>4, <4>1, <4>3
      <3>5. CASE \E o \in Orders : Dispatch(c, o)
        <4>1. PICK o \in Orders : Dispatch(c, o)
          BY <3>5
        <4>2. pc'[c] \in {"claim", "reclaim"}
          BY <1>2, <3>1, <4>1 DEF Dispatch, Goto, ProcType
        <4>3. p = c => ~Past(pc'[p])
          BY <4>2 DEF WorkerPhases, InStep
        <4> QED
          BY <2>1, <3>1, <4>3
      <3>6. CASE p # c
        BY <2>1, <3>1, <3>6
      <3>7. Reclaim(c) \/ Enqueue(c) => Leave(c)
        BY DEF Reclaim, Enqueue
      <3>8. \/ \E o \in Orders : Dispatch(c, o)
            \/ Claim(c) \/ Reclaim(c) \/ Activate(c) \/ Enqueue(c)
        BY <2>4 DEF Serve
      <3>9. \/ p # c \/ Leave(c) \/ (Claim(c) /\ ~Leave(c)) \/ (Activate(c) /\ ~Leave(c))
            \/ \E o \in Orders : Dispatch(c, o)
        BY <3>7, <3>8
      <3> HIDE DEF Past
      <3> QED
        BY <3>2, <3>3, <3>4, <3>5, <3>6, <3>9
    <2>5. ASSUME Outside
          PROVE  at'[p] = NoOrder \/ (at'[p] = at[p] /\ pc'[p] = pc[p])
      BY <1>2, <2>5, OutsideMoves, MovesPoint DEF procVars
    <2>6. UNCHANGED vars => at'[p] = at[p] /\ pc'[p] = pc[p]
      BY DEF vars, procVars
    <2> QED
      BY <2>1, <2>2, <2>3, <2>4, <2>5, <2>6 DEF Next
  <1> QED
    BY <1>3, <1>4 DEF Started

\* Every step keeps PlanFits.
LEMMA PlanFitsStep ==
  ASSUME FullType, JobHeld, PlanFits, [Next]_vars
  PROVE  PlanFits'
  <1> SUFFICES ASSUME NEW w \in Workers, at'[w] # NoOrder
               PROVE  /\ run'[w].plan = <<>> => Fulfilled(at[w])'
                      /\ run'[w].plan # <<>> =>
                           run'[w].plan[Len(run'[w].plan)] = FinalTool(at[w])'
    BY DEF PlanFits
  <1>1. kind \in [Orders -> {"launch", "design"}] /\ ProcType /\ w \in Procs
    BY DEF FullType, RowType, Procs
  <1>2. \A o \in Orders : kind' = kind /\ (Fulfilled(o) => Fulfilled(o)')
    BY StatusMoves, FulfilledStays
  <1>3. \A o \in Orders : FinalTool(o)' = FinalTool(o)
    BY <1>2 DEF FinalTool
  <1>4. CASE at'[w] = at[w] /\ run'[w].plan = run[w].plan
    <2>1. at[w] \in Orders
      BY <1>1, <1>4 DEF ProcType
    <2>2. /\ run[w].plan = <<>> => Fulfilled(at[w])
          /\ run[w].plan # <<>> => run[w].plan[Len(run[w].plan)] = FinalTool(at[w])
      BY <1>4 DEF PlanFits
    <2>3. Fulfilled(at[w]) => Fulfilled(at[w])'
      <3>1. PICK o \in Orders : o = at[w]
        BY <2>1
      <3>2. Fulfilled(o) => Fulfilled(o)'
        BY <1>2
      <3> QED
        BY <1>4, <3>1, <3>2 DEF Fulfilled
    <2> QED
      BY <1>2, <1>3, <1>4, <2>1, <2>2, <2>3 DEF FinalTool, Fulfilled
  <1>5. ASSUME NEW o \in Orders, Take(w, o), at'[w] = o, run'[w].plan = Plan(o)
        PROVE  /\ run'[w].plan = <<>> => Fulfilled(at[w])'
               /\ run'[w].plan # <<>> =>
                    run'[w].plan[Len(run'[w].plan)] = FinalTool(at[w])'
    <2>1. Plan(o) = <<>> => Fulfilled(o)
      <3>1. lead \in {"ready", "human"}
        BY DEF FullType, WorldType
      <3>2. <<"launch">> # <<>> /\ <<"draft">> # <<>> /\ <<"research", "draft">> # <<>>
        OBVIOUS
      <3> QED
        BY <1>1, <3>1, <3>2, OrderAssumption DEF Plan, Launchable, Fulfilled
    <2>2. Plan(o) # <<>> => Plan(o)[Len(Plan(o))] = FinalTool(o)
      <3>1. CASE kind[o] = "launch"
        BY <3>1 DEF Plan, FinalTool
      <3>2. CASE kind[o] # "launch"
        BY <1>1, <3>2 DEF Plan, FinalTool
      <3> QED
        BY <3>1, <3>2
    <2>3. Fulfilled(o) => Fulfilled(o)'
      BY <1>2
    <2>4. /\ Fulfilled(o)' => Fulfilled(at[w])'
          /\ FinalTool(at[w])' = FinalTool(o)
      BY <1>2, <1>5 DEF Fulfilled, FinalTool
    <2> QED
      BY <1>5, <2>1, <2>2, <2>3, <2>4
  <1>6. ASSUME NEW v \in Workers, Work(v) \/ Crash(v) \/ Stall(v)
        PROVE  \/ at'[w] = at[w] /\ run'[w].plan = run[w].plan
               \/ \E o \in Orders : Take(w, o) /\ at'[w] = o /\ run'[w].plan = Plan(o)
    <2>1. CASE v # w
      BY <1>6, <2>1, OthersKept
    <2>2. CASE v = w /\ Work(w)
      BY <2>2, PlansKept
    <2>3. CASE v = w /\ Crash(w)
      BY <1>1, <2>3, LeaveMoves, MovesPoint DEF Crash
    <2>4. CASE v = w /\ Stall(w)
      BY <2>4 DEF Stall, procVars
    <2> QED
      BY <1>6, <2>1, <2>2, <2>3, <2>4
  <1>7. ASSUME \/ UNCHANGED vars
               \/ \E c \in Clerks : Serve(c)
               \/ Outside /\ ~(\E v \in Workers : Crash(v) \/ Stall(v))
        PROVE  at'[w] = at[w] /\ run'[w].plan = run[w].plan
    BY <1>7, WorkersKept
  <1> QED
    BY <1>4, <1>5, <1>6, <1>7 DEF Next

\* An action is marked completed by the execution that answered it.
LEMMA WhoCompletes ==
  ASSUME FullType, [Next]_vars, NEW k \in Keys, action'[k] = "completed"
  PROVE  \/ action[k] = "completed"
         \/ \E w \in Workers : /\ Record(w) /\ pc[w] = "record" /\ Key(w) = k
                               /\ run[w].result = "ok"
  <1>1. action \in [Keys -> {"none", "running", "completed", "failed", "refused"}]
    BY DEF FullType, LedgerType
  <1>2. ASSUME NEW w \in Workers, Work(w), action[k] # "completed"
        PROVE  Record(w) /\ pc[w] = "record" /\ Key(w) = k /\ run[w].result = "ok"
    <2>1. CASE Authorize(w)
      <3>1. \/ action' = action
            \/ action' = [action EXCEPT ![Key(w)] = "running"]
            \/ action' = [action EXCEPT ![Key(w)] = "refused"]
        BY <2>1, AuthorizeMoves
      <3> QED
        BY <1>1, <1>2, <3>1
    <2>2. CASE Record(w)
      <3>1. /\ pc[w] = "record"
            /\ action' = [action EXCEPT ![Key(w)] =
                            IF run[w].result = "ok" THEN "completed" ELSE "failed"]
        BY <2>2 DEF Record
      <3> QED
        BY <1>1, <1>2, <2>2, <3>1
    <2>3. CASE UNCHANGED action
      BY <1>2, <2>3
    <2> QED
      BY <1>2, <2>1, <2>2, <2>3
         DEF Work, Take, Check, Request, Resume, UseTool, Settle, Finish, PauseBudget,
             PauseApproval, Pause, End, Throw
  <1>3. ASSUME NEW c \in Clerks, Serve(c) PROVE action' = action
    BY <1>3 DEF Serve, Dispatch, Claim, Reclaim, Activate, Enqueue
  <1>4. ASSUME Outside PROVE action' = action
    BY <1>4 DEF Outside, Decide, Overdue, ExpireSweep, SetPolicy, LeadTaken, TimeUp,
                LeaseExpires, Crash, Stall, OutsideOnly
  <1> QED
    BY <1>2, <1>3, <1>4 DEF Next, vars

\* The final tool of a run does what its order is for, or finds it done: a policy
\* that stays and an approval that stands refuse it for a completed order only.
LEMMA ToolFulfils ==
  ASSUME FullType, Started, [Next]_vars, Steady, ToolCleared, WorkStands,
         NEW w \in Workers, UseTool(w), run'[w].result = "ok", Tool(w) = FinalTool(at[w]),
         NEW o \in Orders, o = at[w]
  PROVE  Fulfilled(o)'
  <1>1. w \in Procs /\ ProcType /\ pc[w] = "tool" /\ at[w] # NoOrder
    BY OrderAssumption DEF Procs, FullType, UseTool
  <1>2. /\ Key(w) \in Keys /\ Key(w) = <<o, run[w].i, Tool(w)>> /\ run[w].i \in {1, 2}
        /\ Key(w)[1] = o /\ Key(w)[3] = Tool(w)
    BY <1>1, StepHasKey DEF InStep
  <1>3. PICK r \in Runs :
          /\ Moves(w, "record", at[w], r)
          /\ \/ ~Permitted(w)
             \/ /\ Permitted(w)
                /\ enrolled' = IF Key(w)[3] = "launch" /\ r.result = "ok" THEN at[w]
                               ELSE enrolled
                /\ done' = IF r.result = "ok" THEN [done EXCEPT ![Key(w)] = @ + 1] ELSE done
    <2>1. PICK r \in Runs :
           /\ Moves(w, "record", at[w], r)
           /\ \/ ~Permitted(w) /\ r.result = "ok" /\ UNCHANGED <<spent, fresh, enrolled, done>>
              \/ /\ Permitted(w)
                 /\ enrolled' = IF Key(w)[3] = "launch" /\ r.result = "ok" THEN at[w]
                                ELSE enrolled
                 /\ done' = IF r.result = "ok" THEN [done EXCEPT ![Key(w)] = @ + 1] ELSE done
      BY UseToolMoves
    <2> QED
      BY <2>1
  <1>4. r.result = "ok"
    BY <1>1, <1>3, MovesPoint
  <1>5. kind' = kind /\ kind[o] \in {"launch", "design"}
    BY StatusMoves DEF FullType, RowType
  <1>6. CASE ~Permitted(w)
    <2>1. /\ run[w].approved /\ Mode(Tool(w)) # Deny
          /\ request[Key(w)].status = "approved" /\ request[Key(w)].level >= Mode(Tool(w))
      BY <1>1, <1>6 DEF ToolCleared, Permitted
    <2>2. ~request[Key(w)].late
      BY <1>2 DEF Steady
    <2>3. status[o] \notin Occupying
      BY <1>2, <1>6, <2>1, <2>2 DEF Permitted, Cleared
    <2>4. status[o] # "draft"
      BY <1>1 DEF Started, WorkerPhases, InStep
    <2>5. status[o] = "completed"
      BY <2>3, <2>4 DEF FullType, RowType, Occupying
    <2>6. Fulfilled(o)
      BY <2>5 DEF WorkStands
    <2> QED
      BY <2>6, FulfilledStays
  <1>7. CASE Permitted(w)
    <2>1. CASE kind[o] = "design"
      <3>1. Key(w) = <<o, run[w].i, "draft">>
        BY <1>2, <2>1 DEF FinalTool
      <3>2. done'[Key(w)] > 0
        <4>1. done \in [Keys -> Nat]
          BY DEF FullType, LedgerType
        <4>2. done' = [done EXCEPT ![Key(w)] = @ + 1]
          BY <1>3, <1>4, <1>7
        <4> QED
          BY <1>2, <4>1, <4>2
      <3> QED
        BY <1>2, <1>5, <2>1, <3>1, <3>2 DEF Fulfilled
    <2>2. CASE kind[o] = "launch"
      <3>1. Key(w)[3] = "launch"
        BY <1>2, <2>2 DEF FinalTool
      <3>2. enrolled' = at[w]
        BY <1>3, <1>4, <1>7, <3>1
      <3> QED
        BY <1>1, <1>5, <2>2, <3>2 DEF Fulfilled
    <2> QED
      BY <1>5, <2>1, <2>2
  <1> QED
    BY <1>6, <1>7

\* An approval that let an action through to its tool still does.
LEMMA ToolClearedStep ==
  ASSUME FullType, JobHeld, [Next]_vars, FullType', Steady, policy' = policy, ToolCleared
  PROVE  ToolCleared'
  <1> SUFFICES ASSUME NEW w \in Workers, pc'[w] = "tool"
               PROVE  \/ Mode(Tool(w))' = Allow
                      \/ /\ run'[w].approved /\ Mode(Tool(w))' # Deny
                         /\ request'[Key(w)'].status = "approved"
                         /\ request'[Key(w)'].level >= Mode(Tool(w))'
    BY DEF ToolCleared
  <1> DEFINE OK == \/ Mode(Tool(w)) = Allow
                   \/ /\ run[w].approved /\ Mode(Tool(w)) # Deny
                      /\ request[Key(w)].status = "approved"
                      /\ request[Key(w)].level >= Mode(Tool(w))
  <1>1. w \in Procs /\ ProcType
    BY DEF Procs, FullType
  <1>2. OK /\ at'[w] = at[w] /\ run'[w] = run[w] /\ pc[w] \in InStep
    <2>1. CASE pc[w] = "tool" /\ at'[w] = at[w] /\ run'[w] = run[w]
      BY <2>1 DEF ToolCleared, InStep
    <2>2. ASSUME Work(w) PROVE OK /\ at'[w] = at[w] /\ run'[w] = run[w] /\ pc[w] \in InStep
      <3>1. Authorize(w)
        <4>1. ~(\E o \in Orders : Take(w, o)) /\ ~Check(w) /\ ~Request(w)
          BY <1>1, TakeMoves, CheckMoves, RequestMoves, MovesPoint
        <4>2. ~Resume(w) /\ ~UseTool(w) /\ ~Record(w)
          BY <1>1, ResumeMoves, UseToolMoves, RecordMoves, MovesPoint
        <4>3. ~Settle(w) /\ ~Finish(w)
          BY <1>1, SettleMoves, FinishMoves, MovesPoint
        <4>4. ~PauseBudget(w) /\ ~PauseApproval(w) /\ ~End(w) /\ ~Throw(w)
          BY <1>1, PauseMoves, EndMoves, MovesPoint
        <4> QED
          BY <2>2, <4>1, <4>2, <4>3, <4>4 DEF Work
      <3>2. PICK l, r : /\ Moves(w, l, at[w], r)
                        /\ l = "tool" => r = run[w] /\ Permitted(w)
        BY <3>1, AuthorizeMoves
      <3>3. l = "tool" /\ r = run[w] /\ Permitted(w) /\ at'[w] = at[w] /\ run'[w] = r
        BY <1>1, <3>2, MovesPoint
      <3>4. pc[w] \in InStep
        BY <3>1 DEF Authorize, InStep
      <3>5. Key(w)[3] = Tool(w)
        BY <3>4, StepHasKey
      <3>6. OK
        BY <3>3, <3>5 DEF Permitted, Cleared
      <3> QED
        BY <3>3, <3>4, <3>6
    <2>3. ASSUME NEW v \in Workers, Work(v) \/ Crash(v) \/ Stall(v), v # w \/ ~Work(w)
          PROVE  pc[w] = "tool" /\ at'[w] = at[w] /\ run'[w] = run[w]
      <3>1. CASE v # w
        BY <2>3, <3>1, OthersKept
      <3>2. CASE v = w /\ Crash(w)
        BY <1>1, <3>2, LeaveMoves, MovesPoint DEF Crash
      <3>3. CASE v = w /\ Stall(w)
        BY <3>3 DEF Stall, procVars
      <3> QED
        BY <2>3, <3>1, <3>2, <3>3
    <2>4. ASSUME \/ UNCHANGED vars
                 \/ \E c \in Clerks : Serve(c)
                 \/ Outside /\ ~(\E v \in Workers : Crash(v) \/ Stall(v))
          PROVE  pc[w] = "tool" /\ at'[w] = at[w] /\ run'[w] = run[w]
      BY <2>4, WorkersKept
    <2> QED
      BY <2>1, <2>2, <2>3, <2>4 DEF Next
  <1>3. Tool(w)' = Tool(w) /\ Key(w)' = Key(w)
    BY <1>2 DEF Tool, Key
  <1>4. Mode(Tool(w))' = Mode(Tool(w))
    BY <1>3 DEF Mode
  <1>5. Key(w) \in Keys
    BY <1>2, StepHasKey
  <1>6. request[Key(w)].status = "approved" =>
          request'[Key(w)].status = "approved" /\ request'[Key(w)].level = request[Key(w)].level
    BY <1>5, RequestsMoveOn
  <1> QED
    BY <1>2, <1>3, <1>4, <1>6

\* What an execution's record stands for, when the execution was not the one to move.
LEMMA WorkStandsStep ==
  ASSUME FullType, JobHeld, Started, PlanFits, [Next]_vars, FullType', PlanFits',
         Steady, ToolCleared, WorkStands
  PROVE  WorkStands'
  <1>0. \A o \in Orders : Fulfilled(o) => Fulfilled(o)'
    BY FulfilledStays
  <1>1. \A o \in Orders : kind' = kind /\ FinalTool(o)' = FinalTool(o)
    BY StatusMoves DEF FinalTool
  <1>2. ProcType /\ ProcType'
    BY DEF FullType
  <1>3. ASSUME NEW o \in Orders, status'[o] = "completed"
        PROVE  Fulfilled(o)'
    <2>1. CASE status[o] = "completed"
      BY <1>0, <2>1 DEF WorkStands
    <2>2. ASSUME NEW w \in Workers, Finish(w), at[w] = o
          PROVE  Fulfilled(o)'
      <3>1. run[w].i > Len(run[w].plan)
        BY <1>2, <2>2 DEF ProcType, Finish, Procs
      <3>2. Fulfilled(o)
        BY <2>2, <3>1, OrderAssumption DEF WorkStands
      <3> QED
        BY <1>0, <3>2
    <2> QED
      BY <1>3, <2>1, <2>2, StatusMoves
  <1>4. ASSUME NEW o \in Orders, NEW i \in {1, 2},
               action'[<<o, i, FinalTool(o)'>>] = "completed"
        PROVE  Fulfilled(o)'
    <2> DEFINE k == <<o, i, FinalTool(o)>>
    <2>1. k \in Keys /\ action'[k] = "completed"
      BY <1>1, <1>4 DEF Keys, Tools, FinalTool
    <2>2. CASE action[k] = "completed"
      BY <1>0, <2>2 DEF WorkStands
    <2>3. ASSUME NEW w \in Workers, pc[w] = "record", Key(w) = k, run[w].result = "ok"
          PROVE  Fulfilled(o)'
      <3>1. at[w] = o /\ Tool(w) = FinalTool(at[w])
        BY <2>3, StepHasKey DEF InStep
      <3>2. Fulfilled(o)
        BY <2>3, <3>1, OrderAssumption DEF WorkStands
      <3> QED
        BY <1>0, <3>2
    <2> QED
      BY <2>1, <2>2, <2>3, WhoCompletes
  <1> DEFINE Answered(w) == /\ pc[w] \in {"record", "settle"} /\ run[w].result = "ok"
                            /\ Tool(w) = FinalTool(at[w])
             Passed(w) == run[w].i > Len(run[w].plan)
  <1>5. ASSUME NEW w \in Workers, NEW o \in Orders, at[w] = o, Answered(w) \/ Passed(w)
        PROVE  Fulfilled(o)'
    <2>1. Fulfilled(o)
      BY <1>5, OrderAssumption DEF WorkStands
    <2> QED
      BY <1>0, <2>1
  <1>6. ASSUME NEW w \in Workers, NEW o \in Orders, at'[w] = o, Answered(w)' \/ Passed(w)'
        PROVE  Fulfilled(o)'
    <2>0. w \in Procs /\ o # NoOrder
      BY OrderAssumption DEF Procs
    <2>1. CASE at'[w] = at[w] /\ pc'[w] = pc[w] /\ run'[w] = run[w]
      <3>1. Tool(w)' = Tool(w) /\ FinalTool(at[w])' = FinalTool(at[w])
        BY <1>1, <2>1 DEF Tool, FinalTool
      <3>2. Answered(w) \/ Passed(w)
        BY <1>6, <2>1, <3>1
      <3> QED
        BY <1>5, <1>6, <2>1, <3>2
    <2>2. ASSUME Work(w) PROVE Fulfilled(o)'
      <3>1. CASE \E q \in Orders : Take(w, q) /\ pc'[w] = "check" /\ run'[w].i = 1
        <4>1. Passed(w)' /\ run'[w].i = 1
          BY <1>6, <3>1
        <4>2. run'[w].plan \in Plans /\ Len(run'[w].plan) \in 0..2
              /\ (run'[w].plan = <<>> <=> Len(run'[w].plan) = 0)
          <5>1. run'[w].plan \in Plans
            BY <1>2, <2>0 DEF ProcType, Runs
          <5> QED
            BY <5>1, PlansAreShort
        <4>3. Len(run'[w].plan) = 0
          <5>1. \A n \in 0..2 : 1 > n => n = 0
            OBVIOUS
          <5> QED
            BY <4>1, <4>2, <5>1
        <4>4. Fulfilled(at[w])'
          BY <1>6, <2>0, <4>2, <4>3 DEF PlanFits
        <4> QED
          BY <1>6, <4>4 DEF Fulfilled
      <3>2. CASE UseTool(w)
        <4>1. /\ at'[w] = at[w] /\ run'[w].i = run[w].i /\ run'[w].plan = run[w].plan
              /\ pc'[w] = "record"
          BY <1>2, <2>0, <3>2, UseToolMoves, MovesPoint
        <4>2. pc[w] = "tool"
          BY <3>2 DEF UseTool
        <4>3. CASE Passed(w)'
          <5>1. Passed(w)
            BY <4>1, <4>3
          <5> QED
            BY <1>5, <1>6, <4>1, <5>1
        <4>4. CASE Answered(w)'
          <5>1. Tool(w)' = Tool(w) /\ FinalTool(at[w])' = FinalTool(at[w])
            BY <1>1, <4>1 DEF Tool, FinalTool
          <5>2. run'[w].result = "ok" /\ Tool(w) = FinalTool(at[w]) /\ o = at[w]
            BY <1>6, <4>1, <4>4, <5>1
          <5> QED
            BY <3>2, <5>2, ToolFulfils
        <4> QED
          BY <1>6, <4>3, <4>4
      <3>3. CASE Record(w)
        <4>1. at'[w] = at[w] /\ run'[w] = run[w] /\ pc'[w] = "settle" /\ pc[w] = "record"
          BY <1>2, <2>0, <3>3, RecordMoves, MovesPoint DEF Record
        <4>2. Tool(w)' = Tool(w) /\ FinalTool(at[w])' = FinalTool(at[w])
          BY <1>1, <4>1 DEF Tool, FinalTool
        <4>3. Answered(w) \/ Passed(w)
          BY <1>6, <4>1, <4>2
        <4> QED
          BY <1>5, <1>6, <4>1, <4>3
      <3>4. CASE Authorize(w)
        <4>1. PICK l \in {"tool", "settle"}, r \in Runs :
                /\ Moves(w, l, at[w], r) /\ r.plan = run[w].plan /\ r.i = run[w].i
                /\ l = "settle" => (r.result = "ok" => action[Key(w)] = "completed")
          BY <3>4, AuthorizeMoves
        <4>2. /\ at'[w] = at[w] /\ run'[w] = r /\ pc'[w] = l
              /\ run'[w].i = run[w].i /\ run'[w].plan = run[w].plan
          BY <1>2, <2>0, <4>1, MovesPoint
        <4>3. CASE Passed(w)'
          <5>1. Passed(w)
            BY <4>2, <4>3
          <5> QED
            BY <1>5, <1>6, <4>2, <5>1
        <4>4. CASE Answered(w)'
          <5>1. Tool(w)' = Tool(w) /\ FinalTool(at[w])' = FinalTool(at[w])
            BY <1>1, <4>2 DEF Tool, FinalTool
          <5>2. action[Key(w)] = "completed" /\ Tool(w) = FinalTool(at[w]) /\ o = at[w]
            BY <1>6, <4>1, <4>2, <4>4, <5>1
          <5>3. Key(w) = <<o, run[w].i, FinalTool(o)>> /\ run[w].i \in {1, 2}
            BY <3>4, <5>2, StepHasKey DEF Authorize, InStep
          <5>4. Fulfilled(o)
            BY <5>2, <5>3 DEF WorkStands
          <5> QED
            BY <1>0, <5>4
        <4> QED
          BY <1>6, <4>3, <4>4
      <3>5. CASE Settle(w)
        <4>1. pc[w] = "settle"
          BY <3>5 DEF Settle
        <4>2. PICK l \in {"check", "throw", "end"}, r \in Runs :
                /\ Moves(w, l, at[w], r) /\ r.plan = run[w].plan
                /\ l = "check" => r.i = run[w].i + 1 /\ run[w].result = "ok"
                /\ l # "check" => r = run[w]
          BY <3>5, SettleMoves
        <4>3. at'[w] = at[w] /\ run'[w] = r /\ pc'[w] = l
          BY <1>2, <2>0, <4>2, MovesPoint
        <4>4. Passed(w)'
          BY <1>6, <4>3
        <4>5. CASE l = "check"
          <5>1. run[w].i + 1 > Len(run[w].plan) /\ run[w].i <= Len(run[w].plan)
                /\ run[w].i \in {1, 2}
            BY <4>1, <4>2, <4>3, <4>4, <4>5, StepHasKey DEF InStep
          <5>2. Len(run[w].plan) \in 0..2 /\ (run[w].plan = <<>> <=> Len(run[w].plan) = 0)
            <6>1. run[w].plan \in Plans
              BY <1>2, <2>0, Somewhere
            <6> QED
              BY <6>1, PlansAreShort
          <5>3. \A i \in {1, 2}, n \in 0..2 : i + 1 > n /\ i <= n => i = n /\ n # 0
            OBVIOUS
          <5>4. run[w].i = Len(run[w].plan) /\ run[w].plan # <<>>
            BY <5>1, <5>2, <5>3
          <5>5. Tool(w) = FinalTool(at[w])
            BY <1>6, <2>0, <4>3, <5>4 DEF PlanFits, Tool
          <5> QED
            BY <1>5, <1>6, <4>1, <4>2, <4>3, <4>5, <5>5
        <4>6. CASE l # "check"
          BY <1>5, <1>6, <4>2, <4>3, <4>4, <4>6
        <4> QED
          BY <4>5, <4>6
      <3>6. CASE \/ Check(w) \/ Request(w) \/ Resume(w) \/ Finish(w)
                 \/ PauseBudget(w) \/ PauseApproval(w) \/ End(w) \/ Throw(w)
        <4>1. pc'[w] \notin {"record", "settle"}
          <5>1. Check(w) => pc'[w] \notin {"record", "settle"}
            BY <1>2, <2>0, CheckMoves, MovesPoint
          <5>2. Request(w) \/ Resume(w) => pc'[w] \notin {"record", "settle"}
            BY <1>2, <2>0, RequestMoves, ResumeMoves, MovesPoint
          <5>3. Finish(w) => pc'[w] \notin {"record", "settle"}
            BY <1>2, <2>0, FinishMoves, MovesPoint
          <5>4. PauseBudget(w) \/ PauseApproval(w) => pc'[w] \notin {"record", "settle"}
            BY <1>2, <2>0, PauseMoves, MovesPoint
          <5>5. End(w) \/ Throw(w) => pc'[w] \notin {"record", "settle"}
            BY <1>2, <2>0, EndMoves, MovesPoint
          <5> QED
            BY <3>6, <5>1, <5>2, <5>3, <5>4, <5>5
        <4>2. at'[w] = at[w] /\ run'[w].plan = run[w].plan /\ run'[w].i = run[w].i
          <5>1. ~Settle(w) /\ ~(\E q \in Orders : Take(w, q))
            BY <3>6 DEF Settle, Take, Check, Request, Resume, Finish, PauseBudget,
                        PauseApproval, End, Throw
          <5> QED
            BY <1>6, <2>0, <2>2, <5>1, PlansKept
        <4>3. Passed(w)
          BY <1>6, <4>1, <4>2
        <4> QED
          BY <1>5, <1>6, <4>2, <4>3
      <3>7. CASE \E q \in Orders : Take(w, q)
        <4>1. pc'[w] = "check" /\ run'[w].i = 1
          BY <1>2, <2>0, <3>7, TakeMoves, MovesPoint
        <4> QED
          BY <3>1, <3>7, <4>1
      <3> QED
        BY <2>2, <3>2, <3>3, <3>4, <3>5, <3>6, <3>7 DEF Work
    <2>3. ASSUME NEW v \in Workers, Work(v) \/ Crash(v) \/ Stall(v), v # w \/ ~Work(w)
          PROVE  at'[w] = at[w] /\ pc'[w] = pc[w] /\ run'[w] = run[w]
      <3>1. CASE v # w
        BY <2>3, <3>1, OthersKept
      <3>2. CASE v = w /\ Crash(w)
        BY <1>2, <1>6, <2>0, <3>2, LeaveMoves, MovesPoint DEF Crash
      <3>3. CASE v = w /\ Stall(w)
        BY <3>3 DEF Stall, procVars
      <3> QED
        BY <2>3, <3>1, <3>2, <3>3
    <2>4. ASSUME \/ UNCHANGED vars
                 \/ \E c \in Clerks : Serve(c)
                 \/ Outside /\ ~(\E v \in Workers : Crash(v) \/ Stall(v))
          PROVE  at'[w] = at[w] /\ pc'[w] = pc[w] /\ run'[w] = run[w]
      BY <2>4, WorkersKept
    <2> QED
      BY <2>1, <2>2, <2>3, <2>4 DEF Next
  <1>7. ASSUME NEW w \in Workers, at'[w] # NoOrder, Answered(w)' \/ Passed(w)'
        PROVE  Fulfilled(at[w])'
    <2>1. PICK o \in Orders : at'[w] = o
      BY <1>2, <1>7 DEF ProcType, Procs
    <2>2. Fulfilled(o)'
      BY <1>6, <1>7, <2>1
    <2> QED
      BY <2>1, <2>2 DEF Fulfilled
  <1> QED
    BY <1>3, <1>4, <1>7 DEF WorkStands

\* An order that is recorded completed had its work done.
THEOREM CompletedWorkDone == Spec => []CompletedIsDone
  <1> DEFINE I == Started /\ PlanFits /\ SteadyInv
  <1>1. Init => I
    <2> SUFFICES ASSUME Init PROVE I
      OBVIOUS
    <2>1. \A p \in Procs : at[p] = NoOrder /\ pc[p] = "idle"
      BY DEF Init
    <2>2. Started
      BY <2>1 DEF Init, Started, NoJob
    <2>3. PlanFits /\ ToolCleared
      BY <2>1 DEF PlanFits, ToolCleared, Procs
    <2>4. WorkStands
      <3>1. \A o \in Orders : status[o] # "completed"
        BY DEF Init
      <3>2. \A o \in Orders, i \in {1, 2} : action[<<o, i, FinalTool(o)>>] # "completed"
        <4>1. \A o \in Orders, i \in {1, 2} : <<o, i, FinalTool(o)>> \in Keys
          BY DEF Keys, Tools, FinalTool
        <4> QED
          BY <4>1 DEF Init
      <3> QED
        BY <2>1, <3>1, <3>2 DEF WorkStands, Procs
    <2> QED
      BY <2>2, <2>3, <2>4 DEF SteadyInv
  <1>2. ASSUME FullType, JobHeld, I, [Next]_vars PROVE I'
    <2>1. FullType' /\ JobHeld'
      BY <1>2, StepKeepsType
    <2>2. Started' /\ PlanFits'
      BY <1>2, StartedStep, PlanFitsStep
    <2>3. ASSUME Steady' PROVE ToolCleared' /\ WorkStands'
      <3>1. Steady /\ policy' = policy
        BY <1>2, <2>1, <2>3, SteadyBefore
      <3>2. ToolCleared /\ WorkStands
        BY <1>2, <3>1 DEF SteadyInv
      <3> QED
        BY <1>2, <2>1, <2>2, <3>1, <3>2, ToolClearedStep, WorkStandsStep
    <2> QED
      BY <2>2, <2>3 DEF SteadyInv
  <1>3. I => CompletedIsDone
    BY DEF SteadyInv, Steady, WorkStands, Fulfilled, CompletedIsDone
  <1>4. Init => FullType /\ JobHeld
    BY InitType
  <1>5. FullType /\ JobHeld /\ I /\ [Next]_vars => (FullType /\ JobHeld /\ I)'
    BY <1>2, StepKeepsType
  <1> HIDE DEF I
  <1> QED
    BY <1>1, <1>3, <1>4, <1>5, PTL DEF Spec
=============================================================================
