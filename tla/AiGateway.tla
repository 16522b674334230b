----------------------------- MODULE AiGateway -----------------------------
(***************************************************************************)
(* The AI gateway: turns that route to a model, pass the circuit breaker,  *)
(* reserve budget for each attempt and settle it (lib/ai/gateway.ts,       *)
(* router.ts, circuitBreaker.ts, sharedCircuit.ts, budget.ts).             *)
(* Processes share the budget period and, through Redis, the circuits and  *)
(* the probe leases; each process has its own view of the circuits and its *)
(* own probe markers. A step is what runs between two awaits.              *)
(***************************************************************************)
EXTENDS Naturals, Sequences, SequencesExt, FiniteSetsExt

CONSTANTS
    Turns,          \* slots for gateway turns in flight
    Procs,          \* Node processes of the deployment
    Preference,     \* the routing tier: the models, best first
    Threshold,      \* consecutive failures that open a circuit
    Limit,          \* the tenant's cap, in units of one attempt's estimate
    Rounds,         \* provider streams one attempt may open (MAX_TOOL_ITERATIONS)
    MaxTurns,       \* bound: turns started
    MaxCools,       \* bound: times the 30-second reset passes
    MaxCrashes      \* bound: process crashes

VARIABLES
    local,          \* local[p][m]: a process's circuit and probe marker of a model
    shared,         \* shared[m]: the circuit record in Redis
    lease,          \* lease[m]: the probe lease in Redis is taken
    turn,           \* turn[t]: the turn in flight in slot t
    used,           \* usedMicros of the period
    reserved,       \* reservedMicros of the period
    stranded,       \* held reservation rows whose process is gone
    over,           \* history: what attempts charged beyond their estimates
    begun,          \* history: turns started
    cools,          \* history: resets passed
    crashes,        \* history: crashes
    cancels         \* history: streams their consumer abandoned

circuits == <<local, shared, lease>>
budget == <<used, reserved, stranded, over>>
history == <<begun, cools, crashes, cancels>>
vars == <<circuits, turn, budget, history>>

Models == ToSet(Preference)
States == {"CLOSED", "OPEN", "HALF_OPEN"}

\* fresh: the last failure is less than resetTimeoutMs old.
Closed == [state |-> "CLOSED", fails |-> 0, fresh |-> FALSE]
Unmarked(r) == [state |-> r.state, fails |-> r.fails, fresh |-> r.fresh, marker |-> FALSE]
Record(r) == [state |-> r.state, fails |-> r.fails, fresh |-> r.fresh]

\* at: what the turn does next; model and rest: the attempt, and the places in Preference
\* of the ones after it;
\* hold: its reservation; go: whether a fallback may follow; bill: what it cost.
Idle == [at |-> "idle", p |-> "none", model |-> Preference[1],
         rest |-> {}, hold |-> "none", go |-> FALSE, bill |-> 0, pub |-> Closed]

Init ==
    /\ local = [p \in Procs |-> [m \in Models |-> Unmarked(Closed)]]
    /\ shared = [m \in Models |-> Closed]
    /\ lease = [m \in Models |-> FALSE]
    /\ turn = [t \in Turns |-> Idle]
    /\ used = 0 /\ reserved = 0 /\ stranded = 0 /\ over = 0
    /\ begun = 0 /\ cools = 0 /\ crashes = 0 /\ cancels = 0

-----------------------------------------------------------------------------
\* The circuit breaker of one process.

\* isAvailable answers, and what it leaves behind: a cooled OPEN circuit becomes
\* HALF_OPEN, and a HALF_OPEN one gets the probe marker.
Cooled(r) == r.state = "HALF_OPEN" \/ (r.state = "OPEN" /\ ~r.fresh)
IsAvailable(r) == r.state = "CLOSED" \/ (Cooled(r) /\ ~r.marker)
Asked(r) == IF Cooled(r) THEN [r EXCEPT !.state = "HALF_OPEN", !.marker = TRUE] ELSE r

\* sync: the shared state wins, the higher failure count and the later failure stay.
Synced(r, s) ==
    [r EXCEPT !.state = s.state,
              !.fails = IF s.fails > @ THEN s.fails ELSE @,
              !.fresh = @ \/ s.fresh]

Succeeded(r) == [r EXCEPT !.state = "CLOSED", !.fails = 0, !.marker = FALSE]

Failed(r, limited) ==
    LET n == IF r.fails < Threshold THEN r.fails + 1 ELSE r.fails
    IN [state |-> IF limited \/ n >= Threshold THEN "OPEN" ELSE r.state,
        fails |-> n, fresh |-> TRUE, marker |-> FALSE]

-----------------------------------------------------------------------------
\* The loop over modelsToTry.

\* From view l, the loop asks the models at the places ahead, in their order, and stops at
\* the first available one; tryEnterHalfOpen sends a HALF_OPEN one to the lease.
Attempt(t, p, l, ahead) ==
    LET open == {k \in ahead : IsAvailable(l[Preference[k]])}
        i == Min(open)
        seen == {Preference[k] : k \in {j \in ahead : open = {} \/ j <= i}}
    IN /\ local' = [local EXCEPT ![p] =
                      [m \in Models |-> IF m \in seen THEN Asked(l[m]) ELSE l[m]]]
       /\ turn' = [turn EXCEPT ![t] =
             IF open = {} THEN Idle
             ELSE [Idle EXCEPT !.at = IF Cooled(l[Preference[i]]) THEN "lease" ELSE "claim",
                               !.p = p,
                               !.model = Preference[i],
                               !.rest = {k \in ahead : i < k}]]

\* The next model of turn t, whose view the step has changed to l.
TryNext(t, l) == Attempt(t, turn[t].p, l, turn[t].rest)

\* One turn starts: sync, then routeModel filters every model through isAvailable,
\* then the loop asks the survivors again.
Begin(t, p) ==
    LET synced == [m \in Models |-> Synced(local[p][m], shared[m])]
        eligible == {k \in DOMAIN Preference : IsAvailable(synced[Preference[k]])}
    IN /\ turn[t] = Idle
       /\ begun < MaxTurns
       /\ begun' = begun + 1
       /\ Attempt(t, p, [m \in Models |-> Asked(synced[m])], eligible)
       /\ UNCHANGED <<shared, lease, budget, cools, crashes, cancels>>

\* The process's view with the marker of turn t's model released.
Released(t) == [local[turn[t].p] EXCEPT ![turn[t].model].marker = FALSE]

\* tryAcquireProbeLease: SET NX. The loser releases its marker and moves on.
Lease(t) ==
    LET m == turn[t].model IN
    /\ turn[t].at = "lease"
    /\ IF lease[m]
         THEN TryNext(t, Released(t)) /\ lease' = lease
         ELSE /\ lease' = [lease EXCEPT ![m] = TRUE]
              /\ turn' = [turn EXCEPT ![t].at = "claim"]
              /\ local' = local
    /\ UNCHANGED <<shared, budget, history>>

\* No price resolves for the model: exitHalfOpen, then the next model.
Skip(t) ==
    /\ turn[t].at = "claim"
    /\ lease' = [lease EXCEPT ![turn[t].model] = FALSE]
    /\ TryNext(t, Released(t))
    /\ UNCHANGED <<shared, budget, history>>

\* The turn ends without a call: exitHalfOpen, then the error to the caller.
Refuse(t) ==
    /\ local' = [local EXCEPT ![turn[t].p] = Released(t)]
    /\ lease' = [lease EXCEPT ![turn[t].model] = FALSE]
    /\ turn' = [turn EXCEPT ![t] = Idle]

\* Mutant: the gate counts settled spend only.
ClaimAgainstUsed(t) ==
    /\ turn[t].at = "claim"
    /\ IF used + 1 <= Limit
         THEN /\ reserved' = reserved + 1
              /\ turn' = [turn EXCEPT ![t].at = "insert", ![t].hold = "claimed"]
              /\ UNCHANGED circuits
         ELSE Refuse(t) /\ reserved' = reserved /\ UNCHANGED shared
    /\ UNCHANGED <<used, stranded, over, history>>

\* The conditional UPDATE of checkAndReserveAiBudget.
Claim(t) ==
    /\ turn[t].at = "claim"
    /\ IF used + reserved + 1 <= Limit
         THEN /\ reserved' = reserved + 1
              /\ turn' = [turn EXCEPT ![t].at = "insert", ![t].hold = "claimed"]
              /\ UNCHANGED circuits
         ELSE Refuse(t) /\ reserved' = reserved /\ UNCHANGED shared
    /\ UNCHANGED <<used, stranded, over, history>>

\* Mutant: a failed INSERT gives the claim back and the call goes on.
InsertErrorSwallowed(t) ==
    /\ turn[t].at = "insert"
    /\ \/ turn' = [turn EXCEPT ![t].at = "call", ![t].hold = "held"] /\ reserved' = reserved
       \/ turn' = [turn EXCEPT ![t].at = "call", ![t].hold = "none"] /\ reserved' = reserved - 1
    /\ UNCHANGED <<circuits, used, stranded, over, history>>

\* The reservation row; when the INSERT fails the claim is given back.
Insert(t) ==
    /\ turn[t].at = "insert"
    /\ \/ /\ turn' = [turn EXCEPT ![t].at = "call", ![t].hold = "held"]
          /\ UNCHANGED <<circuits, reserved>>
       \/ /\ Refuse(t)
          /\ reserved' = reserved - 1
          /\ UNCHANGED shared
    /\ UNCHANGED <<used, stranded, over, history>>

\* The provider's answer: recorded in the local view, which publish captures.
Answer(t, outcome, cost, text) ==
    LET p == turn[t].p
        m == turn[t].model
        r == IF outcome = "ok" THEN Succeeded(local[p][m])
             ELSE Failed(local[p][m], outcome = "limited")
    IN /\ turn[t].at = "call"
       /\ local' = [local EXCEPT ![p][m] = r]
       /\ turn' = [turn EXCEPT ![t].at = "publish", ![t].pub = Record(r), ![t].bill = cost,
                               ![t].go = (outcome # "ok" /\ ~text)]
       /\ over' = IF cost > 1 THEN over + cost - 1 ELSE over
       /\ UNCHANGED <<shared, lease, used, reserved, stranded, history>>

\* Mutant: an abandoned stream keeps its hold.
CancelKeepsHold(t) ==
    /\ turn[t].at = "call"
    /\ turn' = [turn EXCEPT ![t] = Idle]
    /\ cancels' = cancels + 1
    /\ UNCHANGED <<circuits, used, reserved, stranded, over, begun, cools, crashes>>

\* The consumer disposes the generator in the middle of a stream: only the finally
\* block runs, which releases the hold at no cost.
Cancel(t) ==
    /\ turn[t].at = "call"
    /\ turn' = [turn EXCEPT ![t].at = "settle", ![t].go = FALSE, ![t].bill = 0]
    /\ cancels' = cancels + 1
    /\ UNCHANGED <<circuits, used, reserved, stranded, over, begun, cools, crashes>>

\* publish: the captured record replaces the shared one.
Publish(t) ==
    /\ turn[t].at = "publish"
    /\ shared' = [shared EXCEPT ![turn[t].model] = turn[t].pub]
    /\ turn' = [turn EXCEPT ![t].at = "exit"]
    /\ UNCHANGED <<local, lease, budget, history>>

\* exitHalfOpen: the marker, and the lease whoever holds it.
Exit(t) ==
    /\ turn[t].at = "exit"
    /\ local' = [local EXCEPT ![turn[t].p] = Released(t)]
    /\ lease' = [lease EXCEPT ![turn[t].model] = FALSE]
    /\ turn' = [turn EXCEPT ![t].at = "settle"]
    /\ UNCHANGED <<shared, budget, history>>

\* settle, first statement: the row leaves "held".
Settle(t) ==
    /\ turn[t].at = "settle"
    /\ turn' = [turn EXCEPT ![t].at = "total", ![t].hold = "settled"]
    /\ UNCHANGED <<circuits, budget, history>>

\* settle, second statement: the period; then a fallback, or the end of the turn.
Total(t) ==
    /\ turn[t].at = "total"
    /\ reserved' = reserved - 1
    /\ used' = used + turn[t].bill
    /\ IF turn[t].go THEN TryNext(t, local[turn[t].p])
                     ELSE turn' = [turn EXCEPT ![t] = Idle] /\ local' = local
    /\ UNCHANGED <<shared, lease, stranded, over, history>>

-----------------------------------------------------------------------------
\* Time and faults.

\* resetTimeoutMs passes: every failure is old, and every lease has run out.
Cool ==
    /\ cools < MaxCools
    /\ cools' = cools + 1
    /\ local' = [p \in Procs |-> [m \in Models |-> [local[p][m] EXCEPT !.fresh = FALSE]]]
    /\ shared' = [m \in Models |-> [shared[m] EXCEPT !.fresh = FALSE]]
    /\ lease' = [m \in Models |-> FALSE]
    /\ UNCHANGED <<turn, budget, begun, crashes, cancels>>

\* A process dies: its turns and its view are gone, its claims and rows are not.
Crash(p) ==
    LET mine == {t \in Turns : turn[t] # Idle /\ turn[t].p = p} IN
    /\ mine # {}
    /\ crashes < MaxCrashes
    /\ crashes' = crashes + 1
    /\ stranded' = stranded + Quantify(mine, LAMBDA t : turn[t].hold = "held")
    /\ turn' = [t \in Turns |-> IF t \in mine THEN Idle ELSE turn[t]]
    /\ local' = [local EXCEPT ![p] = [m \in Models |-> Unmarked(Closed)]]
    /\ UNCHANGED <<shared, lease, used, reserved, over, begun, cools, cancels>>

Next ==
    \/ \E t \in Turns :
         \/ \E p \in Procs : Begin(t, p)
         \/ Lease(t) \/ Skip(t) \/ Claim(t) \/ Insert(t)
         \/ \E outcome \in {"ok", "failed", "limited"}, cost \in 0 .. Rounds, text \in BOOLEAN :
              Answer(t, outcome, cost, text)
         \/ Cancel(t) \/ Publish(t) \/ Exit(t) \/ Settle(t) \/ Total(t)
    \/ Cool
    \/ \E p \in Procs : Crash(p)

Spec == Init /\ [][Next]_vars

-----------------------------------------------------------------------------
\* Properties.

Quiet == \A t \in Turns : turn[t] = Idle
Held == stranded + Quantify(Turns, LAMBDA t : turn[t].hold = "held")

\* Circuits, turns and the two totals of the period stay in their domains: neither
\* total is ever taken below zero by a settlement without its claim.
TypeOK ==
    /\ \A p \in Procs, m \in Models :
         local[p][m] \in [state : States, fails : 0 .. Threshold, fresh : BOOLEAN,
                          marker : BOOLEAN]
    /\ \A m \in Models : shared[m] \in [state : States, fails : 0 .. Threshold, fresh : BOOLEAN]
    /\ lease \in [Models -> BOOLEAN]
    /\ \A t \in Turns :
         /\ turn[t].at \in {"idle", "lease", "claim", "insert", "call", "publish", "exit",
                            "settle", "total"}
         /\ turn[t].hold \in {"none", "claimed", "held", "settled"}
         /\ (turn[t].at \in {"call", "publish", "exit", "settle"}) = (turn[t].hold = "held")
    /\ used >= 0 /\ reserved >= 0 /\ stranded >= 0

\* Spend and holds together never pass the tenant's cap by more than attempts billed
\* over their own estimates, whatever processes reserve, settle, fail and die in between:
\* the conditional UPDATE of budget.ts:283-289 is enough. And the period's total is never
\* less than the rows that hold budget, at any point of a claim, an insert, a settlement
\* or a crash between two of them: an interruption can deny spend, not permit it
\* (budget.ts:30-33).
CapHolds == used + reserved <= Limit + over /\ Held <= reserved

\* Whatever a turn took it gives back.  When no turn is in flight and no process has died,
\* nothing is reserved: answers, failures with and without text, fallbacks, refusals, failed
\* inserts and abandoned streams included (gateway.ts:305-309).  And unless a stream was
\* abandoned no model's recovery waits for a probe lease to run out: a lease is returned by
\* every turn that took it, not only by the outcome of a call (circuitBreaker.ts:232-239).
NothingStaysHeld ==
    Quiet /\ crashes = 0 =>
      reserved = 0 /\ (cancels = 0 => \A m \in Models : ~lease[m])

\* What AI_PROVIDER_RUNBOOK.md:46 says: after 30 seconds an open circuit lets a probe
\* through. When no turn is in flight in a process, no cooled circuit of it is marked as
\* being probed.
CooledCanBeProbed ==
    Quiet /\ cancels = 0 =>
      \A p \in Procs, m \in Models : Cooled(local[p][m]) => ~local[p][m].marker
=============================================================================
