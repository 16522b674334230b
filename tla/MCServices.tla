----------------------------- MODULE MCServices -----------------------------
(***************************************************************************)
(* Six parts of the system that share no state, checked side by side: a    *)
(* behaviour picks one of Services in its first state and runs it alone.   *)
(***************************************************************************)
EXTENDS Naturals, Sequences, FiniteSets, TLC

CONSTANTS
    Services,       \* the parts a run explores
    \* JobLedger
    Callers, MaxIntents, MaxEnsures, MaxAttempts, MaxLosses,
    \* AiGateway
    Turns, Procs, Preference, Threshold, Limit, Rounds, MaxTurns, MaxCools, MaxCrashes,
    \* DialerCall
    Legs, Runners, MaxDeaths,
    \* InboxSync
    MaxMail, Cadences, Runs, ReadLimit, MaxRuns, MaxMoves, MaxFaults,
    \* ResearchRun
    Requests, Slots, Found, Queries, PassesPerSlice, MaxTries, MaxStarts, MaxPauses, MaxTroubles,
    \* ImportBatch
    RowCount, ChunkSize, Hands, MaxMishaps,
    \* model values of Preference
    m1, m2

ASSUME ServiceAssumption ==
    /\ IsFiniteSet(Turns) /\ Limit \in Nat /\ Rounds \in Nat
    /\ MaxMail \in Nat /\ ReadLimit \in Nat \ {0}
ASSUME RunAssumption == {Queries, MaxTries} \subseteq Nat /\ {"none", "dead"} \cap Slots = {}
ASSUME ImportAssumption == RowCount \in Nat /\ IsFiniteSet(Hands) /\ "request" \notin Hands
ASSUME ServicesAssumption ==
    Services \subseteq {"jobs", "ai", "dialer", "inbox", "research", "imports"}
ASSUME JobAssumption == MaxAttempts \in Nat \ {0} /\ {MaxIntents, MaxEnsures, MaxLosses} \subseteq Nat

VARIABLES
    service,        \* the part this behaviour runs
    \* JobLedger
    row, job, attempt, at, step, owed, intents, ensures, cancelled, losses,
    \* AiGateway
    local, shared, lease, turn, used, reserved, stranded, over, begun, cools, crashes, cancels,
    \* DialerCall
    call, web, line, event, run, cron, logs, dials, answered, unlogged, deaths,
    \* InboxSync
    arrived, kind, known, cursor, stored, classified, cadence, started, lead, sync,
    counted, bounced, woken, unplaceable, reread, syncs, moves, faults,
    \* ResearchRun
    status, position, pausing, warm, startedAt, found, queue, ask, slice,
    searched, doubled, unqueued, muted, asks, pauses, troubles,
    \* ImportBatch
    target, batch, policy, entry, out, redis, waiting, hand, dropped, twice, mishaps

Jobs == INSTANCE JobLedger
Ai == INSTANCE AiGateway
Dialer == INSTANCE DialerCall
Inbox == INSTANCE InboxSync
Research == INSTANCE ResearchRun
Imports == INSTANCE ImportBatch

ASSUME GatewayAssumption ==
    Threshold \in Nat /\ Preference \in Seq(Ai!Models) /\ Preference # <<>>

jobs == <<row, job, attempt, at, step, owed, intents, ensures, cancelled, losses>>
ai == <<local, shared, lease, turn, used, reserved, stranded, over, begun, cools, crashes, cancels>>
dialer == <<call, web, line, event, run, cron, logs, dials, answered, unlogged, deaths>>
mailbox == <<arrived, kind, known, cursor, stored, classified, cadence, started, lead, sync,
             counted, bounced, woken, unplaceable, reread, syncs, moves, faults>>
research == <<status, position, pausing, warm, startedAt, found, queue, ask, slice,
              searched, doubled, unqueued, muted, asks, pauses, troubles>>
imports == <<target, batch, policy, entry, out, redis, waiting, hand, dropped, twice, mishaps>>
vars == <<service, jobs, ai, dialer, mailbox, research, imports>>

Init ==
    /\ service \in Services
    /\ Jobs!Init /\ Ai!Init /\ Dialer!Init /\ Inbox!Init
    /\ Research!Init /\ Imports!Init
    \* A part that does not run begins in one state only.
    /\ service # "inbox" => known /\ \A m \in 1 .. MaxMail : kind[m] = "reply"
    /\ service # "imports" => redis /\ target = "lead" /\ policy = "skip"
                               /\ \A r \in 1 .. RowCount : entry[r].kind = "fresh"
    \* The rest keeps the run small: one message is a reply, one row of the file is fresh, and
    \* a file with a refused row, or whose known rows are merged or forced, is a file of leads
    \* with a queue at hand.
    /\ \E m \in 1 .. MaxMail : kind[m] = "reply"
    /\ entry[RowCount].kind = "fresh"
    /\ policy # "skip" => redis /\ target = "lead" /\ \E r \in 1 .. RowCount : entry[r].kind = "known"
    /\ target = "pool" => redis
    /\ (\E r \in 1 .. RowCount : entry[r].kind = "bad") => redis /\ target = "lead"

Next ==
    \/ /\ service = "jobs" /\ Jobs!Next
       /\ UNCHANGED <<service, ai, dialer, mailbox, research, imports>>
    \/ /\ service = "ai" /\ Ai!Next
       /\ UNCHANGED <<service, jobs, dialer, mailbox, research, imports>>
    \/ /\ service = "dialer" /\ Dialer!Next
       /\ UNCHANGED <<service, jobs, ai, mailbox, research, imports>>
    \/ /\ service = "inbox" /\ Inbox!Next
       /\ UNCHANGED <<service, jobs, ai, dialer, research, imports>>
    \/ /\ service = "research" /\ Research!Next
       /\ UNCHANGED <<service, jobs, ai, dialer, mailbox, imports>>
    \/ /\ service = "imports" /\ Imports!Next
       /\ UNCHANGED <<service, jobs, ai, dialer, mailbox, research>>

Spec == Init /\ [][Next]_vars

\* The parts take their sets from the same few names, so that two permutations serve them
\* all: no part orders its callers, turns, legs, workers, requests or sequences.
Alike == Permutations(Callers \cup Turns \cup Legs \cup Runs \cup Requests \cup Found)
           \cup Permutations(Procs \cup Runners \cup Cadences \cup Slots \cup Hands)

\* The state of the part that runs; the others stay as they began.
Alone == <<service, CASE service = "jobs" -> jobs
                      [] service = "ai" -> ai
                      [] service = "dialer" -> dialer
                      [] service = "inbox" -> mailbox
                      [] service = "research" -> research
                      [] service = "imports" -> imports>>
Pref == <<m1, m2>>

\* The properties of each part, under names a configuration can list.
TypeOK ==
    CASE service = "jobs" -> Jobs!TypeOK
      [] service = "ai" -> Ai!TypeOK
      [] service = "dialer" -> Dialer!TypeOK
      [] service = "inbox" -> Inbox!TypeOK
      [] service = "research" -> Research!TypeOK
      [] service = "imports" -> Imports!TypeOK
IntentsRun == service = "jobs" => Jobs!IntentsRun
CapHolds == service = "ai" => Ai!CapHolds
NothingStaysHeld == service = "ai" => Ai!NothingStaysHeld
CooledCanBeProbed == service = "ai" => Ai!CooledCanBeProbed
DialledOnce == service = "dialer" => Dialer!DialledOnce
CompletedWasAnswered == service = "dialer" => Dialer!CompletedWasAnswered
EndedIsLogged == service = "dialer" => Dialer!EndedIsLogged
CursorCovers == service = "inbox" => Inbox!CursorCovers
AppliedOnce == service = "inbox" => Inbox!AppliedOnce
ReplyStopsCadences == service = "inbox" => Inbox!ReplyStopsCadences
OptOutIsHeard == service = "inbox" => Inbox!OptOutIsHeard
WorkedByOne == service = "research" => Research!WorkedByOne
SuccessIsComplete == Research!SuccessIsComplete
OnePerRow == service = "imports" => Imports!OnePerRow
SettledIsWhole == service = "imports" => Imports!SettledIsWhole
=============================================================================
