--------------------------- MODULE OutreachLaunch ---------------------------
(***************************************************************************)
(* Starting an agent's cadence on a prospect (lib/prospects/outreach.ts    *)
(* with lib/sequences/enrollment.ts), while replies hand the prospect to a *)
(* person (lib/replies/handling.ts), an SDR switches it to another         *)
(* sequence, and an SDR hands it back (lib/prospects/reengagement.ts).     *)
(*                                                                         *)
(* All of them move Lead.operatingState through ProspectTransition, whose  *)
(* callers they are.  Enrollments are named by what created them: a launch *)
(* by its work order (the row's id is derived from it), the SDR's "human". *)
(***************************************************************************)
EXTENDS ProspectTransition

CONSTANTS
    Agents, Inbound, Sdrs,   \* the callers, by what they run
    Orders,                  \* work orders that may launch outreach
    Events,                  \* inbound events
    AgentSeq, HumanSeq,      \* the designated sequence, and the one an SDR switches to
    MaxLaunches, MaxOthers   \* bounds: launch attempts, and calls of every other kind

VARIABLES
    proc,       \* what each caller does outside applyTransition
    enr,        \* SequenceEnrollment rows
    launch,     \* SequenceLaunch.stage of each order, "none" without a row
    task,       \* the first task of each launch, by its deterministic id
    job,        \* its delayed job
    touches,    \* history: opening emails sent for each order
    tries       \* calls begun so far: launches, and the others

lvars == <<proc, enr, launch, task, job, touches, tries>>
vars  == <<tvars, lvars>>

NoSeq == "none"
Enrollments == Orders \cup {"human"}

\* The rows of work orders are not the SDR's, and the transition keys include
\* those that launches and replies derive.
ASSUME OutreachAssumption ==
    /\ Agents \cup Inbound \cup Sdrs \subseteq Callers
    /\ {AgentSeq, HumanSeq, NoSeq} \subseteq Sequences_
    /\ "human" \notin Orders
    /\ \A o \in Orders : <<"ai_managed", o>> \in Occurrences
    /\ \A e \in Events : {<<"handoff", e>>, <<"stop", e>>} \subseteq Occurrences
    /\ MaxLaunches \in Nat /\ MaxOthers \in Nat

SeqFor(e) == IF e = "human" THEN HumanSeq ELSE AgentSeq
Stages == <<"none", "claimed", "enrolled", "state_applied", "task_created", "completed">>
StageNo(s) == CHOOSE i \in 1 .. Len(Stages) : Stages[i] = s

Occupying == {"active", "paused"}
Held == {e \in Enrollments : enr[e].status \in Occupying}
Blocking == {"human_attention", "human_managed", "completed"}

Off == [at |-> "idle", arg |-> "none", target |-> "none", saw |-> "none"]

TypeOK ==
    /\ LedgerTypeOK
    /\ enr \in [Enrollments -> [status : {"none", "active", "paused", "unenrolled"}, step : 1 .. 2]]
    /\ launch \in [Orders -> {Stages[i] : i \in 1 .. Len(Stages)}]
    /\ task \in [Orders -> {"none", "pending", "done", "skipped"}]
    /\ job \in [Orders -> {"none", "queued", "ran"}]
    /\ touches \in [Orders -> Nat]
    /\ tries.launch \in 0 .. MaxLaunches /\ tries.other \in 0 .. MaxOthers
    /\ \A p \in Callers : proc[p].arg \in Enrollments \cup Events \cup {"none", "request"}

Init ==
    /\ \E s \in {"ready_for_outreach", "human_attention"} : LedgerInit(s, AgentSeq)
    /\ proc = [p \in Callers |-> Off]
    /\ enr = [e \in Enrollments |-> [status |-> "none", step |-> 1]]
    /\ launch = [o \in Orders |-> "none"]
    /\ task = [o \in Orders |-> "none"]
    /\ job = [o \in Orders |-> "none"]
    /\ touches = [o \in Orders |-> 0]
    /\ tries = [launch |-> 0, other |-> 0]

Another == tries.other < MaxOthers /\ tries' = [tries EXCEPT !.other = @ + 1]

Step(p, phase) == proc' = [proc EXCEPT ![p].at = phase]
Throw(p)       == proc' = [proc EXCEPT ![p] = Off]

-----------------------------------------------------------------------------
(* launchAIOutreach.                                                       *)

\* assessLaunchEligibility. A live cadence may be resumed only when it is the
\* very row this launch derives; any refusal leaves nothing behind.
Eligible(o) ==
    LET active == {e \in Held : enr[e].status = "active"} IN
    \/ (o \in active /\ launch[o] # "none" /\ state \in {"ready_for_outreach", "ai_managed"})
    \/ (Held = {} /\ state = "ready_for_outreach")

Launch(a, o) ==
    /\ proc[a].at = "idle" /\ tries.launch < MaxLaunches
    /\ Eligible(o)
    /\ proc' = [proc EXCEPT ![a] = [Off EXCEPT !.at = "claim", !.arg = o]]
    /\ tries' = [tries EXCEPT !.launch = @ + 1]
    /\ UNCHANGED <<tvars, enr, launch, task, job, touches>>

\* claimLaunch: the row is unique per order, a loser goes on with the winner's.
ClaimLaunch(a) ==
    LET o == proc[a].arg IN
    /\ proc[a].at = "claim"
    /\ launch' = [launch EXCEPT ![o] = IF @ = "none" THEN "claimed" ELSE @]
    /\ Step(a, "prepare")
    /\ UNCHANGED <<tvars, enr, task, job, touches, tries>>

\* The reads of prepareEnrollment in cold_launch mode.
Prepare(a) ==
    LET o == proc[a].arg IN
    /\ proc[a].at = "prepare"
    /\ \/ /\ enr[o].status = "active" /\ state \notin Blocking
          /\ Step(a, "book")
       \/ /\ Held = {} /\ enr[o].status = "none" /\ state \notin Blocking
          /\ Step(a, "insert")
       \/ /\ \/ state \in Blocking
             \/ enr[o].status \in {"paused", "unenrolled"}
             \/ (enr[o].status = "none" /\ Held # {})
          /\ Throw(a)
    /\ UNCHANGED <<tvars, enr, launch, task, job, touches, tries>>

\* Mutant: the key is derived from the enrollment instead of the lead and the sequence.
KeyPerRow(e) == e \notin Held

\* The unique occupancy key of (lead, sequence) is free.
KeyFree(e) == \A f \in Held : SeqFor(f) # SeqFor(e)

InsertActive(e) == enr' = [enr EXCEPT ![e].status = "active"]

InsertEnrollment(a) ==
    LET o == proc[a].arg IN
    /\ proc[a].at = "insert"
    /\ \/ /\ enr[o].status = "none" /\ KeyFree(o)
          /\ InsertActive(o) /\ Step(a, "recheck")
       \/ /\ enr[o].status \in Occupying
          /\ Step(a, "book") /\ UNCHANGED enr
       \/ /\ \/ enr[o].status = "unenrolled"
             \/ (enr[o].status = "none" /\ ~KeyFree(o))
          /\ Throw(a) /\ UNCHANGED enr
    /\ UNCHANGED <<tvars, launch, task, job, touches, tries>>

\* Mutant: the release writes a status the schema does not have.
ReleaseToNull(e) == enr' = [enr EXCEPT ![e].status = "released"]

Release(e) == enr' = [enr EXCEPT ![e].status = IF @ \in Occupying THEN "unenrolled" ELSE @]

\* The read after the insert: a person's cadence that got in between wins.
Recheck(a) ==
    LET o == proc[a].arg IN
    /\ proc[a].at = "recheck"
    /\ \/ Held \ {o} = {} /\ Step(a, "book") /\ UNCHANGED enr
       \/ Held \ {o} # {} /\ Release(o) /\ Throw(a)
    /\ UNCHANGED <<tvars, launch, task, job, touches, tries>>

\* The write-time contract of cold_launch with the human designation.
StillDesignated(o) == seqOf = SeqFor(o)

Book(a) ==
    LET o == proc[a].arg IN
    /\ proc[a].at = "book"
    /\ \/ /\ StillDesignated(o)
          /\ proc' = [proc EXCEPT ![a].at = "advance", ![a].target = "enrolled"]
          /\ UNCHANGED enr
       \/ ~StillDesignated(o) /\ Release(o) /\ Throw(a)
    /\ UNCHANGED <<tvars, launch, task, job, touches, tries>>

\* advanceLaunch reads the stage, then updates the row by its id alone.
AdvanceRead(a) ==
    /\ proc[a].at = "advance"
    /\ proc' = [proc EXCEPT ![a].at = "advancing", ![a].saw = launch[proc[a].arg]]
    /\ UNCHANGED <<tvars, enr, launch, task, job, touches, tries>>

\* Mutant: the first step is opened before the prospect is marked.
OpensFirst == [enrolled |-> "open", state_applied |-> "schedule",
               task_created |-> "owned", completed |-> "idle"]

AfterStage == [enrolled |-> "owned", state_applied |-> "open",
               task_created |-> "schedule", completed |-> "idle"]

AdvanceWrite(a) ==
    LET o == proc[a].arg t == proc[a].target IN
    /\ proc[a].at = "advancing"
    /\ launch' = [launch EXCEPT ![o] = IF StageNo(t) > StageNo(proc[a].saw) THEN t ELSE @]
    /\ proc' = [proc EXCEPT ![a] = IF t = "completed" THEN Off
                                   ELSE [Off EXCEPT !.at = AfterStage[t], !.arg = o]]
    /\ UNCHANGED <<tvars, enr, task, job, touches, tries>>

Advance(a, stage) == proc' = [proc EXCEPT ![a].at = "advance", ![a].target = stage]

\* The last look before the prospect becomes the agent's, then
\* markProspectAIManaged with the designation as the guard of its write.
CheckOwned(a) ==
    LET o == proc[a].arg IN
    /\ proc[a].at = "owned"
    /\ \/ /\ enr[o].status = "active" /\ StillDesignated(o)
          /\ Begin(a, <<"ai_managed", o>>, SeqFor(o))
          /\ Step(a, "marking")
       \/ /\ enr[o].status # "active" \/ ~StillDesignated(o)
          /\ Throw(a) /\ UNCHANGED call
    /\ UNCHANGED <<state, seqOf, ledger, ran, wrote, crashes,
                   enr, launch, task, job, touches, tries>>

Marked(a) ==
    /\ proc[a].at = "marking" /\ Returned(a)
    /\ IF call[a].at = "refused" THEN Throw(a) ELSE Advance(a, "state_applied")
    /\ call' = [call EXCEPT ![a] = Rest]
    /\ UNCHANGED <<state, seqOf, ledger, ran, wrote, crashes,
                   enr, launch, task, job, touches, tries>>

\* finalizeFirstStep re-reads the occurrence; past step one it leaves it alone.
OpenFirstStep(a) ==
    LET o == proc[a].arg IN
    /\ proc[a].at = "open"
    /\ \/ enr[o].status # "active" /\ Throw(a)
       \/ enr[o].status = "active" /\ enr[o].step > 1 /\ Advance(a, "completed")
       \/ enr[o].status = "active" /\ enr[o].step = 1 /\ task[o] # "none" /\ Step(a, "schedule")
       \/ enr[o].status = "active" /\ enr[o].step = 1 /\ task[o] = "none" /\ Step(a, "create")
    /\ UNCHANGED <<tvars, enr, launch, task, job, touches, tries>>

\* The deterministic id: a second creator finds the row of the first.
TaskAfterCreate(o) == IF task[o] = "none" THEN "pending" ELSE task[o]

CreateTask(a) ==
    LET o == proc[a].arg IN
    /\ proc[a].at = "create"
    /\ task' = [task EXCEPT ![o] = TaskAfterCreate(o)]
    /\ Advance(a, "task_created")
    /\ UNCHANGED <<tvars, enr, launch, job, touches, tries>>

\* applyStepScheduling, strict: nothing is queued unless the enrollment is still
\* the active one; ensureJob never revives a job that ran.
Schedule(a) ==
    LET o == proc[a].arg IN
    /\ proc[a].at = "schedule"
    /\ \/ /\ enr[o].status = "active"
          /\ job' = [job EXCEPT ![o] = IF @ = "none" THEN "queued" ELSE @]
          /\ Advance(a, "completed")
       \/ enr[o].status # "active" /\ Throw(a) /\ UNCHANGED job
    /\ UNCHANGED <<tvars, enr, launch, task, touches, tries>>

AgentStep(a) ==
    \/ \E o \in Orders : Launch(a, o)
    \/ ClaimLaunch(a) \/ Prepare(a) \/ InsertEnrollment(a) \/ Recheck(a) \/ Book(a)
    \/ AdvanceRead(a) \/ AdvanceWrite(a) \/ CheckOwned(a) \/ Marked(a)
    \/ OpenFirstStep(a) \/ CreateTask(a) \/ Schedule(a)

\* The delayed job runs (workers/sequence.ts, modelled in Cadence): it sends only
\* for a pending task of an enrollment that is active.
RunJob(o) ==
    /\ job[o] = "queued"
    /\ job' = [job EXCEPT ![o] = "ran"]
    /\ \/ /\ task[o] = "pending" /\ enr[o].status = "active"
          /\ task' = [task EXCEPT ![o] = "done"]
          /\ enr' = [enr EXCEPT ![o].step = 2]
          /\ touches' = [touches EXCEPT ![o] = @ + 1]
       \/ /\ task[o] # "pending" \/ enr[o].status # "active"
          /\ UNCHANGED <<task, enr, touches>>
    /\ UNCHANGED <<tvars, proc, launch, tries>>

-----------------------------------------------------------------------------
(* A reply, classified: the cadences stop first, then ownership moves.     *)

SkipTasks(rows) ==
    task' = [o \in Orders |-> IF o \in rows /\ task[o] = "pending" THEN "skipped" ELSE task[o]]

\* applyHumanHandoff: every running cadence of the lead is paused.
Reply(r, e) ==
    LET running == {x \in Enrollments : enr[x].status = "active"} IN
    /\ proc[r].at = "idle" /\ Another
    /\ ledger[<<"handoff", e>>].status # "completed"
    /\ enr' = [x \in Enrollments |-> IF x \in running THEN [enr[x] EXCEPT !.status = "paused"]
                                                      ELSE enr[x]]
    /\ SkipTasks(running)
    /\ proc' = [proc EXCEPT ![r] = [Off EXCEPT !.at = "handoff", !.arg = e]]
    /\ UNCHANGED <<tvars, launch, job, touches>>

\* The cadence the lead points at once those of one sequence are gone.
NextSeq == IF Held = {} THEN {NoSeq} ELSE {SeqFor(e) : e \in Held}

\* applyStop: paused, then every cadence unenrolled.
StopReply(r, e) ==
    /\ proc[r].at = "idle" /\ Another
    /\ ledger[<<"stop", e>>].status # "completed"
    /\ enr' = [x \in Enrollments |-> IF x \in Held THEN [enr[x] EXCEPT !.status = "unenrolled"]
                                                   ELSE enr[x]]
    /\ SkipTasks(Held)
    /\ seqOf' = IF Held = {} THEN seqOf ELSE NoSeq
    /\ proc' = [proc EXCEPT ![r] = [Off EXCEPT !.at = "stop", !.arg = e]]
    /\ UNCHANGED <<state, ledger, call, ran, wrote, crashes, launch, job, touches>>

\* handoffProspectToHuman and stopProspectOutreach.
Hand(r) ==
    /\ proc[r].at \in {"handoff", "stop"}
    /\ Begin(r, <<proc[r].at, proc[r].arg>>, "any")
    /\ Step(r, "settling")
    /\ UNCHANGED <<state, seqOf, ledger, ran, wrote, crashes,
                   enr, launch, task, job, touches, tries>>

-----------------------------------------------------------------------------
(* The SDR.                                                                *)

\* requestHandback: the work order is found by a request key made of the lead
\* alone, so every request of a prospect's life has the same transition key.
RequestId == "request"

Handback(s) ==
    /\ proc[s].at = "idle" /\ Another
    /\ <<"handback", RequestId>> \in Occurrences
    /\ state \in HumanOwned
    /\ Begin(s, <<"handback", RequestId>>, "any")
    /\ proc' = [proc EXCEPT ![s] = [Off EXCEPT !.at = "settling", !.arg = RequestId]]
    /\ UNCHANGED <<state, seqOf, ledger, ran, wrote, crashes,
                   enr, launch, task, job, touches>>

\* A service call that moves the prospect and does nothing else.
Service(p, o) ==
    /\ proc[p].at = "idle" /\ Another
    /\ Kind(o) \in {"research", "ready", "waiting", "eligible", "restart"}
    /\ ledger[o].status # "completed"
    /\ Begin(p, o, "any")
    /\ proc' = [proc EXCEPT ![p] = [Off EXCEPT !.at = "settling"]]
    /\ UNCHANGED <<state, seqOf, ledger, ran, wrote, crashes,
                   enr, launch, task, job, touches>>

Settled(p) ==
    /\ proc[p].at = "settling" /\ Returned(p)
    /\ Throw(p)
    /\ call' = [call EXCEPT ![p] = Rest]
    /\ UNCHANGED <<state, seqOf, ledger, ran, wrote, crashes,
                   enr, launch, task, job, touches, tries>>

\* prepareEnrollment in human mode: the designated cadence is unenrolled ...
Switch(s) ==
    LET old == {e \in Held : SeqFor(e) = seqOf} IN
    /\ proc[s].at = "idle" /\ Another /\ enr["human"].status = "none" /\ state \notin Blocking
    /\ enr' = [e \in Enrollments |-> IF e \in old THEN [enr[e] EXCEPT !.status = "unenrolled"]
                                                  ELSE enr[e]]
    /\ SkipTasks(old)
    /\ proc' = [proc EXCEPT ![s] = [Off EXCEPT !.at = "relink", !.arg = "human", !.saw = seqOf]]
    /\ UNCHANGED <<tvars, launch, job, touches>>

\* ... the lead is pointed at what still runs, if it pointed at that cadence ...
Relink(s) ==
    /\ proc[s].at = "relink"
    /\ seqOf' \in IF seqOf \in {proc[s].saw, NoSeq} THEN NextSeq ELSE {seqOf}
    /\ Step(s, "closeall")
    /\ UNCHANGED <<state, ledger, call, ran, wrote, crashes,
                   enr, launch, task, job, touches, tries>>

\* ... whatever else occupies it is closed, without its tasks ...
CloseAll(s) ==
    /\ proc[s].at = "closeall"
    /\ enr' = [e \in Enrollments |-> IF e \in Held THEN [enr[e] EXCEPT !.status = "unenrolled"]
                                                   ELSE enr[e]]
    /\ Step(s, "enrol")
    /\ UNCHANGED <<tvars, launch, task, job, touches, tries>>

\* ... and the person's row is inserted, then the designation written.
Enrol(s) ==
    /\ proc[s].at = "enrol"
    /\ IF KeyFree("human") THEN InsertActive("human") /\ Step(s, "designate")
                           ELSE Throw(s) /\ UNCHANGED enr
    /\ UNCHANGED <<tvars, launch, task, job, touches, tries>>

Designate(s) ==
    /\ proc[s].at = "designate"
    /\ seqOf' = HumanSeq
    /\ Throw(s)
    /\ UNCHANGED <<state, ledger, call, ran, wrote, crashes,
                   enr, launch, task, job, touches, tries>>

SdrStep(s) == Handback(s) \/ Switch(s) \/ Relink(s) \/ CloseAll(s) \/ Enrol(s) \/ Designate(s)

-----------------------------------------------------------------------------
\* The process of a caller dies between two statements.
Crash(p) ==
    /\ proc[p].at # "idle" /\ crashes < MaxCrashes
    /\ crashes' = crashes + 1
    /\ call' = [call EXCEPT ![p] = Rest]
    /\ Throw(p)
    /\ UNCHANGED <<state, seqOf, ledger, ran, wrote, enr, launch, task, job, touches, tries>>

Transition(p) == LedgerStep(p) /\ UNCHANGED lvars

InboundStep(r) == Hand(r) \/ \E e \in Events : Reply(r, e) \/ StopReply(r, e)

Idle == \A p \in Callers : proc[p].at = "idle"

Next ==
    \/ \E p \in Callers : Transition(p) \/ Settled(p) \/ Crash(p)
    \/ \E p \in Callers, o \in Occurrences : Service(p, o)
    \/ \E a \in Agents : AgentStep(a)
    \/ \E r \in Inbound : InboundStep(r)
    \/ \E s \in Sdrs : SdrStep(s)
    \/ \E o \in Orders : RunJob(o)

Spec == Init /\ [][Next]_vars

-----------------------------------------------------------------------------
(* Properties.                                                             *)

\* "A crash never leaves a live cadence attached to a launch recorded as
\* unsuccessful" (outreach.ts:223): whatever may reach the prospect for a
\* launch, its ownership move was written and its enrollment recorded first.
LiveOnlyWhenOwned ==
    \A o \in Orders :
        task[o] # "none" \/ job[o] # "none" =>
            /\ <<"ai_managed", o>> \in wrote
            /\ launch[o] \notin {"none", "claimed"}

\* Two work orders, or two workers of one, never run two cadences on a lead
\* (enrollment.ts:293), and the opening email of a launch goes out once
\* (enrollment.ts:619).
OneOpening ==
    /\ \A o \in Orders : touches[o] <= 1
    /\ Cardinality({o \in Orders : enr[o].status = "active"}) <= 1

\* Nothing leaves human ownership without the SDR's explicit handback
\* (prospect-operating-state.test.ts:322); a stop takes it from everybody.
TakeoverIsKept ==
    [][(state \in HumanOwned /\ state' \in AIOwned) =>
          \E p \in Callers : call[p].at = "write" /\ Kind(call[p].occ) = "handback"]_vars

\* A prospect legitimately goes AI, human, AI, human (keys.ts:5): an SDR who
\* hands a human-owned prospect back is not told it was done long ago.
HandbackIsNotSwallowed ==
    \A s \in Sdrs :
        call[s].at = "inert" /\ Kind(call[s].occ) = "handback" => call[s].before \notin HumanOwned

\* The human always wins (enrollment.ts:89): the agent's cadence is never live
\* beside the one an SDR switched the lead to.
HumanCadenceWins ==
    enr["human"].status = "active" =>
        \A o \in Orders : ~(enr[o].status = "active" /\ task[o] = "pending" /\ job[o] = "queued")
=============================================================================
