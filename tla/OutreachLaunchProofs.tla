------------------------ MODULE OutreachLaunchProofs ------------------------
(***************************************************************************)
(* Proofs about OutreachLaunch and the transition ledger it writes         *)
(* through, for any number of callers, orders, events and sequences and    *)
(* any bound on launches, other calls and crashes.                         *)
(***************************************************************************)
EXTENDS OutreachLaunch, FiniteSetTheorems, TLAPS

(***************************************************************************)
(* Types.  TypeOK says of a caller only what its reader needs; the proofs  *)
(* need the whole record, and what its argument is in each phase.          *)
(***************************************************************************)
StageSet == {"none", "claimed", "enrolled", "state_applied", "task_created", "completed"}
Targets == {"enrolled", "state_applied", "task_created", "completed"}
AgentPhases == {"claim", "prepare", "insert", "recheck", "book", "advance", "advancing",
                "owned", "marking", "open", "create", "schedule"}
ProcPhases == AgentPhases \cup {"idle", "handoff", "stop", "settling", "relink", "closeall",
                                "enrol", "designate"}

Calls == [at : Phases, occ : Occurrences \cup {<<"none", "none">>},
          guard : Sequences_ \cup {"any"}, before : States,
          claimed : SUBSET Effects, todo : Seq(Effects)]

Procs == [at : ProcPhases, arg : Enrollments \cup Events \cup {"none", "request"},
          target : Targets \cup {"none"}, saw : StageSet \cup Sequences_]

CallType ==
    /\ call \in [Callers -> Calls]
    /\ \A p \in Callers :
        /\ call[p].at # "idle" => call[p].occ \in Occurrences
        /\ call[p].at = "run" => call[p].todo # <<>>

LedgerType ==
    /\ state \in States /\ seqOf \in Sequences_
    /\ ledger \in [Occurrences -> [status : Statuses, effects : SUBSET Effects]]
    /\ ran \in [Occurrences -> [Effects -> Nat]]
    /\ wrote \in SUBSET Occurrences
    /\ crashes \in 0 .. MaxCrashes
    /\ CallType

\* What the argument, the target and the value read are in each phase.
Fits(c) ==
    /\ c.at \in AgentPhases => c.arg \in Orders
    /\ c.at \in {"handoff", "stop"} => c.arg \in Events
    /\ c.at \in {"advance", "advancing"} => c.target \in Targets
    /\ c.at = "advancing" => c.saw \in StageSet

ProcType ==
    /\ proc \in [Callers -> Procs]
    /\ \A p \in Callers : Fits(proc[p])

LaunchType ==
    /\ enr \in [Enrollments -> [status : {"none", "active", "paused", "unenrolled"}, step : 1 .. 2]]
    /\ launch \in [Orders -> StageSet]
    /\ task \in [Orders -> {"none", "pending", "done", "skipped"}]
    /\ job \in [Orders -> {"none", "queued", "ran"}]
    /\ touches \in [Orders -> Nat]
    /\ tries \in [launch : 0 .. MaxLaunches, other : 0 .. MaxOthers]

FullType == LedgerType /\ ProcType /\ LaunchType

(***************************************************************************)
(* The ledger                                                              *)
(***************************************************************************)

\* The update that claims an effect is what one caller alone gets; whoever is
\* about to run an effect holds its claim, and it has not run.
OneRunsEach ==
    /\ \A o \in Occurrences, e \in Effects :
        /\ ran[o][e] <= 1
        /\ ran[o][e] = 1 => e \in ledger[o].effects
    /\ \A p \in Callers :
        call[p].at = "run" =>
            /\ Head(call[p].todo) \in ledger[call[p].occ].effects
            /\ ran[call[p].occ][Head(call[p].todo)] = 0
    /\ \A p, q \in Callers :
        /\ call[p].at = "run" /\ call[q].at = "run"
        /\ call[p].occ = call[q].occ /\ Head(call[p].todo) = Head(call[q].todo)
        => p = q

\* Past the write of the state, the state has been written.
PastWriteWasApplied ==
    /\ CompletedWasApplied
    /\ \A p \in Callers :
        call[p].at \in {"stamp", "effect", "run", "done", "inert"} => call[p].occ \in wrote

(***************************************************************************)
(* The launch                                                              *)
(***************************************************************************)
Enrolled(o) == launch[o] \notin {"none", "claimed"}
Owned(o) == <<"ai_managed", o>> \in wrote

\* Where an agent is in a launch, what is recorded of it.
PastEnrolled(p) ==
    \/ proc[p].at \in {"owned", "marking", "open", "create", "schedule"}
    \/ proc[p].at \in {"advance", "advancing"} /\ proc[p].target # "enrolled"

PastOwned(p) ==
    \/ proc[p].at \in {"open", "create", "schedule"}
    \/ proc[p].at \in {"advance", "advancing"} /\ proc[p].target # "enrolled"

InOrder(p) ==
    /\ proc[p].at = "advancing" /\ proc[p].saw \notin {"none", "claimed"} => Enrolled(proc[p].arg)
    /\ PastEnrolled(p) => Enrolled(proc[p].arg)
    /\ PastOwned(p) => Owned(proc[p].arg)
    /\ proc[p].at = "marking" =>
           call[p].at # "idle" /\ call[p].occ = <<"ai_managed", proc[p].arg>>

LaunchInOrder == \A p \in Callers : InOrder(p)

OneTouch == \A o \in Orders : touches[o] <= 1 /\ (job[o] # "ran" => touches[o] = 0)

OneHeld == \A x, y \in Orders : x \in Held /\ y \in Held => x = y

LaunchInv ==
    /\ OneRunsEach /\ PastWriteWasApplied
    /\ LaunchInOrder /\ LiveOnlyWhenOwned /\ OneTouch /\ OneHeld

-----------------------------------------------------------------------------
(* Types.                                                                  *)

\* The effects a transition owes are a nonempty sequence of effects.
LEMMA EffectsOfType == ASSUME NEW o PROVE EffectsOf(o) \in Seq(Effects) /\ EffectsOf(o) # <<>>
<1>1. <<"activity", "task", "notification">> \in Seq(Effects) /\ <<"activity">> \in Seq(Effects)
  BY DEF Effects
<1>2. <<"activity", "task", "notification">> # <<>> /\ <<"activity">> # <<>>
  OBVIOUS
<1> QED
  BY <1>1, <1>2 DEF EffectsOf

\* A call at rest is a call.
LEMMA RestType == Rest \in Calls /\ Rest.at = "idle"
BY DEF Rest, Calls, Phases, States, HumanOwned, AIOwned, Effects

\* Every transition leads to a state of the ladder.
LEMMA ToStateType ==
  ASSUME NEW o \in Occurrences
  PROVE  ToState(o) \in States
<1>1. Kind(o) \in Kinds
  BY LedgerAssumption
<1> QED
  BY <1>1 DEF ToState, Kinds, States, HumanOwned, AIOwned

\* A caller's record is replaced by one of the same type.
LEMMA CallUpdateType ==
  ASSUME CallType, NEW p \in Callers, NEW c \in Calls,
         c.at # "idle" => c.occ \in Occurrences, c.at = "run" => c.todo # <<>>,
         call' = [call EXCEPT ![p] = c]
  PROVE  CallType'
<1> USE DEF CallType
<1>1. call' \in [Callers -> Calls]
  OBVIOUS
<1>2. \A x \in Callers : call'[x] = IF x = p THEN c ELSE call[x]
  OBVIOUS
<1> QED
  BY <1>1, <1>2

\* Moving a call on keeps the calls well formed.
LEMMA GotoType ==
  ASSUME CallType, NEW p \in Callers, NEW l \in Phases \ {"run"},
         call[p].occ \in Occurrences, Goto(p, l)
  PROVE  CallType'
<1> DEFINE c == [call[p] EXCEPT !.at = l]
<1>1. c \in Calls /\ c.occ \in Occurrences /\ c.at # "run"
  BY DEF CallType, Calls
<1>2. call' = [call EXCEPT ![p] = c]
  BY DEF Goto
<1> QED
  BY <1>1, <1>2, CallUpdateType

\* applyTransition keeps the ledger in its types.
LEMMA LedgerStepType ==
  ASSUME LedgerType, NEW p \in Callers, LedgerStep(p)
  PROVE  LedgerType'
<1>0. /\ call[p] \in Calls /\ call[p].occ \in Occurrences /\ CallType
      /\ ledger[call[p].occ].effects \in SUBSET Effects
  BY DEF LedgerType, CallType, LedgerStep, Look, Insert, WriteState, Stamp, ClaimEffect,
     RunEffect, Complete
<1>1. CASE Look(p)
  <2>1. CallType'
    <3>1. CASE Resume(p, ledger[call[p].occ])
      <4> DEFINE c == [call[p] EXCEPT
            !.at = IF ledger[call[p].occ].status = "pending" THEN "write" ELSE "effect",
            !.claimed = ledger[call[p].occ].effects]
      <4>1. c \in Calls /\ c.occ \in Occurrences /\ c.at # "run"
        BY <1>0 DEF Calls, Phases
      <4>2. call' = [call EXCEPT ![p] = c]
        BY <3>1 DEF Resume
      <4> QED
        BY <1>0, <4>1, <4>2, CallUpdateType
    <3>2. CASE \E l \in {"inert", "refused", "insert"} : Goto(p, l)
      BY <1>0, <3>2, GotoType DEF Phases
    <3> QED
      BY <1>1, <3>1, <3>2 DEF Look
  <2> QED
    BY <1>1, <2>1 DEF Look, LedgerType
<1>2. CASE Insert(p)
  <2>1. CallType'
    BY <1>0, <1>2, GotoType DEF Insert, Phases
  <2> QED
    BY <1>0, <1>2, <2>1 DEF Insert, LedgerType, Statuses
<1>3. CASE WriteState(p)
  <2>1. CallType'
    BY <1>0, <1>3, GotoType DEF WriteState, Phases
  <2> QED
    BY <1>0, <1>3, <2>1, ToStateType DEF WriteState, LedgerType
<1>4. CASE Stamp(p)
  <2>1. CallType'
    BY <1>0, <1>4, GotoType DEF Stamp, Phases
  <2> QED
    BY <1>0, <1>4, <2>1 DEF Stamp, LedgerType, Statuses
<1>5. CASE ClaimEffect(p)
  <2> DEFINE e == Head(call[p].todo)
  <2>1. e \in Effects /\ Tail(call[p].todo) \in Seq(Effects)
    BY <1>0, <1>5 DEF ClaimEffect, Calls
  <2>2. CallType'
    <3> DEFINE c == [call[p] EXCEPT !.at = "run", !.claimed = @ \cup {e}]
               d == [call[p] EXCEPT !.todo = Tail(@)]
    <3>1. c \in Calls /\ c.occ \in Occurrences /\ c.todo # <<>>
      BY <1>0, <1>5, <2>1 DEF ClaimEffect, Calls, Phases
    <3>2. d \in Calls /\ d.occ \in Occurrences /\ d.at # "run"
      BY <1>0, <1>5, <2>1 DEF ClaimEffect, Calls
    <3>3. call' = [call EXCEPT ![p] = c] \/ call' = [call EXCEPT ![p] = d]
      BY <1>5 DEF ClaimEffect
    <3> HIDE DEF c, d
    <3> QED
      BY <1>0, <3>1, <3>2, <3>3, CallUpdateType
  <2>3. ledger' \in [Occurrences -> [status : Statuses, effects : SUBSET Effects]]
    <3>1. UNCHANGED ledger \/ ledger' = [ledger EXCEPT ![call[p].occ].effects = @ \cup {e}]
      BY <1>5 DEF ClaimEffect
    <3>2. ledger \in [Occurrences -> [status : Statuses, effects : SUBSET Effects]]
      BY DEF LedgerType
    <3> HIDE DEF e
    <3> QED
      BY <1>0, <2>1, <3>1, <3>2
  <2> QED
    BY <1>5, <2>2, <2>3 DEF ClaimEffect, LedgerType
<1>6. CASE RunEffect(p)
  <2> DEFINE e == Head(call[p].todo)
  <2>1. e \in Effects /\ Tail(call[p].todo) \in Seq(Effects)
    BY <1>0, <1>6 DEF RunEffect, Calls, CallType
  <2>2. CallType'
    <3> DEFINE c == [call[p] EXCEPT !.at = "effect", !.todo = Tail(@)]
    <3>1. c \in Calls /\ c.occ \in Occurrences /\ c.at # "run"
      BY <1>0, <2>1 DEF Calls, Phases
    <3>2. call' = [call EXCEPT ![p] = c]
      BY <1>6 DEF RunEffect
    <3> QED
      BY <1>0, <3>1, <3>2, CallUpdateType
  <2>3. ran' \in [Occurrences -> [Effects -> Nat]]
    <3>1. ran' = [ran EXCEPT ![call[p].occ][e] = @ + 1]
      BY <1>6 DEF RunEffect
    <3>2. ran \in [Occurrences -> [Effects -> Nat]]
      BY DEF LedgerType
    <3> HIDE DEF e
    <3> QED
      BY <1>0, <2>1, <3>1, <3>2
  <2> QED
    BY <1>6, <2>2, <2>3 DEF RunEffect, LedgerType
<1>7. CASE Complete(p)
  <2>1. CallType'
    BY <1>0, <1>7, GotoType DEF Complete, Phases
  <2> QED
    BY <1>0, <1>7, <2>1 DEF Complete, LedgerType, Statuses
<1> QED
  BY <1>1, <1>2, <1>3, <1>4, <1>5, <1>6, <1>7 DEF LedgerStep

(***************************************************************************)
(* Everything but a step of applyTransition leaves the ledger alone, and   *)
(* of the calls only begins one or drops one.                              *)
(***************************************************************************)
Outside ==
    \/ \E p \in Callers : Settled(p) \/ Crash(p)
    \/ \E p \in Callers, o \in Occurrences : Service(p, o)
    \/ \E a \in Agents : AgentStep(a)
    \/ \E r \in Inbound : InboundStep(r)
    \/ \E s \in Sdrs : SdrStep(s)
    \/ \E o \in Orders : RunJob(o)

Starts(p) ==
    \E c \in Calls :
        /\ c.at \in {"idle", "look"} /\ (c.at = "look" => c.occ \in Occurrences)
        /\ call' = [call EXCEPT ![p] = c]

BesideLedger ==
    /\ UNCHANGED <<state, ledger, ran, wrote>>
    /\ seqOf' \in Sequences_ /\ crashes' \in 0 .. MaxCrashes
    /\ UNCHANGED call \/ \E p \in Callers : Starts(p)

\* A call that begins is about to look.
LEMMA BeginStarts ==
  ASSUME LedgerType, NEW p \in Callers, NEW o \in Occurrences,
         NEW g \in Sequences_ \cup {"any"}, Begin(p, o, g)
  PROVE  Starts(p)
<1> DEFINE c == [at |-> "look", occ |-> o, guard |-> g, before |-> state,
                 claimed |-> {}, todo |-> EffectsOf(o)]
<1>1. c \in Calls
  BY EffectsOfType DEF Calls, Phases, LedgerType
<1>2. c.at = "look" /\ c.occ \in Occurrences
  OBVIOUS
<1>3. call' = [call EXCEPT ![p] = c]
  BY DEF Begin
<1> HIDE DEF c
<1> QED
  BY <1>1, <1>2, <1>3 DEF Starts

\* A call that is dropped is at rest.
LEMMA DropStarts ==
  ASSUME NEW p \in Callers, call' = [call EXCEPT ![p] = Rest]
  PROVE  Starts(p)
<1>1. Rest.at \in {"idle", "look"} /\ (Rest.at = "look" => Rest.occ \in Occurrences)
  BY RestType
<1> QED
  BY <1>1, RestType DEF Starts

\* No step beside the ledger's own touches the ledger, or moves a call on in it.
LEMMA OutsideBeside ==
  ASSUME FullType, Outside
  PROVE  BesideLedger
<1> USE OutreachAssumption
<1>0. seqOf \in Sequences_ /\ crashes \in 0 .. MaxCrashes /\ LedgerType
  BY DEF FullType, LedgerType
<1>1. ASSUME NEW p \in Callers, Settled(p) \/ Crash(p) PROVE BesideLedger
  <2>1. crashes' \in 0 .. MaxCrashes
    BY <1>0, <1>1, LedgerAssumption DEF Settled, Crash
  <2>2. call' = [call EXCEPT ![p] = Rest]
    BY <1>1 DEF Settled, Crash
  <2>3. Starts(p)
    BY <2>2, DropStarts
  <2> QED
    BY <1>0, <1>1, <2>1, <2>3 DEF Settled, Crash, BesideLedger
<1>2. ASSUME NEW p \in Callers, NEW o \in Occurrences, Service(p, o) PROVE BesideLedger
  <2>1. Starts(p)
    BY <1>0, <1>2, BeginStarts DEF Service
  <2> QED
    BY <1>0, <1>2, <2>1 DEF Service, BesideLedger
<1>3. ASSUME NEW a \in Agents, AgentStep(a) PROVE BesideLedger
  <2>0. a \in Callers
    OBVIOUS
  <2>1. CASE CheckOwned(a)
    <3>1. proc[a].arg \in Orders
      BY <2>0, <2>1 DEF CheckOwned, FullType, ProcType, Fits, AgentPhases
    <3>2. SeqFor(proc[a].arg) \in Sequences_ /\ <<"ai_managed", proc[a].arg>> \in Occurrences
      BY <3>1 DEF SeqFor
    <3>3. Begin(a, <<"ai_managed", proc[a].arg>>, SeqFor(proc[a].arg)) \/ UNCHANGED call
      BY <2>1 DEF CheckOwned
    <3>4. UNCHANGED call \/ Starts(a)
      BY <1>0, <2>0, <3>2, <3>3, BeginStarts
    <3> QED
      BY <1>0, <2>0, <2>1, <3>4 DEF CheckOwned, BesideLedger
  <2>2. CASE Marked(a)
    <3>1. Starts(a)
      BY <2>0, <2>2, DropStarts DEF Marked
    <3> QED
      BY <1>0, <2>0, <2>2, <3>1 DEF Marked, BesideLedger
  <2>3. CASE UNCHANGED tvars
    BY <1>0, <2>3 DEF tvars, BesideLedger
  <2> QED
    BY <1>3, <2>1, <2>2, <2>3 DEF AgentStep, Launch, ClaimLaunch, Prepare, InsertEnrollment,
       Recheck, Book, AdvanceRead, AdvanceWrite, OpenFirstStep, CreateTask, Schedule
<1>4. ASSUME NEW r \in Inbound, InboundStep(r) PROVE BesideLedger
  <2>0. r \in Callers
    OBVIOUS
  <2>1. CASE Hand(r)
    <3>1. <<proc[r].at, proc[r].arg>> \in Occurrences
      BY <2>0, <2>1 DEF Hand, FullType, ProcType, Fits
    <3>2. Starts(r)
      BY <1>0, <2>0, <2>1, <3>1, BeginStarts DEF Hand
    <3> QED
      BY <1>0, <2>0, <2>1, <3>2 DEF Hand, BesideLedger
  <2>2. ASSUME NEW e \in Events, Reply(r, e) PROVE BesideLedger
    BY <1>0, <2>2 DEF Reply, tvars, BesideLedger
  <2>3. ASSUME NEW e \in Events, StopReply(r, e) PROVE BesideLedger
    BY <1>0, <2>3 DEF StopReply, BesideLedger, NoSeq
  <2> QED
    BY <1>4, <2>1, <2>2, <2>3 DEF InboundStep
<1>5. ASSUME NEW s \in Sdrs, SdrStep(s) PROVE BesideLedger
  <2>0. s \in Callers
    OBVIOUS
  <2>1. CASE Handback(s)
    <3>1. Starts(s)
      BY <1>0, <2>0, <2>1, BeginStarts DEF Handback
    <3> QED
      BY <1>0, <2>0, <2>1, <3>1 DEF Handback, BesideLedger
  <2>2. CASE Relink(s)
    BY <1>0, <2>2 DEF Relink, BesideLedger, NextSeq, NoSeq, SeqFor
  <2>3. CASE Designate(s)
    BY <1>0, <2>3 DEF Designate, BesideLedger
  <2>4. CASE UNCHANGED tvars
    BY <1>0, <2>4 DEF tvars, BesideLedger
  <2> QED
    BY <1>5, <2>1, <2>2, <2>3, <2>4 DEF SdrStep, Switch, CloseAll, Enrol
<1>6. ASSUME NEW o \in Orders, RunJob(o) PROVE BesideLedger
  BY <1>0, <1>6 DEF RunJob, tvars, BesideLedger
<1> QED
  BY <1>1, <1>2, <1>3, <1>4, <1>5, <1>6 DEF Outside

\* Those steps keep the ledger's types.
LEMMA BesideType ==
  ASSUME LedgerType, BesideLedger
  PROVE  LedgerType'
<1>1. CallType'
  <2>1. CASE UNCHANGED call
    BY <2>1 DEF LedgerType, CallType
  <2>2. ASSUME NEW p \in Callers, Starts(p) PROVE CallType'
    BY <2>2, CallUpdateType DEF Starts, LedgerType
  <2> QED
    BY <2>1, <2>2 DEF BesideLedger
<1> QED
  BY <1>1 DEF LedgerType, BesideLedger

\* A process set to a well-formed value keeps the processes well formed.
LEMMA ProcUpdateType ==
  ASSUME ProcType, NEW p \in Callers, NEW c \in Procs, Fits(c),
         proc' = [proc EXCEPT ![p] = c]
  PROVE  ProcType'
<1> USE DEF ProcType
<1>1. proc' \in [Callers -> Procs]
  OBVIOUS
<1>2. \A x \in Callers : proc'[x] = IF x = p THEN c ELSE proc[x]
  OBVIOUS
<1> QED
  BY <1>1, <1>2 DEF Fits

\* A launch that throws keeps the processes well formed.
LEMMA ThrowType ==
  ASSUME ProcType, NEW p \in Callers, Throw(p)
  PROVE  ProcType'
<1>1. Off \in Procs /\ Fits(Off)
  BY OutreachAssumption DEF Off, Procs, ProcPhases, AgentPhases, StageSet, Fits
<1> QED
  BY <1>1, ProcUpdateType DEF Throw

\* A caller goes on to a phase that asks no more of its argument.
LEMMA StepType ==
  ASSUME ProcType, NEW p \in Callers, NEW l \in ProcPhases \ {"advance", "advancing"},
         l \in AgentPhases => proc[p].at \in AgentPhases,
         l \notin {"handoff", "stop"},
         Step(p, l)
  PROVE  ProcType'
<1> DEFINE c == [proc[p] EXCEPT !.at = l]
<1>1. c \in Procs
  BY DEF ProcType, Procs
<1>2. Fits(c)
  BY DEF ProcType, Procs, Fits
<1>3. proc' = [proc EXCEPT ![p] = c]
  BY DEF Step
<1> HIDE DEF c
<1> QED
  BY <1>1, <1>2, <1>3, ProcUpdateType

\* An agent about to record a stage keeps the processes well formed.
LEMMA AdvanceType ==
  ASSUME ProcType, NEW p \in Callers, NEW t \in Targets, proc[p].at \in AgentPhases,
         Advance(p, t)
  PROVE  ProcType'
<1> DEFINE c == [proc[p] EXCEPT !.at = "advance", !.target = t]
<1>1. c \in Procs
  BY DEF ProcType, Procs, ProcPhases, AgentPhases
<1>2. Fits(c)
  BY DEF ProcType, Procs, Fits, AgentPhases
<1>3. proc' = [proc EXCEPT ![p] = c]
  BY DEF Advance
<1> HIDE DEF c
<1> QED
  BY <1>1, <1>2, <1>3, ProcUpdateType

\* The agents' steps keep the processes well formed.
LEMMA AgentProcType ==
  ASSUME ProcType, LaunchType, NEW a \in Agents, AgentStep(a)
  PROVE  ProcType'
<1>0. a \in Callers
  BY OutreachAssumption
<1>1. ASSUME NEW o \in Orders, Launch(a, o) PROVE ProcType'
  <2> DEFINE c == [Off EXCEPT !.at = "claim", !.arg = o]
  <2>1. c \in Procs /\ Fits(c)
    BY OutreachAssumption DEF Off, Procs, ProcPhases, AgentPhases, StageSet, Fits, Enrollments
  <2>2. proc' = [proc EXCEPT ![a] = c]
    BY <1>1 DEF Launch
  <2> HIDE DEF c
  <2> QED
    BY <1>0, <2>1, <2>2, ProcUpdateType
<1> USE DEF ProcPhases, AgentPhases
<1>2. CASE ClaimLaunch(a)
  BY <1>0, <1>2, StepType DEF ClaimLaunch
<1>3. CASE Prepare(a)
  BY <1>0, <1>3, StepType, ThrowType DEF Prepare
<1>4. CASE InsertEnrollment(a)
  BY <1>0, <1>4, StepType, ThrowType DEF InsertEnrollment
<1>5. CASE Recheck(a)
  BY <1>0, <1>5, StepType, ThrowType DEF Recheck
<1>6. CASE Book(a)
  BY <1>0, <1>6, AdvanceType, ThrowType DEF Book, Advance, Targets
<1>7. CASE AdvanceRead(a)
  <2> DEFINE c == [proc[a] EXCEPT !.at = "advancing", !.saw = launch[proc[a].arg]]
  <2>1. launch[proc[a].arg] \in StageSet
    BY <1>0, <1>7 DEF AdvanceRead, ProcType, Fits, LaunchType
  <2>2. c \in Procs /\ Fits(c)
    BY <1>0, <1>7, <2>1 DEF AdvanceRead, ProcType, Procs, Fits
  <2>3. proc' = [proc EXCEPT ![a] = c]
    BY <1>7 DEF AdvanceRead
  <2> HIDE DEF c
  <2> QED
    BY <1>0, <2>2, <2>3, ProcUpdateType
<1>8. CASE AdvanceWrite(a)
  <2>1. proc[a].target \in Targets /\ proc[a].arg \in Orders
    BY <1>0, <1>8 DEF AdvanceWrite, ProcType, Fits
  <2>2. CASE proc[a].target = "completed"
    BY <1>0, <1>8, <2>2, ThrowType DEF AdvanceWrite, Throw
  <2>3. CASE proc[a].target # "completed"
    <3> DEFINE c == [Off EXCEPT !.at = AfterStage[proc[a].target], !.arg = proc[a].arg]
    <3>1. AfterStage[proc[a].target] \in {"owned", "open", "schedule"}
      BY <2>1, <2>3 DEF AfterStage, Targets
    <3>2. c \in Procs /\ Fits(c)
      BY <2>1, <3>1, OutreachAssumption DEF Off, Procs, Fits, Enrollments, StageSet
    <3>3. proc' = [proc EXCEPT ![a] = c]
      BY <1>8, <2>3 DEF AdvanceWrite
    <3> HIDE DEF c
    <3> QED
      BY <1>0, <3>2, <3>3, ProcUpdateType
  <2> QED
    BY <2>2, <2>3
<1>9. CASE CheckOwned(a)
  BY <1>0, <1>9, StepType, ThrowType DEF CheckOwned
<1>10. CASE Marked(a)
  BY <1>0, <1>10, AdvanceType, ThrowType DEF Marked, Targets
<1>11. CASE OpenFirstStep(a)
  BY <1>0, <1>11, StepType, AdvanceType, ThrowType DEF OpenFirstStep, Targets
<1>12. CASE CreateTask(a)
  BY <1>0, <1>12, AdvanceType DEF CreateTask, Targets
<1>13. CASE Schedule(a)
  BY <1>0, <1>13, AdvanceType, ThrowType DEF Schedule, Targets
<1> QED
  BY <1>1, <1>2, <1>3, <1>4, <1>5, <1>6, <1>7, <1>8, <1>9, <1>10, <1>11, <1>12, <1>13
     DEF AgentStep

\* Every other step beside the ledger keeps the processes well formed.
LEMMA OtherProcType ==
  ASSUME ProcType, LedgerType, Outside, ~(\E a \in Agents : AgentStep(a))
  PROVE  ProcType'
<1> USE OutreachAssumption
<1> USE DEF ProcPhases, AgentPhases
<1>1. ASSUME NEW p \in Callers, Settled(p) \/ Crash(p) PROVE ProcType'
  BY <1>1, ThrowType DEF Settled, Crash
<1>2. ASSUME NEW p \in Callers, NEW o \in Occurrences, Service(p, o) PROVE ProcType'
  <2>1. [Off EXCEPT !.at = "settling"] \in Procs /\ Fits([Off EXCEPT !.at = "settling"])
    BY DEF Off, Procs, Fits, StageSet
  <2> QED
    BY <1>2, <2>1, ProcUpdateType DEF Service
<1>3. ASSUME NEW r \in Inbound, InboundStep(r) PROVE ProcType'
  <2>1. ASSUME NEW e \in Events, NEW l \in {"handoff", "stop"},
               proc' = [proc EXCEPT ![r] = [Off EXCEPT !.at = l, !.arg = e]]
        PROVE  ProcType'
    <3> DEFINE c == [Off EXCEPT !.at = l, !.arg = e]
    <3>1. c \in Procs /\ Fits(c)
      BY DEF Off, Procs, Fits, StageSet
    <3> HIDE DEF c
    <3> QED
      BY <2>1, <3>1, ProcUpdateType DEF c
  <2>2. CASE Hand(r)
    BY <2>2, StepType DEF Hand
  <2> QED
    BY <1>3, <2>1, <2>2 DEF InboundStep, Reply, StopReply
<1>4. ASSUME NEW s \in Sdrs, SdrStep(s) PROVE ProcType'
  <2>1. CASE Handback(s)
    <3> DEFINE c == [Off EXCEPT !.at = "settling", !.arg = RequestId]
    <3>1. c \in Procs /\ Fits(c)
      BY DEF Off, Procs, Fits, StageSet, RequestId
    <3>2. proc' = [proc EXCEPT ![s] = c]
      BY <2>1 DEF Handback
    <3> HIDE DEF c
    <3> QED
      BY <3>1, <3>2, ProcUpdateType
  <2>2. CASE Switch(s)
    <3> DEFINE c == [Off EXCEPT !.at = "relink", !.arg = "human", !.saw = seqOf]
    <3>1. c \in Procs /\ Fits(c)
      BY DEF Off, Procs, Fits, Enrollments, LedgerType
    <3>2. proc' = [proc EXCEPT ![s] = c]
      BY <2>2 DEF Switch
    <3> HIDE DEF c
    <3> QED
      BY <3>1, <3>2, ProcUpdateType
  <2>3. CASE Relink(s)
    BY <2>3, StepType DEF Relink
  <2>4. CASE CloseAll(s)
    BY <2>4, StepType DEF CloseAll
  <2>5. CASE Enrol(s)
    BY <2>5, StepType, ThrowType DEF Enrol
  <2>6. CASE Designate(s)
    BY <2>6, ThrowType DEF Designate
  <2> QED
    BY <1>4, <2>1, <2>2, <2>3, <2>4, <2>5, <2>6 DEF SdrStep
<1>5. ASSUME NEW o \in Orders, RunJob(o) PROVE ProcType'
  BY <1>5 DEF RunJob, ProcType
<1> QED
  BY <1>1, <1>2, <1>3, <1>4, <1>5 DEF Outside

\* The agents' steps keep the types of enrollment, launch, task and job.
LEMMA AgentLaunchType ==
  ASSUME ProcType, LaunchType, NEW a \in Agents, AgentStep(a)
  PROVE  LaunchType'
<1>0. a \in Callers
  BY OutreachAssumption
<1> USE DEF LaunchType, tvars
<1>1. ASSUME NEW o \in Orders, Launch(a, o) PROVE LaunchType'
  BY <1>1, OutreachAssumption DEF Launch
<1>2. CASE ClaimLaunch(a)
  BY <1>2 DEF ClaimLaunch, StageSet
<1>3. CASE Prepare(a)
  BY <1>3 DEF Prepare
<1>4. CASE InsertEnrollment(a)
  BY <1>4 DEF InsertEnrollment, InsertActive
<1>5. CASE Recheck(a)
  BY <1>5 DEF Recheck, Release
<1>6. CASE Book(a)
  BY <1>6 DEF Book, Release
<1>7. CASE AdvanceRead(a)
  BY <1>7 DEF AdvanceRead
<1>8. CASE AdvanceWrite(a)
  <2>1. proc[a].target \in StageSet
    BY <1>0, <1>8 DEF AdvanceWrite, ProcType, Fits, Targets, StageSet
  <2>2. launch' \in [Orders -> StageSet]
    BY <1>8, <2>1 DEF AdvanceWrite
  <2> QED
    BY <1>8, <2>2 DEF AdvanceWrite
<1>9. CASE CheckOwned(a)
  BY <1>9 DEF CheckOwned
<1>10. CASE Marked(a)
  BY <1>10 DEF Marked
<1>11. CASE OpenFirstStep(a)
  BY <1>11 DEF OpenFirstStep
<1>12. CASE CreateTask(a)
  BY <1>12 DEF CreateTask, TaskAfterCreate
<1>13. CASE Schedule(a)
  BY <1>13 DEF Schedule
<1> QED
  BY <1>1, <1>2, <1>3, <1>4, <1>5, <1>6, <1>7, <1>8, <1>9, <1>10, <1>11, <1>12, <1>13
     DEF AgentStep

\* Every other step beside the ledger keeps them too.
LEMMA OtherLaunchType ==
  ASSUME LaunchType, Outside, ~(\E a \in Agents : AgentStep(a))
  PROVE  LaunchType'
<1> USE OutreachAssumption DEF LaunchType, tvars, Another
<1>1. ASSUME NEW p \in Callers, Settled(p) \/ Crash(p) PROVE LaunchType'
  BY <1>1 DEF Settled, Crash
<1>2. ASSUME NEW p \in Callers, NEW o \in Occurrences, Service(p, o) PROVE LaunchType'
  BY <1>2 DEF Service
<1> DEFINE Rows == [status : {"none", "active", "paused", "unenrolled"}, step : 1 .. 2]
<1>s. ASSUME NEW rows, SkipTasks(rows)
      PROVE  task' \in [Orders -> {"none", "pending", "done", "skipped"}]
  BY <1>s DEF SkipTasks
<1>t. Another => tries' \in [launch : 0 .. MaxLaunches, other : 0 .. MaxOthers]
  OBVIOUS
<1>c. ASSUME NEW S, NEW s \in {"paused", "unenrolled"},
             enr' = [e \in Enrollments |-> IF e \in S THEN [enr[e] EXCEPT !.status = s] ELSE enr[e]]
      PROVE  enr' \in [Enrollments -> Rows]
  <2>1. \A e \in Enrollments : [enr[e] EXCEPT !.status = s] \in Rows
    OBVIOUS
  <2> QED
    BY <1>c, <2>1
<1>3. ASSUME NEW r \in Inbound, InboundStep(r) PROVE LaunchType'
  <2>1. CASE Hand(r)
    BY <2>1 DEF Hand
  <2>2. ASSUME NEW e \in Events, Reply(r, e) PROVE LaunchType'
    <3>1. enr' \in [Enrollments -> Rows]
      BY <2>2, <1>c DEF Reply
    <3>2. task' \in [Orders -> {"none", "pending", "done", "skipped"}]
      BY <2>2, <1>s DEF Reply
    <3> QED
      BY <2>2, <3>1, <3>2, <1>t DEF Reply
  <2>3. ASSUME NEW e \in Events, StopReply(r, e) PROVE LaunchType'
    <3>1. enr' \in [Enrollments -> Rows]
      BY <2>3, <1>c DEF StopReply
    <3>2. task' \in [Orders -> {"none", "pending", "done", "skipped"}]
      BY <2>3, <1>s DEF StopReply
    <3> QED
      BY <2>3, <3>1, <3>2, <1>t DEF StopReply
  <2> QED
    BY <1>3, <2>1, <2>2, <2>3 DEF InboundStep
<1>4. ASSUME NEW s \in Sdrs, SdrStep(s) PROVE LaunchType'
  <2>1. CASE Handback(s) \/ Relink(s) \/ Designate(s)
    BY <2>1, <1>t DEF Handback, Relink, Designate
  <2>2. CASE Switch(s)
    <3>1. enr' \in [Enrollments -> Rows]
      BY <2>2, <1>c DEF Switch
    <3>2. task' \in [Orders -> {"none", "pending", "done", "skipped"}]
      BY <2>2, <1>s DEF Switch
    <3> QED
      BY <2>2, <3>1, <3>2, <1>t DEF Switch
  <2>3. CASE CloseAll(s)
    <3>1. enr' \in [Enrollments -> Rows]
      BY <2>3, <1>c DEF CloseAll
    <3> QED
      BY <2>3, <3>1 DEF CloseAll
  <2>4. CASE Enrol(s)
    BY <2>4 DEF Enrol, InsertActive, Enrollments
  <2> QED
    BY <1>4, <2>1, <2>2, <2>3, <2>4 DEF SdrStep
<1>5. ASSUME NEW o \in Orders, RunJob(o) PROVE LaunchType'
  <2>1. enr' \in [Enrollments -> Rows]
    BY <1>5 DEF RunJob, Enrollments
  <2>2. task' \in [Orders -> {"none", "pending", "done", "skipped"}]
    BY <1>5 DEF RunJob
  <2>3. touches' \in [Orders -> Nat]
    BY <1>5 DEF RunJob
  <2> QED
    BY <1>5, <2>1, <2>2, <2>3 DEF RunJob
<1> QED
  BY <1>1, <1>2, <1>3, <1>4, <1>5 DEF Outside

\* The types hold at first.
LEMMA InitFullType == Init => FullType
<1> SUFFICES ASSUME Init PROVE FullType
  OBVIOUS
<1>1. LedgerType
  <2>1. \A o \in Occurrences : [status |-> "none", effects |-> {}] \in [status : Statuses, effects : SUBSET Effects]
    BY DEF Statuses
  <2>2. call \in [Callers -> Calls] /\ \A p \in Callers : call[p] = Rest
    BY RestType DEF Init, LedgerInit
  <2>3. CallType
    BY <2>2, RestType DEF CallType, Rest
  <2> QED
    BY <2>1, <2>3, OutreachAssumption, LedgerAssumption DEF Init, LedgerInit, LedgerType, States, HumanOwned
<1>2. ProcType
  <2>1. Off \in Procs /\ Fits(Off)
    BY OutreachAssumption DEF Off, Procs, ProcPhases, AgentPhases, StageSet, Fits
  <2> QED
    BY <2>1 DEF Init, ProcType
<1>3. LaunchType
  BY OutreachAssumption DEF Init, LaunchType, StageSet
<1> QED
  BY <1>1, <1>2, <1>3 DEF FullType

\* Every step keeps the types.
LEMMA NextFullType == FullType /\ [Next]_vars => FullType'
<1> SUFFICES ASSUME FullType, [Next]_vars PROVE FullType'
  OBVIOUS
<1>1. ASSUME NEW p \in Callers, Transition(p) PROVE FullType'
  BY <1>1, LedgerStepType DEF Transition, lvars, FullType, ProcType, LaunchType
<1>2. CASE Outside
  <2>1. LedgerType'
    BY <1>2, OutsideBeside, BesideType DEF FullType
  <2>2. ProcType'
    BY <1>2, AgentProcType, OtherProcType DEF FullType
  <2>3. LaunchType'
    BY <1>2, AgentLaunchType, OtherLaunchType DEF FullType
  <2> QED
    BY <2>1, <2>2, <2>3 DEF FullType
<1>3. CASE UNCHANGED vars
  BY <1>3 DEF vars, tvars, lvars, FullType, LedgerType, CallType, ProcType, LaunchType
<1> QED
  BY <1>1, <1>2, <1>3 DEF Next, Outside

\* The stages of a launch, as a set.
LEMMA StagesAre == {Stages[i] : i \in 1 .. Len(Stages)} = StageSet
<1>1. Len(Stages) = 6
  BY DEF Stages
<1>2. /\ Stages[1] = "none" /\ Stages[2] = "claimed" /\ Stages[3] = "enrolled"
      /\ Stages[4] = "state_applied" /\ Stages[5] = "task_created" /\ Stages[6] = "completed"
  BY DEF Stages
<1> QED
  BY <1>1, <1>2 DEF StageSet

\* The types are those the model is checked for.
LEMMA FullTypeIsType == FullType => TypeOK
<1> SUFFICES ASSUME FullType PROVE TypeOK
  OBVIOUS
<1>1. LedgerTypeOK
  BY DEF FullType, LedgerType, CallType, Calls, LedgerTypeOK
<1>2. \A p \in Callers : proc[p].arg \in Enrollments \cup Events \cup {"none", "request"}
  BY DEF FullType, ProcType, Procs
<1> QED
  BY <1>1, <1>2, StagesAre DEF FullType, LaunchType, TypeOK

\* Every variable keeps its type: the transition key a service writes through is
\* one of the prospect's, and every stage, row and job one the schema has.
THEOREM TypeCorrect == Spec => []TypeOK
BY InitFullType, NextFullType, FullTypeIsType, PTL DEF Spec

-----------------------------------------------------------------------------
(* Each effect runs once.                                                  *)

\* Who is about to run which effect.
Running(p, o, e) == call[p].at = "run" /\ call[p].occ = o /\ Head(call[p].todo) = e

\* OneRunsEach, by occurrence and effect.
OneRuns(o, e) ==
    /\ ran[o][e] <= 1
    /\ ran[o][e] = 1 => e \in ledger[o].effects
    /\ \A p \in Callers : Running(p, o, e) => e \in ledger[o].effects /\ ran[o][e] = 0
    /\ \A p, q \in Callers : Running(p, o, e) /\ Running(q, o, e) => p = q

\* OneRunsEach, taken one occurrence and one effect at a time.
LEMMA OneRunsByPair ==
  ASSUME LedgerType
  PROVE  OneRunsEach <=> \A o \in Occurrences, e \in Effects : OneRuns(o, e)
<1>1. ASSUME NEW p \in Callers, call[p].at = "run"
      PROVE  call[p].occ \in Occurrences /\ Head(call[p].todo) \in Effects
  BY <1>1 DEF LedgerType, CallType, Calls
<1> QED
  BY <1>1 DEF OneRunsEach, OneRuns, Running

\* A step that neither claims nor runs an effect, and lets nobody else come to run one.
LEMMA RunsKept ==
  ASSUME NEW o \in Occurrences, NEW e \in Effects, OneRuns(o, e),
         ran'[o][e] = ran[o][e], e \in ledger[o].effects => e \in ledger'[o].effects,
         \A p \in Callers : Running(p, o, e)' => Running(p, o, e)
  PROVE  OneRuns(o, e)'
BY DEF OneRuns

\* A step of the ledger runs no effect twice, nor claims one twice.
LEMMA LedgerStepRuns ==
  ASSUME LedgerType, NEW p \in Callers, LedgerStep(p),
         NEW o \in Occurrences, NEW e \in Effects, OneRuns(o, e)
  PROVE  OneRuns(o, e)'
<1>0. /\ call[p] \in Calls /\ call[p].occ \in Occurrences /\ call \in [Callers -> Calls]
      /\ ledger \in [Occurrences -> [status : Statuses, effects : SUBSET Effects]]
      /\ ran \in [Occurrences -> [Effects -> Nat]]
  BY DEF LedgerType, CallType, LedgerStep, Look, Insert, WriteState, Stamp, ClaimEffect,
     RunEffect, Complete
<1>1. CASE Look(p) \/ Insert(p) \/ WriteState(p) \/ Stamp(p) \/ Complete(p)
  <2>1. UNCHANGED ran
    BY <1>1 DEF Look, Insert, WriteState, Stamp, Complete
  <2>2. \A x \in Occurrences : ledger'[x].effects = ledger[x].effects
    <3>1. \/ UNCHANGED ledger
          \/ \E s : ledger' = [ledger EXCEPT ![call[p].occ].status = s]
      <4>1. CASE Look(p) \/ WriteState(p)
        BY <4>1 DEF Look, WriteState
      <4>2. CASE Insert(p)
        BY <4>2 DEF Insert
      <4>3. CASE Stamp(p)
        BY <4>3 DEF Stamp
      <4>4. CASE Complete(p)
        BY <4>4 DEF Complete
      <4> QED
        BY <1>1, <4>1, <4>2, <4>3, <4>4
    <3>2. ASSUME NEW s, ledger' = [ledger EXCEPT ![call[p].occ].status = s],
                 NEW x \in Occurrences
          PROVE  ledger'[x].effects = ledger[x].effects
      <4>1. ledger[x] \in [status : Statuses, effects : SUBSET Effects]
        BY <1>0
      <4>2. ledger'[x] = IF x = call[p].occ THEN [ledger[x] EXCEPT !.status = s] ELSE ledger[x]
        BY <1>0, <3>2
      <4> QED
        BY <4>1, <4>2
    <3> QED
      BY <3>1, <3>2
  <2>3. \A x \in Callers : x # p => call'[x] = call[x]
    BY <1>0, <1>1 DEF Look, Insert, WriteState, Stamp, Complete, Goto, Resume
  <2>4. call'[p].at # "run"
    BY <1>0, <1>1 DEF Look, Insert, WriteState, Stamp, Complete, Goto, Resume, Calls
  <2>5. \A x \in Callers : Running(x, o, e)' => Running(x, o, e)
    BY <2>3, <2>4 DEF Running
  <2> QED
    BY <2>1, <2>2, <2>5, RunsKept
<1>2. CASE ClaimEffect(p)
  <2> DEFINE h == Head(call[p].todo)
             c == [call[p] EXCEPT !.at = "run", !.claimed = @ \cup {h}]
             d == [call[p] EXCEPT !.todo = Tail(@)]
  <2>1. UNCHANGED ran
    BY <1>2 DEF ClaimEffect
  <2>2. CASE call' = [call EXCEPT ![p] = d] /\ UNCHANGED ledger
    <3>1. d.at # "run"
      BY <1>0, <1>2 DEF ClaimEffect, Calls
    <3> HIDE DEF d
    <3>2. \A x \in Callers : Running(x, o, e)' => Running(x, o, e)
      BY <1>0, <2>2, <3>1 DEF Running
    <3> QED
      BY <2>1, <2>2, <3>2, RunsKept
  <2>3. CASE /\ Unclaimed(call[p].occ, h)
             /\ ledger' = [ledger EXCEPT ![call[p].occ].effects = @ \cup {h}]
             /\ call' = [call EXCEPT ![p] = c]
    <3>1. c.at = "run" /\ c.occ = call[p].occ /\ c.todo = call[p].todo
      BY <1>0 DEF Calls
    <3>2. \A x \in Callers : call'[x] = IF x = p THEN c ELSE call[x]
      BY <1>0, <2>3
    <3> HIDE DEF c
    <3>3. CASE call[p].occ = o /\ h = e
      <4>1. e \notin ledger[o].effects /\ e \in ledger'[o].effects
        BY <1>0, <2>3, <3>3 DEF Unclaimed
      <4>2. ran[o][e] = 0 /\ \A x \in Callers : ~Running(x, o, e)
        <5>1. ran[o][e] \in Nat
          BY <1>0
        <5> QED
          BY <4>1, <5>1 DEF OneRuns
      <4>3. \A x \in Callers : Running(x, o, e)' => x = p
        BY <3>2, <4>2 DEF Running
      <4> QED
        BY <2>1, <4>1, <4>2, <4>3 DEF OneRuns
    <3>4. CASE ~(call[p].occ = o /\ h = e)
      <4>1. \A x \in Callers : Running(x, o, e)' => Running(x, o, e)
        BY <3>1, <3>2, <3>4 DEF Running
      <4>2. e \in ledger[o].effects => e \in ledger'[o].effects
        BY <1>0, <2>3
      <4> QED
        BY <2>1, <4>1, <4>2, RunsKept
    <3> QED
      BY <3>3, <3>4
  <2> QED
    BY <1>2, <2>2, <2>3 DEF ClaimEffect
<1>3. CASE RunEffect(p)
  <2> DEFINE h == Head(call[p].todo)
             d == [call[p] EXCEPT !.at = "effect", !.todo = Tail(@)]
  <2>1. d.at # "run"
    BY <1>0 DEF Calls
  <2>2. ran' = [ran EXCEPT ![call[p].occ][h] = @ + 1] /\ UNCHANGED ledger
        /\ call[p].at = "run" /\ call' = [call EXCEPT ![p] = d]
    BY <1>3 DEF RunEffect
  <2>3. h \in Effects
    <3>1. call[p].todo \in Seq(Effects) /\ call[p].todo # <<>>
      BY <1>0, <2>2 DEF LedgerType, CallType, Calls
    <3> QED
      BY <3>1
  <2> HIDE DEF d, h
  <2>4. \A x \in Callers : Running(x, o, e)' => x # p /\ Running(x, o, e)
    BY <1>0, <2>1, <2>2 DEF Running
  <2>5. CASE call[p].occ = o /\ h = e
    <3>1. Running(p, o, e)
      BY <2>2, <2>5 DEF Running, h
    <3>2. ran[o][e] = 0 /\ e \in ledger[o].effects /\ \A x \in Callers : Running(x, o, e) => x = p
      BY <3>1 DEF OneRuns
    <3>3. ran'[o][e] = 1
      BY <1>0, <2>2, <2>3, <2>5, <3>2
    <3>4. \A x \in Callers : ~Running(x, o, e)'
      BY <2>4, <3>2
    <3> QED
      BY <2>2, <3>2, <3>3, <3>4 DEF OneRuns
  <2>6. CASE ~(call[p].occ = o /\ h = e)
    <3>1. ran'[o][e] = ran[o][e]
      BY <1>0, <2>2, <2>3, <2>6
    <3> QED
      BY <2>2, <2>4, <3>1, RunsKept
  <2> QED
    BY <2>5, <2>6
<1> QED
  BY <1>1, <1>2, <1>3 DEF LedgerStep

\* No other step runs an effect.
LEMMA BesideRuns ==
  ASSUME LedgerType, BesideLedger,
         NEW o \in Occurrences, NEW e \in Effects, OneRuns(o, e)
  PROVE  OneRuns(o, e)'
<1>1. \A p \in Callers : Running(p, o, e)' => Running(p, o, e)
  BY DEF BesideLedger, Starts, Running, LedgerType, CallType
<1> QED
  BY <1>1, RunsKept DEF BesideLedger

\* Every step keeps each effect run at most once.
LEMMA RunsOnce == FullType /\ OneRunsEach /\ [Next]_vars => OneRunsEach'
<1> SUFFICES ASSUME FullType, OneRunsEach, [Next]_vars PROVE OneRunsEach'
  OBVIOUS
<1>1. LedgerType /\ LedgerType'
  BY NextFullType DEF FullType
<1>2. \A o \in Occurrences, e \in Effects : OneRuns(o, e)
  BY <1>1, OneRunsByPair
<1>3. ASSUME NEW o \in Occurrences, NEW e \in Effects PROVE OneRuns(o, e)'
  <2>1. ASSUME NEW p \in Callers, LedgerStep(p) PROVE OneRuns(o, e)'
    BY <1>1, <1>2, <2>1, LedgerStepRuns
  <2>2. CASE Outside
    BY <1>1, <1>2, <2>2, OutsideBeside, BesideRuns
  <2>3. CASE UNCHANGED vars
    BY <1>2, <2>3 DEF vars, tvars, OneRuns, Running
  <2> QED
    BY <2>1, <2>2, <2>3 DEF Next, Outside, Transition
<1>4. ASSUME NEW p \in Callers, call'[p].at = "run"
      PROVE  call'[p].occ \in Occurrences /\ Head(call'[p].todo) \in Effects
  <2>1. call'[p].todo \in Seq(Effects) /\ call'[p].todo # <<>>
    BY <1>1, <1>4 DEF LedgerType, CallType, Calls
  <2> QED
    BY <1>1, <1>4, <2>1 DEF LedgerType, CallType
<1> QED
  BY <1>3, <1>4 DEF OneRunsEach, OneRuns, Running

-----------------------------------------------------------------------------
(* A completed row was applied.                                            *)

\* A step of the ledger goes past the write only by writing, and unwrites nothing.
LEMMA LedgerStepApplied ==
  ASSUME LedgerType, PastWriteWasApplied, NEW p \in Callers, LedgerStep(p)
  PROVE  PastWriteWasApplied' /\ wrote \subseteq wrote'
<1>0. /\ call[p] \in Calls /\ call[p].occ \in Occurrences /\ call \in [Callers -> Calls]
      /\ ledger \in [Occurrences -> [status : Statuses, effects : SUBSET Effects]]
  BY DEF LedgerType, CallType, LedgerStep, Look, Insert, WriteState, Stamp, ClaimEffect,
     RunEffect, Complete
<1>1. wrote \subseteq wrote'
  BY DEF LedgerStep, Look, Insert, WriteState, Stamp, ClaimEffect, RunEffect, Complete
<1>2. \A x \in Callers : x # p => call'[x] = call[x]
  BY <1>0 DEF LedgerStep, Look, Insert, WriteState, Stamp, ClaimEffect, RunEffect, Complete,
     Goto, Resume
<1>3. call'[p].occ = call[p].occ
  BY <1>0 DEF LedgerStep, Look, Insert, WriteState, Stamp, ClaimEffect, RunEffect, Complete,
     Goto, Resume, Calls
<1>4. call'[p].at \in {"stamp", "effect", "run", "done", "inert"} => call[p].occ \in wrote'
  <2>1. CASE Look(p)
    BY <1>0, <2>1 DEF Look, Goto, Resume, Calls, PastWriteWasApplied, CompletedWasApplied
  <2>2. CASE Insert(p)
    BY <1>0, <2>2 DEF Insert, Goto, Calls
  <2>3. CASE WriteState(p)
    BY <1>0, <2>3 DEF WriteState, Goto, Calls
  <2>4. CASE Stamp(p) \/ ClaimEffect(p) \/ RunEffect(p) \/ Complete(p)
    BY <1>1, <2>4 DEF Stamp, ClaimEffect, RunEffect, Complete, PastWriteWasApplied
  <2> QED
    BY <2>1, <2>2, <2>3, <2>4 DEF LedgerStep
<1>5. ASSUME NEW o \in Occurrences, ledger'[o].status \in {"state_applied", "completed"}
      PROVE  o \in wrote'
  <2>1. CASE ledger'[o].status = ledger[o].status
    BY <1>1, <1>5, <2>1 DEF PastWriteWasApplied, CompletedWasApplied
  <2>2. CASE Insert(p)
    BY <1>0, <1>1, <1>5, <2>2 DEF Insert, PastWriteWasApplied, CompletedWasApplied
  <2>3. CASE Stamp(p) \/ Complete(p)
    <3>1. call[p].occ \in wrote
      BY <2>3 DEF Stamp, Complete, PastWriteWasApplied
    <3>2. o # call[p].occ => ledger'[o] = ledger[o]
      BY <1>0, <2>3 DEF Stamp, Complete
    <3> QED
      BY <1>1, <2>1, <3>1, <3>2
  <2>4. CASE Look(p) \/ WriteState(p) \/ RunEffect(p)
    BY <2>1, <2>4 DEF Look, WriteState, RunEffect
  <2>5. CASE ClaimEffect(p)
    <3>1. UNCHANGED ledger \/ \E S : ledger' = [ledger EXCEPT ![call[p].occ].effects = S]
      BY <2>5 DEF ClaimEffect
    <3>2. ledger[o] \in [status : Statuses, effects : SUBSET Effects]
      BY <1>0
    <3>3. ASSUME NEW S, ledger' = [ledger EXCEPT ![call[p].occ].effects = S]
          PROVE  ledger'[o].status = ledger[o].status
      <4>1. ledger'[o] = IF o = call[p].occ THEN [ledger[o] EXCEPT !.effects = S] ELSE ledger[o]
        BY <1>0, <3>3
      <4> QED
        BY <3>2, <4>1
    <3> QED
      BY <2>1, <3>1, <3>3
  <2> QED
    BY <2>2, <2>3, <2>4, <2>5 DEF LedgerStep
<1> QED
  BY <1>1, <1>2, <1>3, <1>4, <1>5 DEF PastWriteWasApplied, CompletedWasApplied

\* No other step goes past the write.
LEMMA BesideApplied ==
  ASSUME LedgerType, PastWriteWasApplied, BesideLedger
  PROVE  PastWriteWasApplied'
BY DEF LedgerType, CallType, PastWriteWasApplied, CompletedWasApplied, BesideLedger, Starts

\* Every step keeps what is past the write written.
LEMMA StaysApplied ==
  FullType /\ PastWriteWasApplied /\ [Next]_vars => PastWriteWasApplied' /\ wrote \subseteq wrote'
<1> SUFFICES ASSUME FullType, PastWriteWasApplied, [Next]_vars
             PROVE  PastWriteWasApplied' /\ wrote \subseteq wrote'
  OBVIOUS
<1>1. ASSUME NEW p \in Callers, LedgerStep(p) PROVE PastWriteWasApplied' /\ wrote \subseteq wrote'
  BY <1>1, LedgerStepApplied DEF FullType
<1>2. CASE Outside
  BY <1>2, OutsideBeside, BesideApplied DEF FullType, BesideLedger
<1>3. CASE UNCHANGED vars
  BY <1>3 DEF vars, tvars, PastWriteWasApplied, CompletedWasApplied
<1> QED
  BY <1>1, <1>2, <1>3 DEF Next, Outside, Transition

-----------------------------------------------------------------------------
(* A launch opens nothing before it owns the prospect.                     *)

\* Both first stages come before every stage that is written.
LEMMA StageOrder ==
  ASSUME NEW s \in {"none", "claimed"}, NEW t \in Targets
  PROVE  StageNo(t) > StageNo(s)
<1>1. Len(Stages) = 6
  BY DEF Stages
<1>2. /\ Stages[1] = "none" /\ Stages[2] = "claimed" /\ Stages[3] = "enrolled"
      /\ Stages[4] = "state_applied" /\ Stages[5] = "task_created" /\ Stages[6] = "completed"
  BY DEF Stages
<1>3. ASSUME NEW i \in 1 .. Len(Stages) PROVE StageNo(Stages[i]) = i
  BY <1>1, <1>2 DEF StageNo
<1>4. StageNo(s) \in {1, 2}
  BY <1>1, <1>2, <1>3
<1>5. StageNo(t) \in {3, 4, 5, 6}
  BY <1>1, <1>2, <1>3 DEF Targets
<1> QED
  BY <1>4, <1>5

\* A launch that has enrolled is never recorded as one that has not, though the
\* stage is written by its id alone, on a stage read earlier.
LEMMA EnrolledStays ==
  ASSUME FullType, [Next]_vars, NEW o \in Orders, Enrolled(o)
  PROVE  Enrolled(o)'
<1> USE DEF Enrolled
<1>1. CASE UNCHANGED launch
  BY <1>1
<1>2. ASSUME NEW a \in Agents, ClaimLaunch(a) PROVE launch'[o] \notin {"none", "claimed"}
  BY <1>2 DEF ClaimLaunch, FullType, LaunchType
<1>3. ASSUME NEW a \in Agents, AdvanceWrite(a) PROVE launch'[o] \notin {"none", "claimed"}
  <2>1. proc[a].target \in Targets
    BY <1>3, OutreachAssumption DEF AdvanceWrite, FullType, ProcType, Fits
  <2> QED
    BY <1>3, <2>1 DEF AdvanceWrite, FullType, LaunchType, Targets
<1>4. ASSUME NEW a \in Agents, AgentStep(a) PROVE launch'[o] \notin {"none", "claimed"}
  BY <1>1, <1>2, <1>3, <1>4 DEF AgentStep, Launch, Prepare, InsertEnrollment, Recheck, Book,
     AdvanceRead, CheckOwned, Marked, OpenFirstStep, CreateTask, Schedule
<1>5. ASSUME NEW r \in Inbound, InboundStep(r) PROVE UNCHANGED launch
  BY <1>5 DEF InboundStep, Hand, Reply, StopReply
<1>6. ASSUME NEW s \in Sdrs, SdrStep(s) PROVE UNCHANGED launch
  BY <1>6 DEF SdrStep, Handback, Switch, Relink, CloseAll, Enrol, Designate
<1>7. ASSUME NEW p \in Callers, Transition(p) \/ Settled(p) \/ Crash(p) PROVE UNCHANGED launch
  BY <1>7 DEF Transition, lvars, Settled, Crash
<1>8. ASSUME NEW p \in Callers, NEW x \in Occurrences, Service(p, x) PROVE UNCHANGED launch
  BY <1>8 DEF Service
<1>9. ASSUME NEW x \in Orders, RunJob(x) PROVE UNCHANGED launch
  BY <1>9 DEF RunJob
<1> QED
  BY <1>1, <1>4, <1>5, <1>6, <1>7, <1>8, <1>9 DEF Next, vars, lvars

\* A caller that does not move stays in order while the others go on.
LEMMA OthersInOrder ==
  ASSUME FullType, NEW p \in Callers, InOrder(p), proc'[p] = proc[p], call'[p] = call[p],
         \A o \in Orders : Enrolled(o) => Enrolled(o)', wrote \subseteq wrote'
  PROVE  InOrder(p)'
<1>1. proc[p].at \in AgentPhases => proc[p].arg \in Orders
  BY DEF FullType, ProcType, Fits
<1> QED
  BY <1>1 DEF InOrder, PastEnrolled, PastOwned, Enrolled, Owned, AgentPhases

\* A caller outside the phases of a launch is in order.
LEMMA OtherPhaseInOrder ==
  ASSUME NEW p, proc[p].at \notin {"owned", "marking", "open", "create", "schedule",
                                   "advance", "advancing"}
  PROVE  InOrder(p)
BY DEF InOrder, PastEnrolled, PastOwned

\* A step of the ledger leaves an agent's launch in order.
LEMMA LedgerStepInOrder ==
  ASSUME FullType, NEW p \in Callers, LedgerStep(p), UNCHANGED proc, InOrder(p),
         \A o \in Orders : Enrolled(o) => Enrolled(o)', wrote \subseteq wrote'
  PROVE  InOrder(p)'
<1>1. proc[p].at \in AgentPhases => proc[p].arg \in Orders
  BY DEF FullType, ProcType, Fits
<1>2. call'[p].at # "idle" /\ call'[p].occ = call[p].occ
  <2>1. call \in [Callers -> Calls]
    BY DEF FullType, LedgerType, CallType
  <2> QED
    BY <2>1 DEF LedgerStep, Look, Insert, WriteState, Stamp, ClaimEffect, RunEffect,
       Complete, Goto, Resume, Calls
<1> QED
  BY <1>1, <1>2 DEF InOrder, PastEnrolled, PastOwned, Enrolled, Owned, AgentPhases

\* An agent's own step leaves its launch in order.
LEMMA AgentInOrder ==
  ASSUME FullType, PastWriteWasApplied, NEW a \in Agents, AgentStep(a), InOrder(a),
         \A o \in Orders : Enrolled(o) => Enrolled(o)', wrote \subseteq wrote'
  PROVE  InOrder(a)'
<1>0. /\ a \in Callers /\ proc \in [Callers -> Procs] /\ Fits(proc[a])
      /\ launch \in [Orders -> StageSet] /\ call \in [Callers -> Calls]
  BY OutreachAssumption DEF FullType, ProcType, LaunchType, LedgerType, CallType
<1>1. ASSUME proc'[a].at \notin {"owned", "marking", "open", "create", "schedule", "advance",
                                 "advancing"}
      PROVE  InOrder(a)'
  BY <1>1 DEF InOrder, PastEnrolled, PastOwned
<1>t. CASE Throw(a)
  BY <1>0, <1>1, <1>t DEF Throw, Off
<1>2. ASSUME NEW o \in Orders, Launch(a, o) PROVE InOrder(a)'
  BY <1>0, <1>1, <1>2 DEF Launch, Off
<1>3. CASE ClaimLaunch(a) \/ Prepare(a)
  BY <1>0, <1>1, <1>t, <1>3 DEF ClaimLaunch, Prepare, Step, Procs
<1>4. CASE InsertEnrollment(a) \/ Recheck(a)
  BY <1>0, <1>1, <1>t, <1>4 DEF InsertEnrollment, Recheck, Step, Procs
<1>5. CASE Book(a)
  <2>1. CASE proc' = [proc EXCEPT ![a].at = "advance", ![a].target = "enrolled"]
    <3>1. proc'[a].at = "advance" /\ proc'[a].target = "enrolled"
      BY <1>0, <2>1 DEF Procs
    <3> QED
      BY <3>1 DEF InOrder, PastEnrolled, PastOwned
  <2> QED
    BY <1>5, <1>t, <2>1 DEF Book
<1>6. CASE AdvanceRead(a)
  <2>1. /\ proc[a].at = "advance" /\ proc'[a].at = "advancing"
        /\ proc'[a].arg = proc[a].arg /\ proc'[a].target = proc[a].target
        /\ proc'[a].saw = launch[proc[a].arg] /\ proc[a].arg \in Orders /\ UNCHANGED launch
    BY <1>0, <1>6 DEF AdvanceRead, Procs, Fits, AgentPhases
  <2> QED
    BY <2>1 DEF InOrder, PastEnrolled, PastOwned, Enrolled, Owned
<1>7. CASE AdvanceWrite(a)
  <2>0. PICK o \in Orders, t \in Targets : o = proc[a].arg /\ t = proc[a].target
    BY <1>0, <1>7 DEF AdvanceWrite, Fits, AgentPhases
  <2>1. proc[a].at = "advancing" /\ proc[a].saw \in StageSet
    BY <1>0, <1>7 DEF AdvanceWrite, Fits
  <2>2. Enrolled(o)'
    <3>1. CASE proc[a].saw \in {"none", "claimed"}
      <4>1. StageNo(t) > StageNo(proc[a].saw)
        BY <3>1, StageOrder
      <4>2. launch'[o] = t
        BY <1>0, <1>7, <2>0, <4>1 DEF AdvanceWrite
      <4> QED
        BY <4>2 DEF Enrolled, Targets
    <3>2. CASE proc[a].saw \notin {"none", "claimed"}
      BY <2>0, <2>1, <3>2 DEF InOrder
    <3> QED
      BY <3>1, <3>2
  <2>3. CASE t = "completed"
    BY <1>0, <1>1, <1>7, <2>0, <2>3 DEF AdvanceWrite, Off
  <2>4. CASE t # "completed"
    <3>1. proc'[a] = [Off EXCEPT !.at = AfterStage[t], !.arg = o]
      BY <1>0, <1>7, <2>0, <2>4 DEF AdvanceWrite
    <3>2. proc'[a].at = AfterStage[t] /\ proc'[a].arg = o
      BY <3>1 DEF Off
    <3>3. AfterStage[t] \in {"owned", "open", "schedule"} /\ (AfterStage[t] # "owned" => t # "enrolled")
      BY <2>4 DEF AfterStage, Targets
    <3>4. t # "enrolled" => Owned(o)'
      BY <2>0, <2>1 DEF InOrder, PastOwned, Owned
    <3> QED
      BY <2>2, <3>2, <3>3, <3>4 DEF InOrder, PastEnrolled, PastOwned
  <2> QED
    BY <2>3, <2>4
<1>8. CASE CheckOwned(a)
  <2>1. CASE /\ proc[a].at = "owned" /\ Begin(a, <<"ai_managed", proc[a].arg>>, SeqFor(proc[a].arg))
             /\ Step(a, "marking")
    <3>1. proc'[a].at = "marking" /\ proc'[a].arg = proc[a].arg /\ proc[a].arg \in Orders
      BY <1>0, <2>1 DEF Step, Procs, Fits, AgentPhases
    <3>2. call'[a].at = "look" /\ call'[a].occ = <<"ai_managed", proc[a].arg>>
      BY <1>0, <2>1 DEF Begin
    <3>3. Enrolled(proc[a].arg)'
      BY <2>1, <3>1 DEF InOrder, PastEnrolled
    <3> QED
      BY <3>1, <3>2, <3>3 DEF InOrder, PastEnrolled, PastOwned
  <2> QED
    BY <1>8, <1>t, <2>1 DEF CheckOwned
<1>9. ASSUME NEW t \in Targets, Advance(a, t), UNCHANGED launch,
             proc[a].at \in {"marking", "open", "create", "schedule"}, Owned(proc[a].arg)
      PROVE  InOrder(a)'
  <2>1. /\ proc'[a].at = "advance" /\ proc'[a].target = t /\ proc'[a].arg = proc[a].arg
        /\ proc[a].arg \in Orders
    BY <1>0, <1>9 DEF Advance, Procs, Fits, AgentPhases
  <2>2. Enrolled(proc[a].arg)' /\ Owned(proc[a].arg)'
    BY <1>9, <2>1 DEF InOrder, PastEnrolled, Owned
  <2> QED
    BY <2>1, <2>2 DEF InOrder, PastEnrolled, PastOwned
<1>10. CASE Marked(a)
  <2>1. CASE call[a].at # "refused"
    <3>1. call[a].occ = <<"ai_managed", proc[a].arg>> /\ call[a].at \in {"done", "inert"}
      BY <1>10, <2>1 DEF Marked, Returned, InOrder
    <3>2. Owned(proc[a].arg)
      BY <1>0, <3>1 DEF PastWriteWasApplied, Owned
    <3> QED
      BY <1>9, <1>10, <2>1, <3>2 DEF Marked, Targets
  <2> QED
    BY <1>10, <1>t, <2>1 DEF Marked
<1>11. CASE OpenFirstStep(a)
  <2>1. proc[a].at = "open" /\ Owned(proc[a].arg)
    BY <1>11 DEF OpenFirstStep, InOrder, PastOwned
  <2>2. ASSUME NEW l \in {"schedule", "create"}, Step(a, l), UNCHANGED launch PROVE InOrder(a)'
    <3>1. proc'[a].at = l /\ proc'[a].arg = proc[a].arg /\ proc[a].arg \in Orders
      BY <1>0, <2>1, <2>2 DEF Step, Procs, Fits, AgentPhases
    <3>2. Enrolled(proc[a].arg)' /\ Owned(proc[a].arg)'
      BY <2>1, <3>1 DEF InOrder, PastEnrolled, Owned
    <3> QED
      BY <3>1, <3>2 DEF InOrder, PastEnrolled, PastOwned
  <2> QED
    BY <1>9, <1>11, <1>t, <2>1, <2>2 DEF OpenFirstStep, Targets
<1>12. CASE CreateTask(a)
  BY <1>9, <1>12 DEF CreateTask, InOrder, PastOwned, Targets
<1>13. CASE Schedule(a)
  BY <1>9, <1>13, <1>t DEF Schedule, InOrder, PastOwned, Targets
<1> QED
  BY <1>2, <1>3, <1>4, <1>5, <1>6, <1>7, <1>8, <1>10, <1>11, <1>12, <1>13 DEF AgentStep

\* Whoever steps, everybody else's argument and call are left alone, and a caller that
\* is no agent ends outside the phases of a launch.
LEMMA OutsideOthers ==
  ASSUME FullType, Outside, ~(\E a \in Agents : AgentStep(a))
  PROVE  \/ UNCHANGED <<proc, call>>
         \/ \E p \in Callers :
              /\ proc'[p].at \notin {"owned", "marking", "open", "create", "schedule",
                                     "advance", "advancing"}
              /\ \A x \in Callers : x # p => proc'[x] = proc[x] /\ call'[x] = call[x]
<1>0. proc \in [Callers -> Procs] /\ call \in [Callers -> Calls]
  BY DEF FullType, ProcType, LedgerType, CallType
<1> USE <1>0, OutreachAssumption DEF Throw, Step, Off, Procs, Begin
<1>1. ASSUME NEW p \in Callers, Settled(p) \/ Crash(p)
      PROVE  /\ proc'[p].at = "idle"
             /\ \A x \in Callers : x # p => proc'[x] = proc[x] /\ call'[x] = call[x]
  BY <1>1 DEF Settled, Crash
<1>2. ASSUME NEW p \in Callers, NEW o \in Occurrences, Service(p, o)
      PROVE  /\ proc'[p].at = "settling"
             /\ \A x \in Callers : x # p => proc'[x] = proc[x] /\ call'[x] = call[x]
  BY <1>2 DEF Service
<1>3. ASSUME NEW r \in Inbound, InboundStep(r)
      PROVE  /\ proc'[r].at \in {"handoff", "stop", "settling"}
             /\ \A x \in Callers : x # r => proc'[x] = proc[x] /\ call'[x] = call[x]
  <2>1. CASE Hand(r)
    BY <2>1 DEF Hand
  <2>2. ASSUME NEW e \in Events, Reply(r, e)
        PROVE  /\ proc'[r].at = "handoff"
               /\ \A x \in Callers : x # r => proc'[x] = proc[x] /\ call'[x] = call[x]
    BY <2>2 DEF Reply, tvars
  <2>3. ASSUME NEW e \in Events, StopReply(r, e)
        PROVE  /\ proc'[r].at = "stop"
               /\ \A x \in Callers : x # r => proc'[x] = proc[x] /\ call'[x] = call[x]
    BY <2>3 DEF StopReply
  <2> QED
    BY <1>3, <2>1, <2>2, <2>3 DEF InboundStep
<1>4. ASSUME NEW s \in Sdrs, SdrStep(s)
      PROVE  /\ proc'[s].at \in {"settling", "relink", "closeall", "enrol", "designate", "idle"}
             /\ \A x \in Callers : x # s => proc'[x] = proc[x] /\ call'[x] = call[x]
  <2>1. CASE Handback(s)
    BY <2>1 DEF Handback
  <2>2. CASE Switch(s)
    BY <2>2 DEF Switch, tvars
  <2>3. CASE Relink(s) \/ CloseAll(s)
    BY <2>3 DEF Relink, CloseAll, tvars
  <2>4. CASE Enrol(s) \/ Designate(s)
    BY <2>4 DEF Enrol, Designate, tvars
  <2> QED
    BY <1>4, <2>1, <2>2, <2>3, <2>4 DEF SdrStep
<1>5. ASSUME NEW o \in Orders, RunJob(o) PROVE UNCHANGED <<proc, call>>
  BY <1>5 DEF RunJob, tvars
<1> QED
  BY <1>1, <1>2, <1>3, <1>4, <1>5 DEF Outside

\* An agent's step moves no other agent.
LEMMA AgentOthers ==
  ASSUME FullType, NEW a \in Agents, AgentStep(a)
  PROVE  \A x \in Callers : x # a => proc'[x] = proc[x] /\ call'[x] = call[x]
<1>0. proc \in [Callers -> Procs] /\ call \in [Callers -> Calls]
  BY DEF FullType, ProcType, LedgerType, CallType
<1> QED
  BY <1>0 DEF AgentStep, Launch, ClaimLaunch, Prepare, InsertEnrollment, Recheck, Book,
     AdvanceRead, AdvanceWrite, CheckOwned, Marked, OpenFirstStep, CreateTask, Schedule,
     Throw, Step, Advance, Begin, tvars

\* Every step keeps the launches in order.
LEMMA StaysInOrder ==
  FullType /\ PastWriteWasApplied /\ LaunchInOrder /\ [Next]_vars => LaunchInOrder'
<1> SUFFICES ASSUME FullType, PastWriteWasApplied, LaunchInOrder, [Next]_vars,
                    NEW x \in Callers
             PROVE  InOrder(x)'
  BY DEF LaunchInOrder
<1>1. InOrder(x) /\ (\A o \in Orders : Enrolled(o) => Enrolled(o)') /\ wrote \subseteq wrote'
  BY EnrolledStays, StaysApplied DEF LaunchInOrder
<1>2. CASE proc'[x] = proc[x] /\ call'[x] = call[x]
  BY <1>1, <1>2, OthersInOrder
<1>3. ASSUME NEW p \in Callers, Transition(p) PROVE InOrder(x)'
  <2>1. CASE x = p
    BY <1>1, <1>3, <2>1, LedgerStepInOrder DEF Transition, lvars
  <2>2. CASE x # p
    <3>1. call \in [Callers -> Calls]
      BY DEF FullType, LedgerType, CallType
    <3>2. call'[x] = call[x]
      BY <1>3, <2>2, <3>1 DEF Transition, LedgerStep, Look, Insert, WriteState, Stamp,
         ClaimEffect, RunEffect, Complete, Goto, Resume
    <3> QED
      BY <1>2, <1>3, <3>2 DEF Transition, lvars
  <2> QED
    BY <2>1, <2>2
<1>4. ASSUME NEW a \in Agents, AgentStep(a) PROVE InOrder(x)'
  <2>1. CASE x = a
    BY <1>1, <1>4, <2>1, AgentInOrder
  <2>2. CASE x # a
    BY <1>2, <1>4, <2>2, AgentOthers
  <2> QED
    BY <2>1, <2>2
<1>5. CASE Outside /\ ~(\E a \in Agents : AgentStep(a))
  <2>1. CASE proc'[x].at \notin {"owned", "marking", "open", "create", "schedule",
                                 "advance", "advancing"}
    BY <2>1 DEF InOrder, PastEnrolled, PastOwned
  <2> QED
    BY <1>2, <1>5, <2>1, OutsideOthers
<1>6. CASE UNCHANGED vars
  BY <1>2, <1>6 DEF vars, tvars, lvars
<1> QED
  BY <1>3, <1>4, <1>5, <1>6 DEF Next, Outside

\* Every step keeps live launches owned.
LEMMA LiveStaysOwned ==
  FullType /\ PastWriteWasApplied /\ LaunchInOrder /\ LiveOnlyWhenOwned /\ [Next]_vars
    => LiveOnlyWhenOwned'
<1> SUFFICES ASSUME FullType, PastWriteWasApplied, LaunchInOrder, LiveOnlyWhenOwned,
                    [Next]_vars, NEW o \in Orders, task'[o] # "none" \/ job'[o] # "none"
             PROVE  Owned(o)' /\ Enrolled(o)'
  BY DEF LiveOnlyWhenOwned, Owned, Enrolled
<1>1. (Enrolled(o) => Enrolled(o)') /\ (Owned(o) => Owned(o)')
  BY EnrolledStays, StaysApplied DEF Owned
<1>0. /\ task \in [Orders -> {"none", "pending", "done", "skipped"}]
      /\ job \in [Orders -> {"none", "queued", "ran"}]
  BY DEF FullType, LaunchType
<1>2. CASE task[o] # "none" \/ job[o] # "none"
  BY <1>1, <1>2 DEF LiveOnlyWhenOwned, Owned, Enrolled
<1>3. CASE task'[o] = task[o] /\ job'[o] = job[o]
  BY <1>2, <1>3
<1>4. ASSUME NEW a \in Agents, AgentStep(a) PROVE Owned(o)' /\ Enrolled(o)'
  <2>0. InOrder(a)
    BY OutreachAssumption DEF LaunchInOrder
  <2>1. CASE CreateTask(a) \/ Schedule(a)
    <3>1. CASE proc[a].arg = o
      BY <1>1, <2>0, <2>1, <3>1 DEF CreateTask, Schedule, InOrder, PastOwned, PastEnrolled
    <3>2. CASE proc[a].arg # o
      BY <1>0, <1>3, <2>1, <3>2 DEF CreateTask, Schedule
    <3> QED
      BY <3>1, <3>2
  <2>2. CASE UNCHANGED <<task, job>>
    BY <1>3, <2>2
  <2> QED
    BY <1>4, <2>1, <2>2 DEF AgentStep, Launch, ClaimLaunch, Prepare, InsertEnrollment,
       Recheck, Book, AdvanceRead, AdvanceWrite, CheckOwned, Marked, OpenFirstStep
<1>5. ASSUME NEW rows, SkipTasks(rows), UNCHANGED job PROVE Owned(o)' /\ Enrolled(o)'
  BY <1>2, <1>5 DEF SkipTasks
<1>6. ASSUME NEW r \in Inbound, InboundStep(r) PROVE Owned(o)' /\ Enrolled(o)'
  BY <1>3, <1>5, <1>6 DEF InboundStep, Hand, Reply, StopReply
<1>7. ASSUME NEW s \in Sdrs, SdrStep(s) PROVE Owned(o)' /\ Enrolled(o)'
  BY <1>3, <1>5, <1>7 DEF SdrStep, Handback, Switch, Relink, CloseAll, Enrol, Designate
<1>8. ASSUME NEW p \in Callers, Transition(p) \/ Settled(p) \/ Crash(p)
      PROVE  Owned(o)' /\ Enrolled(o)'
  BY <1>3, <1>8 DEF Transition, lvars, Settled, Crash
<1>9. ASSUME NEW p \in Callers, NEW y \in Occurrences, Service(p, y)
      PROVE  Owned(o)' /\ Enrolled(o)'
  BY <1>3, <1>9 DEF Service
<1>10. ASSUME NEW y \in Orders, RunJob(y) PROVE Owned(o)' /\ Enrolled(o)'
  BY <1>0, <1>2, <1>10 DEF RunJob
<1>11. CASE UNCHANGED vars
  BY <1>3, <1>11 DEF vars, lvars
<1> QED
  BY <1>4, <1>6, <1>7, <1>8, <1>9, <1>10, <1>11 DEF Next

-----------------------------------------------------------------------------
(* One opening, and one cadence.                                           *)

\* The delayed job of a launch runs once: nothing queues it again.
LEMMA TouchesOnce == FullType /\ OneTouch /\ [Next]_vars => OneTouch'
<1> SUFFICES ASSUME FullType, OneTouch, [Next]_vars, NEW o \in Orders
             PROVE  touches'[o] <= 1 /\ (job'[o] # "ran" => touches'[o] = 0)
  BY DEF OneTouch
<1>0. /\ job \in [Orders -> {"none", "queued", "ran"}] /\ touches \in [Orders -> Nat]
      /\ touches[o] <= 1 /\ (job[o] # "ran" => touches[o] = 0)
  BY DEF FullType, LaunchType, OneTouch
<1>1. ASSUME NEW x \in Orders, RunJob(x)
      PROVE  touches'[o] <= 1 /\ (job'[o] # "ran" => touches'[o] = 0)
  BY <1>0, <1>1 DEF RunJob
<1>2. ASSUME NEW a \in Agents, Schedule(a)
      PROVE  touches'[o] <= 1 /\ (job'[o] # "ran" => touches'[o] = 0)
  BY <1>0, <1>2 DEF Schedule
<1>3. CASE UNCHANGED <<job, touches>>
  BY <1>0, <1>3
<1>4. UNCHANGED <<job, touches>> \/ (\E x \in Orders : RunJob(x)) \/ (\E a \in Agents : Schedule(a))
  <2>1. ASSUME NEW a \in Agents, AgentStep(a), ~Schedule(a) PROVE UNCHANGED <<job, touches>>
    BY <2>1 DEF AgentStep, Launch, ClaimLaunch, Prepare, InsertEnrollment, Recheck, Book,
       AdvanceRead, AdvanceWrite, CheckOwned, Marked, OpenFirstStep, CreateTask
  <2>2. ASSUME NEW r \in Inbound, InboundStep(r) PROVE UNCHANGED <<job, touches>>
    BY <2>2 DEF InboundStep, Hand, Reply, StopReply
  <2>3. ASSUME NEW s \in Sdrs, SdrStep(s) PROVE UNCHANGED <<job, touches>>
    BY <2>3 DEF SdrStep, Handback, Switch, Relink, CloseAll, Enrol, Designate
  <2>4. ASSUME NEW p \in Callers, Transition(p) \/ Settled(p) \/ Crash(p)
        PROVE  UNCHANGED <<job, touches>>
    BY <2>4 DEF Transition, lvars, Settled, Crash
  <2>5. ASSUME NEW p \in Callers, NEW y \in Occurrences, Service(p, y)
        PROVE  UNCHANGED <<job, touches>>
    BY <2>5 DEF Service
  <2> QED
    BY <2>1, <2>2, <2>3, <2>4, <2>5 DEF Next, vars, lvars
<1> QED
  BY <1>1, <1>2, <1>3, <1>4

\* Only an insert makes an order's cadence occupy the prospect, under the unique key.
LEMMA OnlyInsertHolds ==
  ASSUME FullType, [Next]_vars, NEW o \in Orders, enr'[o].status \in Occupying
  PROVE  \/ enr[o].status \in Occupying
         \/ KeyFree(o) /\ \A x \in Orders : x # o => enr'[x] = enr[x]
<1> DEFINE Was == enr[o].status \in Occupying
           Inserted == KeyFree(o) /\ \A x \in Orders : x # o => enr'[x] = enr[x]
           Rows == [status : {"none", "active", "paused", "unenrolled"}, step : 1 .. 2]
<1>0. /\ enr \in [Enrollments -> Rows] /\ o \in Enrollments /\ Orders \subseteq Enrollments
      /\ o # "human"
  BY OutreachAssumption DEF FullType, LaunchType, Enrollments
<1>1. CASE enr'[o] = enr[o]
  BY <1>1
<1>2. ASSUME NEW S, NEW s, s \in {"paused", "unenrolled"}, S \subseteq Held,
             enr' = [e \in Enrollments |-> IF e \in S THEN [enr[e] EXCEPT !.status = s] ELSE enr[e]]
      PROVE  Was
  BY <1>0, <1>2 DEF Held
<1>3. ASSUME NEW e, Release(e) PROVE Was
  <2>1. enr'[o] = IF o = e /\ enr[o].status \in Occupying
                    THEN [enr[o] EXCEPT !.status = "unenrolled"] ELSE enr[o]
    BY <1>0, <1>3 DEF Release
  <2> QED
    BY <1>0, <2>1
<1>4. ASSUME NEW a \in Agents, AgentStep(a) PROVE Was \/ Inserted
  <2>1. CASE InsertEnrollment(a)
    <3>1. CASE UNCHANGED enr
      BY <3>1
    <3>2. CASE proc[a].arg = o /\ KeyFree(o) /\ InsertActive(o)
      BY <1>0, <3>2 DEF InsertActive
    <3>3. CASE proc[a].arg # o /\ InsertActive(proc[a].arg)
      BY <1>0, <1>1, <3>3 DEF InsertActive
    <3> QED
      BY <2>1, <3>1, <3>2, <3>3 DEF InsertEnrollment
  <2>2. CASE Recheck(a) \/ Book(a)
    BY <1>1, <1>3, <2>2 DEF Recheck, Book
  <2>3. CASE UNCHANGED enr
    BY <1>1, <2>3
  <2> QED
    BY <1>4, <2>1, <2>2, <2>3 DEF AgentStep, Launch, ClaimLaunch, Prepare, AdvanceRead,
       AdvanceWrite, CheckOwned, Marked, OpenFirstStep, CreateTask, Schedule
<1>5. ASSUME NEW r \in Inbound, InboundStep(r) PROVE Was
  <2>1. CASE Hand(r)
    BY <1>1, <2>1 DEF Hand
  <2>2. ASSUME NEW e \in Events, Reply(r, e) PROVE Was
    BY <1>2, <2>2 DEF Reply, Held, Occupying
  <2>3. ASSUME NEW e \in Events, StopReply(r, e) PROVE Was
    BY <1>2, <2>3 DEF StopReply
  <2> QED
    BY <1>5, <2>1, <2>2, <2>3 DEF InboundStep
<1>6. ASSUME NEW s \in Sdrs, SdrStep(s) PROVE Was
  <2>1. CASE Switch(s)
    BY <1>2, <2>1 DEF Switch
  <2>2. CASE CloseAll(s)
    BY <1>2, <2>2 DEF CloseAll
  <2>3. CASE Enrol(s)
    BY <1>0, <1>1, <2>3 DEF Enrol, InsertActive
  <2>4. CASE Handback(s) \/ Relink(s) \/ Designate(s)
    BY <1>1, <2>4 DEF Handback, Relink, Designate
  <2> QED
    BY <1>6, <2>1, <2>2, <2>3, <2>4 DEF SdrStep
<1>7. ASSUME NEW p \in Callers, Transition(p) \/ Settled(p) \/ Crash(p) PROVE Was
  BY <1>1, <1>7 DEF Transition, lvars, Settled, Crash
<1>8. ASSUME NEW p \in Callers, NEW y \in Occurrences, Service(p, y) PROVE Was
  BY <1>1, <1>8 DEF Service
<1>9. ASSUME NEW x \in Orders, RunJob(x) PROVE Was
  <2>1. enr'[o].status = enr[o].status
    BY <1>0, <1>9 DEF RunJob
  <2> QED
    BY <2>1
<1>10. CASE UNCHANGED vars
  BY <1>1, <1>10 DEF vars, lvars
<1> QED
  BY <1>4, <1>5, <1>6, <1>7, <1>8, <1>9, <1>10 DEF Next

\* Every step keeps at most one enrollment held.
LEMMA StaysOneHeld == FullType /\ OneHeld /\ [Next]_vars => OneHeld'
<1> SUFFICES ASSUME FullType, OneHeld, [Next]_vars, NEW x \in Orders, NEW y \in Orders,
                    enr'[x].status \in Occupying, enr'[y].status \in Occupying
             PROVE  x = y
  BY DEF OneHeld, Held
<1>0. Orders \subseteq Enrollments /\ "human" \notin Orders
  BY OutreachAssumption DEF Enrollments
<1>1. CASE enr[x].status \in Occupying /\ enr[y].status \in Occupying
  BY <1>0, <1>1 DEF OneHeld, Held
<1>2. ASSUME NEW u \in Orders, NEW v \in Orders, u # v, KeyFree(u),
             \A z \in Orders : z # u => enr'[z] = enr[z], enr'[v].status \in Occupying
      PROVE  FALSE
  <2>1. v \in Held
    BY <1>0, <1>2 DEF Held
  <2> QED
    BY <1>0, <1>2, <2>1 DEF KeyFree, SeqFor
<1>3. CASE enr[x].status \notin Occupying
  BY <1>2, <1>3, OnlyInsertHolds
<1>4. CASE enr[y].status \notin Occupying
  BY <1>2, <1>4, OnlyInsertHolds
<1> QED
  BY <1>1, <1>3, <1>4

\* At most one order has an active cadence, and each has sent one opening at most.
LEMMA OneOpeningFollows ==
  ASSUME OneTouch, OneHeld
  PROVE  OneOpening
<1> DEFINE Live == {o \in Orders : enr[o].status = "active"}
<1>1. \A x, y \in Live : x = y
  BY DEF OneHeld, Held, Occupying, Enrollments
<1>2. CASE Live = {}
  BY <1>2, FS_EmptySet DEF OneOpening, OneTouch
<1>3. ASSUME NEW x \in Live PROVE OneOpening
  <2>1. Live = {x}
    BY <1>1
  <2>2. Cardinality(Live) = 1
    BY <2>1, FS_Singleton
  <2> QED
    BY <2>2 DEF OneOpening, OneTouch
<1> QED
  BY <1>2, <1>3

\* The invariant of launches holds at first.
LEMMA InitLaunch == Init => LaunchInv
<1> SUFFICES ASSUME Init PROVE LaunchInv
  OBVIOUS
<1>1. OneRunsEach
  BY DEF Init, LedgerInit, Rest, OneRunsEach
<1>2. PastWriteWasApplied
  BY DEF Init, LedgerInit, Rest, PastWriteWasApplied, CompletedWasApplied
<1>3. LaunchInOrder
  BY DEF Init, Off, LaunchInOrder, InOrder, PastEnrolled, PastOwned
<1>4. LiveOnlyWhenOwned /\ OneTouch
  BY DEF Init, LiveOnlyWhenOwned, OneTouch
<1>5. OneHeld
  BY DEF Init, OneHeld, Held, Occupying
<1> QED
  BY <1>1, <1>2, <1>3, <1>4, <1>5 DEF LaunchInv

\* Every step keeps the invariant of launches.
LEMMA NextLaunch == FullType /\ LaunchInv /\ [Next]_vars => LaunchInv'
BY RunsOnce, StaysApplied, StaysInOrder, LiveStaysOwned, TouchesOnce, StaysOneHeld DEF LaunchInv

\* The types and the invariant of launches always hold.
LEMMA LaunchInvariant == Spec => [](FullType /\ LaunchInv)
BY InitFullType, NextFullType, InitLaunch, NextLaunch, PTL DEF Spec

\* Each consequence of a transition happens at most once, however many callers
\* deliver the occurrence, resume it and die in it (runEffect, transitions.ts).
THEOREM EffectsOnce == Spec => []EffectsRunOnce
<1>1. OneRunsEach => EffectsRunOnce
  BY DEF OneRunsEach, EffectsRunOnce
<1> QED
  BY <1>1, LaunchInvariant, PTL DEF LaunchInv

\* A row of the ledger that says state_applied or completed stands for a prospect
\* that was moved (applyTransition, transitions.ts).
THEOREM CompletedApplied == Spec => []CompletedWasApplied
<1>1. LaunchInv => CompletedWasApplied
  BY DEF LaunchInv, PastWriteWasApplied
<1> QED
  BY <1>1, LaunchInvariant, PTL

\* Nothing that may reach the prospect exists for a launch before its enrollment and
\* its ownership move are recorded (launchAIOutreach, outreach.ts).
THEOREM LiveIsOwned == Spec => []LiveOnlyWhenOwned
<1>1. LaunchInv => LiveOnlyWhenOwned
  BY DEF LaunchInv
<1> QED
  BY <1>1, LaunchInvariant, PTL

\* Any number of work orders, and of workers of one, run one agent cadence on a
\* prospect at a time and open each launch once (enrollment.ts).
THEOREM OneOpeningEach == Spec => []OneOpening
<1>1. LaunchInv => OneOpening
  BY OneOpeningFollows DEF LaunchInv
<1> QED
  BY <1>1, LaunchInvariant, PTL
=============================================================================
