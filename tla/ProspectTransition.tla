------------------------- MODULE ProspectTransition -------------------------
(***************************************************************************)
(* The transition ledger of a prospect (lib/prospects/transitions.ts) and  *)
(* the ownership services that write through it (ownership.ts,             *)
(* prospecting.ts).                                                        *)
(*                                                                         *)
(* One prospect.  A caller is a request or a job that runs one             *)
(* applyTransition at a time; each statement that reads or writes the      *)
(* database is a step, so two callers interleave between statements, and a *)
(* caller may die between any two of them.  An occurrence is the durable   *)
(* key of keys.ts: the kind of the transition and the event it is for.     *)
(***************************************************************************)
EXTENDS Naturals, Sequences, FiniteSets

CONSTANTS
    Callers,        \* requests and jobs that apply transitions
    Occurrences,    \* <<kind, event id>>: the transition keys of this prospect
    Sequences_,     \* ids of sequences the prospect may be designated to
    MaxCrashes      \* callers that may die in the middle of a call

VARIABLES
    state,          \* Lead.operatingState
    seqOf,          \* Lead.sequenceId, the human designation
    ledger,         \* ProspectTransition rows, by transition key
    call,           \* what each caller is doing inside applyTransition
    ran,            \* history: times each effect of an occurrence executed
    wrote,          \* history: occurrences whose state write happened
    crashes

tvars == <<state, seqOf, ledger, call, ran, wrote, crashes>>

HumanOwned == {"human_attention", "human_managed", "waiting_for_prospect",
               "reengagement_eligible"}
AIOwned    == {"ai_managed", "ai_reengagement"}
States     == HumanOwned \cup AIOwned \cup
              {"unassigned", "researching", "ready_for_outreach", "completed"}

Kinds == {"handoff", "stop", "waiting", "eligible", "handback", "restart", "research",
          "ready", "ai_managed"}

Kind(o) == o[1]

ASSUME LedgerAssumption == (\A o \in Occurrences : Kind(o) \in Kinds) /\ MaxCrashes \in Nat

\* The state each kind of occurrence moves the prospect to.
ToState(o) ==
    [handoff  |-> "human_attention",      stop     |-> "completed",
     waiting  |-> "waiting_for_prospect", eligible |-> "reengagement_eligible",
     handback |-> "ai_reengagement",      restart  |-> "ai_managed",
     research |-> "researching",          ready    |-> "ready_for_outreach",
     ai_managed |-> "ai_managed"][Kind(o)]

\* The states it may start from; a reply and a stop are valid from any.
FromStates(o) ==
    [handoff  |-> States,
     stop     |-> States,
     waiting  |-> {"human_attention", "human_managed"},
     eligible |-> {"human_managed", "waiting_for_prospect"},
     handback |-> HumanOwned,
     restart  |-> {"ai_reengagement"},
     research |-> {"unassigned", "researching"},
     ready    |-> {"unassigned", "researching", "ready_for_outreach"},
     ai_managed |-> {"unassigned", "researching", "ready_for_outreach", "ai_managed"}][Kind(o)]

\* What onApplied does after the state write, in order: the activity first.
EffectsOf(o) == IF Kind(o) = "handoff" THEN <<"activity", "task", "notification">>
                                       ELSE <<"activity">>
Effects == {"activity", "task", "notification"}

Statuses == {"none", "pending", "state_applied", "completed"}
Phases   == {"idle", "look", "insert", "write", "stamp", "effect", "run",
             "complete", "done", "inert", "refused"}

\* A caller between calls.
Rest == [at |-> "idle", occ |-> <<"none", "none">>, guard |-> "any",
         before |-> "unassigned", claimed |-> {}, todo |-> <<>>]

LedgerTypeOK ==
    /\ state \in States
    /\ seqOf \in Sequences_
    /\ ledger \in [Occurrences -> [status : Statuses, effects : SUBSET Effects]]
    /\ \A p \in Callers :
        /\ call[p].at \in Phases
        /\ call[p].at # "idle" => call[p].occ \in Occurrences
        /\ call[p].guard \in Sequences_ \cup {"any"}
        /\ call[p].before \in States
        /\ call[p].claimed \in SUBSET Effects
    /\ ran \in [Occurrences -> [Effects -> Nat]]
    /\ wrote \in SUBSET Occurrences
    /\ crashes \in 0 .. MaxCrashes

LedgerInit(s, q) ==
    /\ state = s
    /\ seqOf = q
    /\ ledger = [o \in Occurrences |-> [status |-> "none", effects |-> {}]]
    /\ call = [p \in Callers |-> Rest]
    /\ ran = [o \in Occurrences |-> [e \in Effects |-> 0]]
    /\ wrote = {}
    /\ crashes = 0

-----------------------------------------------------------------------------
(* applyTransition and finish.                                             *)

Goto(p, phase) == call' = [call EXCEPT ![p].at = phase]

\* The lead is read before the ledger: the state a guard is checked on is older
\* than the row.
Begin(p, o, guard) ==
    /\ call[p].at = "idle"
    /\ call' = [call EXCEPT ![p] = [at |-> "look", occ |-> o, guard |-> guard, before |-> state,
                                    claimed |-> {}, todo |-> EffectsOf(o)]]

\* Mutant: a retry takes the row for the whole transition and goes on to its consequences.
ResumePastWrite(p, row) == call' = [call EXCEPT ![p].at = "effect", ![p].claimed = row.effects]

\* finish() starts where the status it was handed says: only "pending" writes.
Resume(p, row) ==
    call' = [call EXCEPT ![p].at = IF row.status = "pending" THEN "write" ELSE "effect",
                         ![p].claimed = row.effects]

\* The row is looked up: completed is inert, unfinished is resumed, and only a
\* first attempt is held to fromStates.
Look(p) ==
    LET o == call[p].occ row == ledger[o] IN
    /\ call[p].at = "look"
    /\ \/ row.status = "completed" /\ Goto(p, "inert")
       \/ row.status \in {"pending", "state_applied"} /\ Resume(p, row)
       \/ row.status = "none" /\ call[p].before \notin FromStates(o) /\ Goto(p, "refused")
       \/ row.status = "none" /\ call[p].before \in FromStates(o) /\ Goto(p, "insert")
    /\ UNCHANGED <<state, seqOf, ledger, ran, wrote, crashes>>

\* The claim. The loser of the unique key looks at the winner's row, which is
\* there for good, so its second look never inserts.
Insert(p) ==
    LET o == call[p].occ IN
    /\ call[p].at = "insert"
    /\ \/ /\ ledger[o].status = "none"
          /\ ledger' = [ledger EXCEPT ![o].status = "pending"]
          /\ Goto(p, "write")
       \/ /\ ledger[o].status # "none"
          /\ Goto(p, "look")
          /\ UNCHANGED ledger
    /\ UNCHANGED <<state, seqOf, ran, wrote, crashes>>

\* The state write: conditional on the designation only when the caller gave a
\* guard, and then zero rows is a refusal that leaves the row pending.
WriteState(p) ==
    LET o == call[p].occ IN
    /\ call[p].at = "write"
    /\ \/ /\ call[p].guard \in {"any", seqOf}
          /\ state' = ToState(o)
          /\ wrote' = wrote \cup {o}
          /\ Goto(p, "stamp")
       \/ /\ call[p].guard \notin {"any", seqOf}
          /\ Goto(p, "refused")
          /\ UNCHANGED <<state, wrote>>
    /\ UNCHANGED <<seqOf, ledger, ran, crashes>>

\* The status is stamped whatever it has become meanwhile.
Stamp(p) ==
    /\ call[p].at = "stamp"
    /\ ledger' = [ledger EXCEPT ![call[p].occ].status = "state_applied"]
    /\ Goto(p, "effect")
    /\ UNCHANGED <<state, seqOf, ran, wrote, crashes>>

\* Mutant: the claim pushes the key without the NOT-has condition.
AnyClaim(o, e) == TRUE

\* The update that claims an effect matches only a row that lacks it.
Unclaimed(o, e) == e \notin ledger[o].effects

\* runEffect: skipped when already claimed, by the row read or by the update.
ClaimEffect(p) ==
    LET o == call[p].occ e == Head(call[p].todo) IN
    /\ call[p].at = "effect" /\ call[p].todo # <<>>
    /\ \/ /\ e \notin call[p].claimed /\ Unclaimed(o, e)
          /\ ledger' = [ledger EXCEPT ![o].effects = @ \cup {e}]
          /\ call' = [call EXCEPT ![p].at = "run", ![p].claimed = @ \cup {e}]
       \/ /\ e \in call[p].claimed \/ ~Unclaimed(o, e)
          /\ call' = [call EXCEPT ![p].todo = Tail(@)]
          /\ UNCHANGED ledger
    /\ UNCHANGED <<state, seqOf, ran, wrote, crashes>>

RunEffect(p) ==
    /\ call[p].at = "run"
    /\ ran' = [ran EXCEPT ![call[p].occ][Head(call[p].todo)] = @ + 1]
    /\ call' = [call EXCEPT ![p].at = "effect", ![p].todo = Tail(@)]
    /\ UNCHANGED <<state, seqOf, ledger, wrote, crashes>>

Complete(p) ==
    /\ call[p].at = "effect" /\ call[p].todo = <<>>
    /\ ledger' = [ledger EXCEPT ![call[p].occ].status = "completed"]
    /\ Goto(p, "done")
    /\ UNCHANGED <<state, seqOf, ran, wrote, crashes>>

LedgerStep(p) ==
    \/ Look(p) \/ Insert(p) \/ WriteState(p) \/ Stamp(p)
    \/ ClaimEffect(p) \/ RunEffect(p) \/ Complete(p)

InCall(p)   == call[p].at \notin {"idle", "done", "inert", "refused"}
Returned(p) == call[p].at \in {"done", "inert", "refused"}

-----------------------------------------------------------------------------
(* Properties of the ledger.                                               *)

\* Each consequence of an occurrence happens at most once, however many callers
\* deliver it and resume it together (transitions.ts:249).
EffectsRunOnce == \A o \in Occurrences, e \in Effects : ran[o][e] <= 1

\* A row that says completed stands for a prospect that was moved: existence of
\* the claim is never taken for the move (transitions.ts:25).
CompletedWasApplied ==
    \A o \in Occurrences : ledger[o].status \in {"state_applied", "completed"} => o \in wrote
=============================================================================
