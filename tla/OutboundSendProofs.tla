-------------------------- MODULE OutboundSendProofs --------------------------
(***************************************************************************)
(* Proofs about OutboundSend, for any number of messages and workers and   *)
(* any bound on redrives and faults.                                       *)
(***************************************************************************)
EXTENDS OutboundSend, TLAPS

(***************************************************************************)
(* Types                                                                   *)
(***************************************************************************)

\* Whatever handleEmailSend reads, it goes on to one of its own branches.
LEMMA BranchType ==
  ASSUME TypeOK, NEW m \in Messages
  PROVE  Branch(m) \in PCs \ Owning
BY SMT DEF TypeOK, Branch, HasId, PCs, Owning, BeforeSend, Refused, AfterSend, Statuses,
   Claimable, Ages

\* The types hold at first.
LEMMA InitTypeOK == Init => TypeOK
BY BoundsAssumption DEF Init, TypeOK, Claimable, Statuses, Ages, Steps, Proofs, Jobs,
   PCs, Sweeps, SweepTasks, SweepWrites

\* The handler's writes keep every variable in its type.
LEMMA WorkerTypeOK ==
  ASSUME TypeOK, NEW w \in Workers, WorkerStep(w)
  PROVE  TypeOK'
<1>m. row[w] \in Messages
  BY DEF WorkerStep, TypeOK, Claim, ClaimLost, Block, Refuse, DeferForCap,
     Requeue, DryRunSend, CallProvider, ProviderAccepts, ProviderRefuses,
     ProviderSilent, RecordSent, RecordLimit, RecordRefusal, GiveBack,
     RecordAmbiguous, Resolve, Finalize, Release
<1> USE BoundsAssumption, <1>m
<1> USE DEF TypeOK, Claimable, Statuses, Ages, Steps, Proofs, Jobs, PCs, Owning,
        BeforeSend, Refused, AfterSend, SetStatus, Goto, Return, RetryOrDrop,
        Queue, Advance, Stop, rowVars, workerVars, sweepVars
<1>1. CASE Claim(w)
  BY <1>1 DEF Claim, Attempted
<1>2. CASE ClaimLost(w)
  BY <1>2 DEF ClaimLost
<1>3. CASE Block(w)
  BY <1>3 DEF Block
<1>4. CASE Refuse(w)
  BY <1>4 DEF Refuse
<1>5. CASE DeferForCap(w)
  BY <1>5 DEF DeferForCap
<1>6. CASE Requeue(w)
  BY <1>6 DEF Requeue
<1>7. CASE DryRunSend(w)
  BY <1>7 DEF DryRunSend
<1>8. CASE CallProvider(w)
  BY <1>8 DEF CallProvider
<1>9. CASE ProviderAccepts(w)
  BY <1>9 DEF ProviderAccepts
<1>10. CASE ProviderRefuses(w)
  BY <1>10 DEF ProviderRefuses
<1>11. CASE ProviderSilent(w)
  BY <1>11 DEF ProviderSilent
<1>12. CASE RecordSent(w)
  BY <1>12 DEF RecordSent
<1>13. CASE RecordLimit(w)
  BY <1>13 DEF RecordLimit
<1>14. CASE RecordRefusal(w)
  BY <1>14 DEF RecordRefusal
<1>15. CASE GiveBack(w)
  BY <1>15 DEF GiveBack
<1>16. CASE RecordAmbiguous(w)
  BY <1>16 DEF RecordAmbiguous
<1>17. CASE Resolve(w)
  BY <1>17 DEF Resolve
<1>18. CASE Finalize(w)
  BY <1>18 DEF Finalize
<1>19. CASE Release(w)
  BY <1>19 DEF Release
<1> QED
  BY <1>1, <1>2, <1>3, <1>4, <1>5, <1>6, <1>7, <1>8, <1>9, <1>10, <1>11,
     <1>12, <1>13, <1>14, <1>15, <1>16, <1>17, <1>18, <1>19 DEF WorkerStep

\* So do the sweeps, the composer and everything around them.
LEMMA OtherTypeOK ==
  ASSUME TypeOK, NEW m \in Messages,
         SweepStep(m) \/ ComposerStep(m) \/ Bounce(m) \/ Reply(m)
           \/ ClaimAges(m) \/ TimeComes(m) \/ LoseJobs(m)
  PROVE  TypeOK'
<1> USE BoundsAssumption
<1> USE DEF TypeOK, Claimable, Statuses, Ages, Older, Steps, Proofs, Jobs, SweepTasks,
        SweepWrites, SetStatus, Queue, Advance, Stop, rowVars, workerVars
<1>1. CASE SweepWrite(m)
  BY <1>1 DEF SweepWrite, SweepOutcome
<1>2. CASE SweepSettle(m)
  BY <1>2 DEF SweepSettle
<1>3. CASE SweepRedrive(m)
  BY <1>3 DEF SweepRedrive
<1>4. CASE Cancel(m)
  BY <1>4 DEF Cancel, sweepVars
<1>5. CASE Revive(m)
  BY <1>5 DEF Revive, sweepVars
<1>6. CASE Reschedule(m)
  <2>1. job' \in [Messages -> SUBSET Jobs]
    BY <1>6 DEF Reschedule
  <2>2. scheduled' \in [Messages -> BOOLEAN] /\ deferred' \in [Messages -> BOOLEAN]
    BY <1>6 DEF Reschedule
  <2> QED
    BY <1>6, <2>1, <2>2 DEF Reschedule, sweepVars
<1>7. CASE Abandon(m)
  BY <1>7 DEF Abandon, sweepVars
<1>8. CASE Bounce(m)
  BY <1>8 DEF Bounce, Answered, sweepVars
<1>9. CASE Reply(m)
  BY <1>9 DEF Reply, Answered, sweepVars
<1>10. CASE ClaimAges(m)
  BY <1>10 DEF ClaimAges, sweepVars
<1>11. CASE TimeComes(m)
  BY <1>11 DEF TimeComes, sweepVars
<1>12. CASE LoseJobs(m)
  BY <1>12 DEF LoseJobs, Fault, sweepVars
<1> QED
  BY <1>1, <1>2, <1>3, <1>4, <1>5, <1>6, <1>7, <1>8, <1>9, <1>10, <1>11,
     <1>12 DEF SweepStep, ComposerStep

\* What a sweep is given to do is well formed.
LEMMA SweepTaskType == ASSUME NEW m \in Messages PROVE SweepTask(m) \in SweepTasks
BY DEF SweepTask, StaleTask, HasId, ReconcileTask, RedriveTask, SweepTasks, SweepWrites

\* Every step keeps the types.
LEMMA NextTypeOK == TypeOK /\ [Next]_vars => TypeOK'
<1> SUFFICES ASSUME TypeOK, [Next]_vars PROVE TypeOK'
  OBVIOUS
<1> USE BoundsAssumption
<1>1. ASSUME NEW w \in Workers, NEW m \in Messages, Start(w, m) PROVE TypeOK'
  BY <1>1, BranchType DEF Start, TypeOK, rowVars, sweepVars
<1>2. ASSUME NEW w \in Workers, WorkerStep(w) PROVE TypeOK'
  BY <1>2, WorkerTypeOK
<1>3. ASSUME NEW w \in Workers, Crash(w) PROVE TypeOK'
  BY <1>3 DEF Crash, Fault, RetryOrDrop, Return, TypeOK, Jobs, PCs, rowVars, sweepVars
<1>4. ASSUME NEW w \in Workers, Stall(w) PROVE TypeOK'
  BY <1>4 DEF Stall, Fault, Queue, TypeOK, Jobs, rowVars, workerVars, sweepVars
<1>5. CASE SweepRead
  BY <1>5, SweepTaskType DEF SweepRead, After, TypeOK, Sweeps, rowVars, workerVars
<1>6. CASE SweepCrash
  BY <1>6 DEF SweepCrash, Fault, TypeOK, SweepTasks, rowVars, workerVars
<1>7. ASSUME NEW m \in Messages,
             SweepStep(m) \/ ComposerStep(m) \/ Bounce(m) \/ Reply(m)
               \/ ClaimAges(m) \/ TimeComes(m) \/ LoseJobs(m)
      PROVE  TypeOK'
  BY <1>7, OtherTypeOK
<1>8. CASE UNCHANGED vars
  BY <1>8 DEF TypeOK, vars
<1> QED
  BY <1>1, <1>2, <1>3, <1>4, <1>5, <1>6, <1>7, <1>8 DEF Next

\* Every variable keeps its type, for every number of rows and workers.
THEOREM TypeCorrect == Spec => []TypeOK
BY InitTypeOK, NextTypeOK, PTL DEF Spec

(***************************************************************************)
(* Safety.  AtMostOneDelivery is not inductive.  What carries it is who    *)
(* holds a row: an owner's row is not claimable, so that no second claim   *)
(* succeeds, and an owner that may still deliver, or give the row back as  *)
(* undelivered, holds a row that was never delivered.                      *)
(***************************************************************************)
OwnedIsClosed ==
  \A w \in Workers :
    pc[w] \in Owning => status[row[w]] \notin Claimable \cup {"cancelled"}

MayStillSend ==
  \A w \in Workers : pc[w] \in BeforeSend \cup Refused => delivered[row[w]] = 0

OpenIsUnsent ==
  \A m \in Messages :
    status[m] \in Claimable \cup {"cancelled"} => delivered[m] = 0

Inv ==
  /\ TypeOK
  /\ OneSender
  /\ OwnedIsClosed
  /\ MayStillSend
  /\ OpenIsUnsent
  /\ AtMostOneDelivery

\* The invariant holds at first.
LEMMA InitInv == Init => Inv
BY InitTypeOK DEF Init, Inv, OneSender, OwnedIsClosed, MayStillSend, OpenIsUnsent,
   AtMostOneDelivery, Owning, BeforeSend, Refused, AfterSend, Claimable

\* What a step of the handler may do to the five facts.
LEMMA WorkerInv ==
  ASSUME Inv, NEW w \in Workers, WorkerStep(w)
  PROVE  Inv'
<1>t. TypeOK'
  BY WorkerTypeOK DEF Inv
<1>m. row[w] \in Messages
  BY DEF Inv, WorkerStep, TypeOK, Claim, ClaimLost, Block, Refuse, DeferForCap,
     Requeue, DryRunSend, CallProvider, ProviderAccepts, ProviderRefuses,
     ProviderSilent, RecordSent, RecordLimit, RecordRefusal, GiveBack,
     RecordAmbiguous, Resolve, Finalize, Release
<1> USE <1>m, <1>t
<1> USE DEF Inv, TypeOK, OneSender, OwnedIsClosed, MayStillSend, OpenIsUnsent,
        AtMostOneDelivery, Claimable, PCs, Owning, BeforeSend, Refused, AfterSend,
        SetStatus, Goto, Return, rowVars
<1>1. CASE Claim(w)
  BY <1>1 DEF Claim, CanClaim
<1>2. CASE ClaimLost(w)
  BY <1>2 DEF ClaimLost
<1>3. CASE Block(w)
  BY <1>3 DEF Block
<1>4. CASE Refuse(w)
  BY <1>4 DEF Refuse
<1>5. CASE DeferForCap(w)
  BY <1>5 DEF DeferForCap
<1>6. CASE Requeue(w)
  BY <1>6 DEF Requeue
<1>7. CASE DryRunSend(w)
  BY <1>7 DEF DryRunSend
<1>8. CASE CallProvider(w)
  BY <1>8 DEF CallProvider
<1>9. CASE ProviderAccepts(w)
  BY <1>9 DEF ProviderAccepts
<1>10. CASE ProviderRefuses(w)
  BY <1>10 DEF ProviderRefuses
<1>11. CASE ProviderSilent(w)
  BY <1>11 DEF ProviderSilent
<1>12. CASE RecordSent(w)
  BY <1>12 DEF RecordSent
<1>13. CASE RecordLimit(w)
  BY <1>13 DEF RecordLimit
<1>14. CASE RecordRefusal(w)
  BY <1>14 DEF RecordRefusal
<1>15. CASE GiveBack(w)
  BY <1>15 DEF GiveBack
<1>16. CASE RecordAmbiguous(w)
  BY <1>16 DEF RecordAmbiguous
<1>17. CASE Resolve(w)
  BY <1>17 DEF Resolve
<1>18. CASE Finalize(w)
  BY <1>18 DEF Finalize
<1>19. CASE Release(w)
  BY <1>19 DEF Release
<1> QED
  BY <1>1, <1>2, <1>3, <1>4, <1>5, <1>6, <1>7, <1>8, <1>9, <1>10, <1>11,
     <1>12, <1>13, <1>14, <1>15, <1>16, <1>17, <1>18, <1>19 DEF WorkerStep

\* Sweeps and inbox sync only close rows; the composer moves unsent ones.
LEMMA OtherInv ==
  ASSUME Inv, NEW m \in Messages,
         SweepStep(m) \/ ComposerStep(m) \/ Bounce(m) \/ Reply(m)
           \/ ClaimAges(m) \/ TimeComes(m) \/ LoseJobs(m)
  PROVE  Inv'
<1>t. TypeOK'
  BY OtherTypeOK DEF Inv
<1> USE <1>t
<1> USE DEF Inv, TypeOK, OneSender, OwnedIsClosed, MayStillSend, OpenIsUnsent,
        AtMostOneDelivery, Claimable, PCs, Owning, BeforeSend, Refused, AfterSend,
        SetStatus, rowVars, workerVars
<1>1. CASE SweepWrite(m)
  BY <1>1 DEF SweepWrite, SweepOutcome
<1>2. CASE SweepSettle(m)
  BY <1>2 DEF SweepSettle
<1>3. CASE SweepRedrive(m)
  BY <1>3 DEF SweepRedrive
<1>4. CASE Cancel(m)
  BY <1>4 DEF Cancel
<1>5. CASE Revive(m)
  BY <1>5 DEF Revive
<1>6. CASE Reschedule(m)
  BY <1>6 DEF Reschedule
<1>7. CASE Abandon(m)
  BY <1>7 DEF Abandon
<1>8. CASE Bounce(m)
  BY <1>8 DEF Bounce, Answered
<1>9. CASE Reply(m)
  BY <1>9 DEF Reply, Answered
<1>10. CASE ClaimAges(m)
  BY <1>10 DEF ClaimAges
<1>11. CASE TimeComes(m)
  BY <1>11 DEF TimeComes
<1>12. CASE LoseJobs(m)
  BY <1>12 DEF LoseJobs
<1> QED
  BY <1>1, <1>2, <1>3, <1>4, <1>5, <1>6, <1>7, <1>8, <1>9, <1>10, <1>11,
     <1>12 DEF SweepStep, ComposerStep

\* Every step keeps the invariant.
LEMMA NextInv == Inv /\ [Next]_vars => Inv'
<1> SUFFICES ASSUME Inv, [Next]_vars PROVE Inv'
  OBVIOUS
<1>t. TypeOK'
  BY NextTypeOK DEF Inv
<1> USE <1>t
<1> USE DEF Inv, TypeOK, OneSender, OwnedIsClosed, MayStillSend, OpenIsUnsent,
        AtMostOneDelivery
<1>1. ASSUME NEW w \in Workers, NEW m \in Messages, Start(w, m) PROVE Inv'
  <2>1. Branch(m) \in PCs \ Owning
    BY BranchType
  <2> QED
    BY <1>1, <2>1 DEF Start, rowVars, Owning, PCs
<1>2. ASSUME NEW w \in Workers, WorkerStep(w) PROVE Inv'
  BY <1>2, WorkerInv
<1>3. ASSUME NEW w \in Workers, Crash(w) PROVE Inv'
  BY <1>3 DEF Crash, Return, rowVars, Owning, BeforeSend, Refused, AfterSend
<1>4. ASSUME NEW w \in Workers, Stall(w) PROVE Inv'
  BY <1>4 DEF Stall, rowVars, workerVars
<1>5. CASE SweepRead
  BY <1>5 DEF SweepRead, rowVars, workerVars
<1>6. CASE SweepCrash
  BY <1>6 DEF SweepCrash, rowVars, workerVars
<1>7. ASSUME NEW m \in Messages,
             SweepStep(m) \/ ComposerStep(m) \/ Bounce(m) \/ Reply(m)
               \/ ClaimAges(m) \/ TimeComes(m) \/ LoseJobs(m)
      PROVE  Inv'
  BY <1>7, OtherInv
<1>8. CASE UNCHANGED vars
  BY <1>8 DEF vars
<1> QED
  BY <1>1, <1>2, <1>3, <1>4, <1>5, <1>6, <1>7, <1>8 DEF Next

\* Crashes, retries, sweeps and stale workers never put one row on the wire
\* twice (workers/email.ts, "at most one physical send").
THEOREM SentAtMostOnce == Spec => []AtMostOneDelivery
<1>1. Inv => AtMostOneDelivery
  BY DEF Inv
<1> QED
  BY <1>1, InitInv, NextInv, PTL DEF Spec

\* The claim is exclusive: no two executions are past it for one row.
THEOREM OneSenderPerRow == Spec => []OneSender
<1>1. Inv => OneSender
  BY DEF Inv
<1> QED
  BY <1>1, InitInv, NextInv, PTL DEF Spec

\* A row open to a claim or to the composer is unsent and in nobody's hands.
THEOREM ReopenedUnsent == Spec => []ReopenedIsUnsent
<1>1. Inv => ReopenedIsUnsent
  BY DEF Inv, OpenIsUnsent, OwnedIsClosed, ReopenedIsUnsent
<1> QED
  BY <1>1, InitInv, NextInv, PTL DEF Spec

(***************************************************************************)
(* What is on its way was due when it was claimed, and stays due: the      *)
(* composer gives a new time only to rows that nobody holds.               *)
(***************************************************************************)
ClaimedIsDue == \A w \in Workers : pc[w] \in BeforeSend => ~scheduled[row[w]]

\* A claim is of a row that is due, and no other step reaches a row before its call.
LEMMA WorkerDue ==
  ASSUME Inv, ClaimedIsDue, NEW w \in Workers, WorkerStep(w)
  PROVE  ClaimedIsDue' /\ \A m \in Messages :
           delivered'[m] # delivered[m] => pc[w] = "calling" /\ row[w] = m
<1> USE DEF Inv, TypeOK, ClaimedIsDue, PCs, BeforeSend, Refused, Goto, Return, rowVars
<1>1. CASE Claim(w)
  BY <1>1 DEF Claim, CanClaim
<1>2. CASE ClaimLost(w) \/ Block(w) \/ Refuse(w) \/ DeferForCap(w) \/ Requeue(w)
             \/ DryRunSend(w)
  BY <1>2 DEF ClaimLost, Block, Refuse, DeferForCap, Requeue, DryRunSend
<1>3. CASE CallProvider(w) \/ ProviderAccepts(w) \/ ProviderRefuses(w) \/ ProviderSilent(w)
  BY <1>3 DEF CallProvider, ProviderAccepts, ProviderRefuses, ProviderSilent
<1>4. CASE RecordSent(w) \/ RecordLimit(w) \/ RecordRefusal(w) \/ RecordAmbiguous(w)
  BY <1>4 DEF RecordSent, RecordLimit, RecordRefusal, RecordAmbiguous
<1>5. CASE GiveBack(w) \/ Resolve(w) \/ Finalize(w) \/ Release(w)
  BY <1>5 DEF GiveBack, Resolve, Finalize, Release
<1> QED
  BY <1>1, <1>2, <1>3, <1>4, <1>5 DEF WorkerStep

\* Nobody else delivers, or schedules a row that somebody holds.
LEMMA OtherDue ==
  ASSUME Inv, ClaimedIsDue, NEW m \in Messages,
         SweepStep(m) \/ ComposerStep(m) \/ Bounce(m) \/ Reply(m)
           \/ ClaimAges(m) \/ TimeComes(m) \/ LoseJobs(m)
  PROVE  ClaimedIsDue' /\ delivered' = delivered
<1> USE DEF Inv, TypeOK, ClaimedIsDue, OwnedIsClosed, Owning, BeforeSend, Claimable, rowVars,
        workerVars
<1>1. CASE SweepStep(m)
  BY <1>1 DEF SweepStep, SweepWrite, SweepSettle, SweepRedrive
<1>2. CASE ComposerStep(m)
  <2>1. UNCHANGED <<workerVars, delivered>>
    BY <1>2 DEF ComposerStep, Cancel, Revive, Reschedule, Abandon
  <2>2. \A x \in Messages : scheduled'[x] => scheduled[x] \/ x = m
    BY <1>2 DEF ComposerStep, Cancel, Revive, Reschedule, Abandon
  <2>3. status[m] \in Claimable \cup {"cancelled"}
    BY <1>2 DEF ComposerStep, Cancel, Revive, Reschedule, Abandon
  <2> QED
    BY <2>1, <2>2, <2>3
<1>3. CASE Bounce(m) \/ Reply(m) \/ ClaimAges(m) \/ TimeComes(m) \/ LoseJobs(m)
  BY <1>3 DEF Bounce, Reply, Answered, ClaimAges, TimeComes, LoseJobs
<1> QED
  BY <1>1, <1>2, <1>3

\* Every step keeps what is claimed due, and delivers only what is due.
LEMMA NextDue ==
  ASSUME Inv, ClaimedIsDue, [Next]_vars
  PROVE  ClaimedIsDue' /\ \A m \in Messages :
           delivered'[m] # delivered[m] => ~scheduled[m] /\ status[m] # "cancelled"
<1> USE DEF ClaimedIsDue
<1>1. ASSUME NEW w \in Workers, NEW m \in Messages, Start(w, m)
      PROVE  ClaimedIsDue' /\ delivered' = delivered
  <2>1. Branch(m) \notin BeforeSend
    BY BranchType DEF Inv, Owning
  <2> QED
    BY <1>1, <2>1 DEF Start, rowVars, Inv, TypeOK
<1>2. ASSUME NEW w \in Workers, WorkerStep(w)
      PROVE  ClaimedIsDue' /\ \A m \in Messages :
               delivered'[m] # delivered[m] => ~scheduled[m] /\ status[m] # "cancelled"
  <2>1. pc[w] = "calling" => ~scheduled[row[w]] /\ status[row[w]] # "cancelled"
    BY DEF Inv, OwnedIsClosed, Owning, BeforeSend
  <2> QED
    BY <1>2, <2>1, WorkerDue
<1>3. ASSUME NEW w \in Workers, Crash(w) \/ Stall(w)
      PROVE  ClaimedIsDue' /\ delivered' = delivered
  BY <1>3 DEF Crash, Stall, Return, rowVars, workerVars, BeforeSend, Inv, TypeOK
<1>4. CASE SweepRead \/ SweepCrash
  BY <1>4 DEF SweepRead, SweepCrash, rowVars, workerVars
<1>5. ASSUME NEW m \in Messages,
             SweepStep(m) \/ ComposerStep(m) \/ Bounce(m) \/ Reply(m)
               \/ ClaimAges(m) \/ TimeComes(m) \/ LoseJobs(m)
      PROVE  ClaimedIsDue' /\ delivered' = delivered
  BY <1>5, OtherDue
<1>6. CASE UNCHANGED vars
  BY <1>6 DEF vars
<1> QED
  BY <1>1, <1>2, <1>3, <1>4, <1>5, <1>6 DEF Next

\* An email its composer took back, or put off, is not sent before its time, although
\* the worker's read and its claim lie apart (composedSend.ts, workers/email.ts).
THEOREM SentWhenDue == Spec => NeverSentEarly
<1>1. Init => ClaimedIsDue
  BY DEF Init, ClaimedIsDue, BeforeSend
<1>2. Inv /\ ClaimedIsDue /\ [Next]_vars => ClaimedIsDue'
  BY NextDue
<1>3. Inv /\ ClaimedIsDue /\ [Next]_vars =>
        [\A m \in Messages :
           delivered'[m] # delivered[m] => ~scheduled[m] /\ status[m] # "cancelled"]_vars
  BY NextDue
<1> QED
  BY <1>1, <1>2, <1>3, InitInv, NextInv, PTL DEF Spec, NeverSentEarly

(***************************************************************************)
(* Backed.  Whatever makes a worker or a sweep finalize a step goes back *)
(* to a message that the provider took, or to a tenant that sends nothing. *)
(***************************************************************************)
Delivered(m) == delivered[m] > 0 \/ dryRun

Backed ==
  /\ \A m \in Messages :
       status[m] \in {"sent", "bounced"} \/ evidence[m] # "none" => Delivered(m)
  /\ \A w \in Workers :
       pc[w] \in {"accepted", "recover", "finalize"} => Delivered(row[w])
  /\ \A m \in Messages :
       sweep[m] \in {"settle", "confirm", "finalize"} => Delivered(m)
  /\ \A m \in Messages : step[m] = "advanced" => Delivered(m)

\* Backed holds at first.
LEMMA InitBacked == Init => Backed
BY DEF Init, Backed

\* The mail workers' steps keep Backed.
LEMMA WorkerBacked ==
  ASSUME TypeOK, Backed, NEW w \in Workers, WorkerStep(w)
  PROVE  Backed'
<1>m. row[w] \in Messages
  BY DEF WorkerStep, TypeOK, Claim, ClaimLost, Block, Refuse, DeferForCap,
     Requeue, DryRunSend, CallProvider, ProviderAccepts, ProviderRefuses,
     ProviderSilent, RecordSent, RecordLimit, RecordRefusal, GiveBack,
     RecordAmbiguous, Resolve, Finalize, Release
<1> USE <1>m
<1> USE DEF TypeOK, Backed, Delivered, PCs, Refused, SetStatus, Goto, Return,
        Advance, Stop, rowVars, sweepVars
<1>1. CASE Claim(w)
  BY <1>1 DEF Claim, CanClaim
<1>2. CASE ClaimLost(w)
  BY <1>2 DEF ClaimLost
<1>3. CASE Block(w)
  BY <1>3 DEF Block
<1>4. CASE Refuse(w)
  BY <1>4 DEF Refuse
<1>5. CASE DeferForCap(w)
  BY <1>5 DEF DeferForCap
<1>6. CASE Requeue(w)
  BY <1>6 DEF Requeue
<1>7. CASE DryRunSend(w)
  BY <1>7 DEF DryRunSend
<1>8. CASE CallProvider(w)
  BY <1>8 DEF CallProvider
<1>9. CASE ProviderAccepts(w)
  BY <1>9 DEF ProviderAccepts
<1>10. CASE ProviderRefuses(w)
  BY <1>10 DEF ProviderRefuses
<1>11. CASE ProviderSilent(w)
  BY <1>11 DEF ProviderSilent
<1>12. CASE RecordSent(w)
  BY <1>12 DEF RecordSent
<1>13. CASE RecordLimit(w)
  BY <1>13 DEF RecordLimit
<1>14. CASE RecordRefusal(w)
  BY <1>14 DEF RecordRefusal
<1>15. CASE GiveBack(w)
  BY <1>15 DEF GiveBack
<1>16. CASE RecordAmbiguous(w)
  BY <1>16 DEF RecordAmbiguous
<1>17. CASE Resolve(w)
  BY <1>17 DEF Resolve
<1>18. CASE Finalize(w)
  BY <1>18 DEF Finalize
<1>19. CASE Release(w)
  BY <1>19 DEF Release
<1> QED
  BY <1>1, <1>2, <1>3, <1>4, <1>5, <1>6, <1>7, <1>8, <1>9, <1>10, <1>11,
     <1>12, <1>13, <1>14, <1>15, <1>16, <1>17, <1>18, <1>19 DEF WorkerStep

\* So do the steps of the sweeps, composers, replies and queue.
LEMMA OtherBacked ==
  ASSUME TypeOK, Backed, NEW m \in Messages,
         SweepStep(m) \/ ComposerStep(m) \/ Bounce(m) \/ Reply(m)
           \/ ClaimAges(m) \/ TimeComes(m) \/ LoseJobs(m)
  PROVE  Backed'
<1> USE DEF TypeOK, Backed, Delivered, SweepWrites, SetStatus, Advance, Stop,
        rowVars, workerVars, sweepVars
<1>1. CASE SweepWrite(m)
  BY <1>1 DEF SweepWrite, SweepOutcome
<1>2. CASE SweepSettle(m)
  BY <1>2 DEF SweepSettle
<1>3. CASE SweepRedrive(m)
  BY <1>3 DEF SweepRedrive
<1>4. CASE Cancel(m)
  BY <1>4 DEF Cancel
<1>5. CASE Revive(m)
  BY <1>5 DEF Revive
<1>6. CASE Reschedule(m)
  BY <1>6 DEF Reschedule
<1>7. CASE Abandon(m)
  BY <1>7 DEF Abandon
<1>8. CASE Bounce(m)
  BY <1>8 DEF Bounce, Answered
<1>9. CASE Reply(m)
  BY <1>9 DEF Reply, Answered
<1>10. CASE ClaimAges(m)
  BY <1>10 DEF ClaimAges
<1>11. CASE TimeComes(m)
  BY <1>11 DEF TimeComes
<1>12. CASE LoseJobs(m)
  BY <1>12 DEF LoseJobs
<1> QED
  BY <1>1, <1>2, <1>3, <1>4, <1>5, <1>6, <1>7, <1>8, <1>9, <1>10, <1>11,
     <1>12 DEF SweepStep, ComposerStep

\* Every step keeps Backed.
LEMMA NextBacked == TypeOK /\ Backed /\ [Next]_vars => Backed'
<1> SUFFICES ASSUME TypeOK, Backed, [Next]_vars PROVE Backed'
  OBVIOUS
<1> USE DEF TypeOK, Backed, Delivered
<1>1. ASSUME NEW w \in Workers, NEW m \in Messages, Start(w, m) PROVE Backed'
  BY <1>1 DEF Start, Branch, HasId, rowVars, sweepVars
<1>2. ASSUME NEW w \in Workers, WorkerStep(w) PROVE Backed'
  BY <1>2, WorkerBacked
<1>3. ASSUME NEW w \in Workers, Crash(w) PROVE Backed'
  BY <1>3 DEF Crash, Return, rowVars, sweepVars
<1>4. ASSUME NEW w \in Workers, Stall(w) PROVE Backed'
  BY <1>4 DEF Stall, rowVars, workerVars, sweepVars
<1>5. CASE SweepRead
  BY <1>5 DEF SweepRead, SweepTask, StaleTask, HasId, ReconcileTask, RedriveTask, rowVars,
     workerVars
<1>6. CASE SweepCrash
  BY <1>6 DEF SweepCrash, rowVars, workerVars
<1>7. ASSUME NEW m \in Messages,
             SweepStep(m) \/ ComposerStep(m) \/ Bounce(m) \/ Reply(m)
               \/ ClaimAges(m) \/ TimeComes(m) \/ LoseJobs(m)
      PROVE  Backed'
  BY <1>7, OtherBacked
<1>8. CASE UNCHANGED vars
  BY <1>8 DEF vars
<1> QED
  BY <1>1, <1>2, <1>3, <1>4, <1>5, <1>6, <1>7, <1>8 DEF Next

\* The cadence moves on only behind a delivered email, whichever of the
\* worker, a redelivered job and the reconciliation sweep moves it.
THEOREM AdvanceIsEarned == Spec => []AdvanceNeedsDelivery
<1>1. Backed => AdvanceNeedsDelivery
  BY DEF Backed, Delivered, AdvanceNeedsDelivery
<1> QED
  BY <1>1, InitTypeOK, NextTypeOK, InitBacked, NextBacked, PTL DEF Spec

(***************************************************************************)
(* Refinement of SendOnce.  A step of the pipeline moves one message at    *)
(* most, and moves it as SendOnce allows.                                  *)
(***************************************************************************)
Moves ==
  {<<"queued", "in_flight">>, <<"in_flight", "closed">>, <<"queued", "withdrawn">>,
   <<"withdrawn", "queued">>, <<"queued", "closed">>, <<"withdrawn", "closed">>}

\* What a step may do to m, and it leaves every other message alone.
OnceStep(m) ==
  /\ \A x \in Messages \ {m} : PhaseOf(x)' = PhaseOf(x)
  /\ \/ PhaseOf(m)' = PhaseOf(m) /\ delivered' = delivered
     \/ /\ PhaseOf(m) = "in_flight" /\ PhaseOf(m)' = "in_flight"
        /\ delivered[m] = 0 /\ delivered' = [delivered EXCEPT ![m] = 1]
     \/ /\ PhaseOf(m) = "in_flight" /\ PhaseOf(m)' = "queued"
        /\ delivered[m] = 0 /\ delivered' = delivered
     \/ <<PhaseOf(m), PhaseOf(m)'>> \in Moves /\ delivered' = delivered

\* A step that moves one message's phase as SendOnce allows is a step of SendOnce.
LEMMA OnceStepRefines ==
  ASSUME NEW m \in Messages, OnceStep(m)
  PROVE  [Once!Next]_(Once!vars)
<1> DEFINE P == [x \in Messages |-> PhaseOf(x)]
<1>1. \A x \in Messages : P[x] = PhaseOf(x) /\ P'[x] = PhaseOf(x)'
  OBVIOUS
<1>2. P' = [P EXCEPT ![m] = PhaseOf(m)']
  BY DEF OnceStep
<1> QED
  BY <1>1, <1>2 DEF OnceStep, Moves, Once!Next, Once!vars, Once!Take, Once!Deliver,
     Once!PutBack, Once!Close, Once!Withdraw, Once!Resubmit, Once!Drop, Once!Move

\* The handler moves the message it holds.
LEMMA WorkerMoves ==
  ASSUME Inv, NEW w \in Workers, NEW m \in Messages, row[w] = m, WorkerStep(w)
  PROVE  OnceStep(m)
<1> USE DEF OnceStep, Moves, PhaseOf, InFlight, Inv, TypeOK, OneSender,
        OwnedIsClosed, MayStillSend, OpenIsUnsent, Claimable, PCs, Owning,
        BeforeSend, Refused, AfterSend, SetStatus, Goto, Return, rowVars
<1>1. CASE Claim(w)
  BY <1>1 DEF Claim, CanClaim
<1>2. CASE ClaimLost(w)
  BY <1>2 DEF ClaimLost
<1>3. CASE Block(w)
  BY <1>3 DEF Block
<1>4. CASE Refuse(w)
  BY <1>4 DEF Refuse
<1>5. CASE DeferForCap(w)
  BY <1>5 DEF DeferForCap
<1>6. CASE Requeue(w)
  BY <1>6 DEF Requeue
<1>7. CASE DryRunSend(w)
  BY <1>7 DEF DryRunSend
<1>8. CASE CallProvider(w)
  BY <1>8 DEF CallProvider
<1>9. CASE ProviderAccepts(w)
  <2>0. delivered[m] = 0 /\ delivered' = [delivered EXCEPT ![m] = delivered[m] + 1]
    BY <1>9 DEF ProviderAccepts
  <2>1. delivered[m] = 0 /\ delivered' = [delivered EXCEPT ![m] = 1]
    BY ONLY <2>0
  <2>2. \A x \in Messages : PhaseOf(x)' = PhaseOf(x)
    BY <1>9 DEF ProviderAccepts
  <2>3. PhaseOf(m) = "in_flight"
    BY <1>9 DEF ProviderAccepts
  <2> QED
    BY <2>1, <2>2, <2>3 DEF OnceStep
<1>10. CASE ProviderRefuses(w)
  BY <1>10 DEF ProviderRefuses
<1>11. CASE ProviderSilent(w)
  BY <1>11 DEF ProviderSilent
<1>12. CASE RecordSent(w)
  BY <1>12 DEF RecordSent
<1>13. CASE RecordLimit(w)
  BY <1>13 DEF RecordLimit
<1>14. CASE RecordRefusal(w)
  BY <1>14 DEF RecordRefusal
<1>15. CASE GiveBack(w)
  BY <1>15 DEF GiveBack
<1>16. CASE RecordAmbiguous(w)
  BY <1>16 DEF RecordAmbiguous
<1>17. CASE Resolve(w)
  BY <1>17 DEF Resolve
<1>18. CASE Finalize(w)
  BY <1>18 DEF Finalize
<1>19. CASE Release(w)
  BY <1>19 DEF Release
<1> QED
  BY <1>1, <1>2, <1>3, <1>4, <1>5, <1>6, <1>7, <1>8, <1>9, <1>10, <1>11,
     <1>12, <1>13, <1>14, <1>15, <1>16, <1>17, <1>18, <1>19 DEF WorkerStep

\* The sweeps, the composer and inbox sync move a message nobody holds, or
\* change the record of one that stays in flight.
LEMMA OtherMoves ==
  ASSUME Inv, NEW m \in Messages,
         SweepStep(m) \/ ComposerStep(m) \/ Bounce(m) \/ Reply(m)
           \/ ClaimAges(m) \/ TimeComes(m) \/ LoseJobs(m)
  PROVE  OnceStep(m)
<1> USE DEF OnceStep, Moves, PhaseOf, InFlight, Inv, TypeOK, OwnedIsClosed,
        Claimable, PCs, SweepWrites, SetStatus, rowVars, workerVars
<1>1. CASE SweepWrite(m)
  BY <1>1 DEF SweepWrite, SweepOutcome
<1>2. CASE SweepSettle(m)
  BY <1>2 DEF SweepSettle
<1>3. CASE SweepRedrive(m)
  BY <1>3 DEF SweepRedrive
<1>4. CASE Cancel(m)
  BY <1>4 DEF Cancel
<1>5. CASE Revive(m)
  BY <1>5 DEF Revive
<1>6. CASE Reschedule(m)
  BY <1>6 DEF Reschedule
<1>7. CASE Abandon(m)
  BY <1>7 DEF Abandon
<1>8. CASE Bounce(m)
  BY <1>8 DEF Bounce, Answered
<1>9. CASE Reply(m)
  BY <1>9 DEF Reply, Answered
<1>10. CASE ClaimAges(m)
  BY <1>10 DEF ClaimAges
<1>11. CASE TimeComes(m)
  BY <1>11 DEF TimeComes
<1>12. CASE LoseJobs(m)
  BY <1>12 DEF LoseJobs
<1> QED
  BY <1>1, <1>2, <1>3, <1>4, <1>5, <1>6, <1>7, <1>8, <1>9, <1>10, <1>11,
     <1>12 DEF SweepStep, ComposerStep

\* The first states are first states of SendOnce.
LEMMA InitOnce == Init => Once!Init
BY DEF Init, Once!Init, PhaseOf, InFlight, Claimable, Owning, BeforeSend, Refused,
   AfterSend

\* Every step is a step of SendOnce or leaves its variables alone.
LEMMA NextOnce == Inv /\ [Next]_vars => [Once!Next]_(Once!vars)
<1> SUFFICES ASSUME Inv, [Next]_vars PROVE [Once!Next]_(Once!vars)
  OBVIOUS
<1>1. ASSUME NEW w \in Workers, NEW m \in Messages, Start(w, m)
      PROVE  OnceStep(m)
  <2>1. Branch(m) \in PCs \ Owning
    BY BranchType DEF Inv
  <2> QED
    BY <1>1, <2>1 DEF Start, OnceStep, PhaseOf, InFlight, Inv, TypeOK, Owning,
       BeforeSend, Refused, AfterSend, rowVars
<1>2. ASSUME NEW w \in Workers, NEW m \in Messages, row[w] = m, WorkerStep(w)
      PROVE  OnceStep(m)
  BY <1>2, WorkerMoves
<1>3. ASSUME NEW w \in Workers, NEW m \in Messages, row[w] = m, Crash(w)
      PROVE  OnceStep(m)
  BY <1>3 DEF Crash, Return, rowVars, OnceStep, Moves, PhaseOf, InFlight, Inv,
     TypeOK, OneSender, OwnedIsClosed, Owning, BeforeSend, Refused, AfterSend
<1>4. ASSUME UNCHANGED <<status, pc, row, delivered>> PROVE UNCHANGED Once!vars
  BY <1>4 DEF Once!vars, PhaseOf, InFlight
<1>5. ASSUME NEW w \in Workers, Stall(w) PROVE UNCHANGED Once!vars
  BY <1>5, <1>4 DEF Stall, rowVars, workerVars
<1>6. CASE SweepRead
  BY <1>6, <1>4 DEF SweepRead, rowVars, workerVars
<1>7. CASE SweepCrash
  BY <1>7, <1>4 DEF SweepCrash, rowVars, workerVars
<1>8. ASSUME NEW m \in Messages,
             SweepStep(m) \/ ComposerStep(m) \/ Bounce(m) \/ Reply(m)
               \/ ClaimAges(m) \/ TimeComes(m) \/ LoseJobs(m)
      PROVE  OnceStep(m)
  BY <1>8, OtherMoves
<1>9. CASE UNCHANGED vars
  BY <1>9, <1>4 DEF vars
<1>h. ASSUME NEW w \in Workers, WorkerStep(w) \/ Crash(w) PROVE row[w] \in Messages
  <2>1. pc[w] # "idle"
    BY <1>h DEF WorkerStep, Crash, Claim, ClaimLost, Block, Refuse, DeferForCap,
       Requeue, DryRunSend, CallProvider, ProviderAccepts, ProviderRefuses,
       ProviderSilent, RecordSent, RecordLimit, RecordRefusal, GiveBack,
       RecordAmbiguous, Resolve, Finalize, Release
  <2> QED
    BY <2>1 DEF Inv, TypeOK
<1> QED
  BY <1>1, <1>2, <1>3, <1>h, <1>5, <1>6, <1>7, <1>8, <1>9, OnceStepRefines DEF Next

\* The pipeline implements SendOnce: with its crashes, sweeps and retries it
\* still looks like one sender taking each message into flight at a time.
THEOREM Refinement == Spec => SendsOnce
BY InitInv, NextInv, InitOnce, NextOnce, PTL DEF Spec, SendsOnce, Once!Spec

=============================================================================
