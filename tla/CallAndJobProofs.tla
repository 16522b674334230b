--------------------------- MODULE CallAndJobProofs ---------------------------
(***************************************************************************)
(* What holds of the dialer and of the job ledger for every number of      *)
(* parked legs, runners, callers and jobs, in the behaviours of MCServices *)
(* that run them.                                                          *)
(***************************************************************************)
EXTENDS MCServices, TLAPS

(***************************************************************************)
(* The dialer                                                              *)
(***************************************************************************)
Statuses == Dialer!Live \cup Dialer!Terminal

CallRows == [status : Statuses, owner : Legs \cup {"none"}, started : BOOLEAN,
             answeredAt : BOOLEAN, leg : BOOLEAN, activity : BOOLEAN]

CallType ==
    /\ call \in CallRows
    /\ web \in [Legs -> {"none", "gate", "connect", "over"}]
    /\ line \in {"none", "ringing", "answered", "over"}
    /\ event \in [Dialer!Events -> {"none", "sent", "stored", "done"}]
    /\ logs \in 0 .. 1 /\ dials \in 0 .. 1
    /\ answered \in BOOLEAN /\ unlogged \in BOOLEAN

Places == {"idle", "apply", "fill", "log", "link", "mark"}

\* A runner at work is at an event that was stored, of a call that was claimed.
RunnerType ==
    /\ run \in [Runners -> [event : Dialer!Events \cup {"none"}, at : Places, had : BOOLEAN]]
    /\ cron \in [event : {"none"}, at : {"idle", "apply", "log"}, had : BOOLEAN]
    /\ \A r \in Runners : run[r].at # "idle" =>
         /\ run[r].event \in Dialer!Events /\ event[run[r].event] \in {"stored", "done"}
         /\ call.owner \in Legs
    /\ \A r \in Runners : run[r].at = "fill" => run[r].event = "answer"
    /\ \A r \in Runners : run[r].at \in {"log", "link"} => run[r].event = "hangup"

\* The call is the claimer's: nobody is about to dial it but the webhook that claimed
\* it, and nothing has happened on the line before it does.
ClaimedOnce ==
    /\ call.status \in Dialer!Live \ {"authorized"} => call.owner \in Legs
    /\ call.status = "authorized" => ~call.started /\ \A l \in Legs : web[l] # "connect"
    /\ \A l \in Legs : web[l] = "connect" => dials = 0 /\ call.owner = l
    /\ dials = 1 => call.owner \in Legs /\ call.status # "authorized"
    /\ dials = 0 => line = "none" /\ \A e \in Dialer!Events : event[e] = "none"

\* Only the lead's own answer is ever taken for an answer.
AnswersAreReal ==
    /\ line \in {"none", "ringing"} => event["answer"] = "none"
    /\ event["answer"] # "none" => answered
    /\ call.answeredAt => answered
    /\ \A r \in Runners : run[r].had => answered
    /\ cron.had => answered
    /\ call.status = "completed" => answered

\* A call that has ended is logged, or somebody is still to log it.
EndsAreLogged ==
    /\ line # "over" => event["hangup"] = "none"
    /\ \A r \in Runners : run[r].event = "hangup" /\ run[r].at \in {"log", "link", "mark"} =>
         call.status \in Dialer!Terminal
    /\ \A r \in Runners : run[r].at = "link" => logs = 1
    /\ \A r \in Runners : run[r].event = "hangup" /\ run[r].at = "mark" =>
         (call.started => call.activity)
    /\ cron.at = "log" => call.status \in Dialer!Terminal
    /\ call.activity => logs = 1
    /\ event["hangup"] = "done" /\ call.started =>
         call.status \in Dialer!Terminal /\ call.activity
    /\ call.started /\ call.status \in Dialer!Terminal /\ ~call.activity =>
         event["hangup"] = "stored" \/ cron.at = "log" \/ unlogged

DialerInv == CallType /\ RunnerType /\ ClaimedOnce /\ AnswersAreReal /\ EndsAreLogged

DialerGood == service = "dialer" => DialerInv

\* The ranks of the statuses, as the row is moved up them.
LEMMA Ranks ==
    /\ Dialer!Rank("authorized") = 1 /\ Dialer!Rank("initiated") = 2
    /\ Dialer!Rank("ringing") = 3 /\ Dialer!Rank("answered") = 4
    /\ \A s \in Dialer!Terminal : Dialer!Rank(s) = 5
  <1> USE DEF Dialer!Rank, Dialer!Order, Dialer!Terminal, Dialer!Final
  <1>1. \A i \in 1 .. 4 : i = 1 \/ i = 2 \/ i = 3 \/ i = 4
    OBVIOUS
  <1>2. (CHOOSE i \in 1 .. 4 : Dialer!Order[i] = "authorized") = 1
    BY <1>1
  <1>3. (CHOOSE i \in 1 .. 4 : Dialer!Order[i] = "initiated") = 2
    BY <1>1
  <1>4. (CHOOSE i \in 1 .. 4 : Dialer!Order[i] = "ringing") = 3
    BY <1>1
  <1>5. (CHOOSE i \in 1 .. 4 : Dialer!Order[i] = "answered") = 4
    BY <1>1
  <1> QED
    BY <1>2, <1>3, <1>4, <1>5

\* A row is moved up to a status, and stays where it is if it is there or beyond.
LEMMA AdvanceMoves ==
  ASSUME CallType, NEW to \in {"ringing", "answered"} \cup Dialer!Terminal
  PROVE  \E s \in {call.status, to} :
           /\ Dialer!Advance(to) = [call EXCEPT !.status = s]
           /\ call.status \in Dialer!Terminal => s = call.status
           /\ to \in Dialer!Terminal => s \in Dialer!Terminal
           /\ s = "authorized" => call.status = "authorized"
  <1>1. call = [call EXCEPT !.status = call.status]
    BY DEF CallType, CallRows
  <1>2. CASE call.status \in Dialer!Terminal
    <2>1. Dialer!Rank(call.status) = 5 /\ Dialer!Rank(to) \in 1 .. 5
      BY <1>2, Ranks DEF Dialer!Terminal
    <2>2. ~(Dialer!Rank(call.status) < Dialer!Rank(to))
      BY <2>1
    <2>3. Dialer!Advance(to) = call
      BY <2>2 DEF Dialer!Advance
    <2> QED
      BY <1>1, <1>2, <2>3
  <1>3. CASE call.status \notin Dialer!Terminal
    <2>1. call.status \in Dialer!Live
      BY <1>3 DEF CallType, CallRows, Statuses
    <2>2. to \in Dialer!Terminal => Dialer!Rank(call.status) < Dialer!Rank(to)
      BY <2>1, Ranks DEF Dialer!Live
    <2> QED
      BY <1>1, <1>3, <2>2 DEF Dialer!Advance, Dialer!Terminal, Dialer!Final
  <1> QED
    BY <1>2, <1>3


\* The row after a write, field by field.
CallIs(s, o, st, an, lg, ac) ==
    /\ call' \in CallRows
    /\ call'.status = s /\ call'.owner = o /\ call'.started = st
    /\ call'.answeredAt = an /\ call'.leg = lg /\ call'.activity = ac

\* A call's row, field by field, and with one field changed.
LEMMA CallFields ==
  ASSUME NEW c \in CallRows, NEW s \in Statuses, NEW o, NEW b \in BOOLEAN
  PROVE  /\ c =
              [status |-> c.status, owner |-> c.owner, started |-> c.started,
               answeredAt |-> c.answeredAt, leg |-> c.leg, activity |-> c.activity]
         /\ [c EXCEPT !.status = s] =
              [status |-> s, owner |-> c.owner, started |-> c.started,
               answeredAt |-> c.answeredAt, leg |-> c.leg, activity |-> c.activity]
         /\ [c EXCEPT !.owner = o] =
              [status |-> c.status, owner |-> o, started |-> c.started,
               answeredAt |-> c.answeredAt, leg |-> c.leg, activity |-> c.activity]
         /\ [c EXCEPT !.started = b] =
              [status |-> c.status, owner |-> c.owner, started |-> b,
               answeredAt |-> c.answeredAt, leg |-> c.leg, activity |-> c.activity]
         /\ [c EXCEPT !.answeredAt = b] =
              [status |-> c.status, owner |-> c.owner, started |-> c.started,
               answeredAt |-> b, leg |-> c.leg, activity |-> c.activity]
         /\ [c EXCEPT !.leg = b] =
              [status |-> c.status, owner |-> c.owner, started |-> c.started,
               answeredAt |-> c.answeredAt, leg |-> b, activity |-> c.activity]
         /\ [c EXCEPT !.activity = b] =
              [status |-> c.status, owner |-> c.owner, started |-> c.started,
               answeredAt |-> c.answeredAt, leg |-> c.leg, activity |-> b]
  <1>1. DOMAIN c = {"status", "owner", "started", "answeredAt", "leg", "activity"}
    BY DEF CallRows
  <1>2. c =
          [status |-> c.status, owner |-> c.owner, started |-> c.started,
           answeredAt |-> c.answeredAt, leg |-> c.leg, activity |-> c.activity]
    BY <1>1 DEF CallRows
  <1>3. [c EXCEPT !.status = s] =
          [status |-> s, owner |-> c.owner, started |-> c.started,
           answeredAt |-> c.answeredAt, leg |-> c.leg, activity |-> c.activity]
    BY <1>1 DEF CallRows
  <1>4. [c EXCEPT !.owner = o] =
          [status |-> c.status, owner |-> o, started |-> c.started,
           answeredAt |-> c.answeredAt, leg |-> c.leg, activity |-> c.activity]
    BY <1>1 DEF CallRows
  <1>5. [c EXCEPT !.started = b] =
          [status |-> c.status, owner |-> c.owner, started |-> b,
           answeredAt |-> c.answeredAt, leg |-> c.leg, activity |-> c.activity]
    BY <1>1 DEF CallRows
  <1>6. [c EXCEPT !.answeredAt = b] =
          [status |-> c.status, owner |-> c.owner, started |-> c.started,
           answeredAt |-> b, leg |-> c.leg, activity |-> c.activity]
    BY <1>1 DEF CallRows
  <1>7. [c EXCEPT !.leg = b] =
          [status |-> c.status, owner |-> c.owner, started |-> c.started,
           answeredAt |-> c.answeredAt, leg |-> b, activity |-> c.activity]
    BY <1>1 DEF CallRows
  <1>8. [c EXCEPT !.activity = b] =
          [status |-> c.status, owner |-> c.owner, started |-> c.started,
           answeredAt |-> c.answeredAt, leg |-> c.leg, activity |-> b]
    BY <1>1 DEF CallRows
  <1> QED
    BY <1>2, <1>3, <1>4, <1>5, <1>6, <1>7, <1>8

\* A call's row with two fields changed.
LEMMA TwoFields ==
  ASSUME NEW c \in CallRows, NEW s \in Statuses, NEW b \in BOOLEAN
  PROVE  [c EXCEPT !.status = s, !.started = b] =
           [status |-> s, owner |-> c.owner, started |-> b,
            answeredAt |-> c.answeredAt, leg |-> c.leg, activity |-> c.activity]
  <1>1. PICK d : d = [c EXCEPT !.status = s]
    OBVIOUS
  <1>2. d = [status |-> s, owner |-> c.owner, started |-> c.started,
             answeredAt |-> c.answeredAt, leg |-> c.leg, activity |-> c.activity]
    BY <1>1, CallFields
  <1>3. d \in CallRows
    BY <1>2 DEF CallRows
  <1>4. [c EXCEPT !.status = s, !.started = b] = [d EXCEPT !.started = b]
    BY <1>1
  <1> QED
    BY <1>2, <1>3, <1>4, CallFields

\* A call's row with three fields changed.
LEMMA ThreeFields ==
  ASSUME NEW c \in CallRows, NEW s \in Statuses, NEW o, NEW b \in BOOLEAN
  PROVE  [c EXCEPT !.status = s, !.started = b, !.owner = o] =
           [status |-> s, owner |-> o, started |-> b,
            answeredAt |-> c.answeredAt, leg |-> c.leg, activity |-> c.activity]
  <1>1. PICK d : d = [c EXCEPT !.status = s, !.started = b]
    OBVIOUS
  <1>2. d = [status |-> s, owner |-> c.owner, started |-> b,
             answeredAt |-> c.answeredAt, leg |-> c.leg, activity |-> c.activity]
    BY <1>1, TwoFields
  <1>3. d \in CallRows
    BY <1>2 DEF CallRows
  <1>4. [c EXCEPT !.status = s, !.started = b, !.owner = o] = [d EXCEPT !.owner = o]
    BY <1>1
  <1> QED
    BY <1>2, <1>3, <1>4, CallFields

\* A row that is written whole has the fields written.
LEMMA RowWritten ==
  ASSUME NEW s \in Statuses, NEW o \in Legs \cup {"none"}, NEW st \in BOOLEAN,
         NEW an \in BOOLEAN, NEW lg \in BOOLEAN, NEW ac \in BOOLEAN,
         call' = [status |-> s, owner |-> o, started |-> st, answeredAt |-> an,
                  leg |-> lg, activity |-> ac]
  PROVE  CallIs(s, o, st, an, lg, ac)
  BY Zenon DEF CallIs, CallRows

\* The fields of a call's row.
LEMMA FieldTypes ==
  ASSUME NEW c \in CallRows
  PROVE  /\ c.status \in Statuses /\ c.owner \in Legs \cup {"none"} /\ c.started \in BOOLEAN
         /\ c.answeredAt \in BOOLEAN /\ c.leg \in BOOLEAN /\ c.activity \in BOOLEAN
  BY Zenon DEF CallRows

\* A row whose status is moved up is the same in every other field.
LEMMA Advanced ==
  ASSUME CallType, NEW to \in {"ringing", "answered"} \cup Dialer!Terminal,
         call' = Dialer!Advance(to)
  PROVE  \E s \in {call.status, to} :
           /\ CallIs(s, call.owner, call.started, call.answeredAt, call.leg, call.activity)
           /\ call.status \in Dialer!Terminal => s = call.status
           /\ to \in Dialer!Terminal => s \in Dialer!Terminal
           /\ s = "authorized" => call.status = "authorized"
  <1>1. PICK s \in {call.status, to} :
           /\ call' = [call EXCEPT !.status = s]
           /\ call.status \in Dialer!Terminal => s = call.status
           /\ to \in Dialer!Terminal => s \in Dialer!Terminal
           /\ s = "authorized" => call.status = "authorized"
    BY AdvanceMoves
  <1>2. call \in CallRows /\ s \in Statuses
    BY FieldTypes, Zenon DEF CallType, Statuses, Dialer!Live
  <1>3. CASE s = call.status
    <2>1. call' = call
      BY <1>1, <1>2, <1>3 DEF CallRows
    <2> QED
      BY <1>1, <1>2, <1>3, <2>1 DEF CallIs
  <1>4. call' = [call EXCEPT !.status = s]
    BY <1>1
  <1>5. call' = [status |-> s, owner |-> call.owner, started |-> call.started,
                 answeredAt |-> call.answeredAt, leg |-> call.leg, activity |-> call.activity]
    BY <1>2, <1>4 DEF CallRows
  <1>6. CallIs(s, call.owner, call.started, call.answeredAt, call.leg, call.activity)
    BY <1>2, <1>5, FieldTypes, RowWritten
  <1> QED
    BY <1>1, <1>6

\* A call that is finished has ended, with the time of the answer filled in.
LEMMA FinishedCall ==
  ASSUME CallType, NEW saw \in BOOLEAN, NEW cause \in {"canceled", "no_answer", "failed"},
         call' = Dialer!Finished(saw, cause)
  PROVE  \E s \in {call.status, IF saw THEN "completed" ELSE cause} :
           /\ CallIs(s, call.owner, call.started, call.answeredAt \/ saw, call.leg, call.activity)
           /\ s \in Dialer!Terminal
           /\ call.status \in Dialer!Terminal => s = call.status
  <1> DEFINE to == IF saw THEN "completed" ELSE cause
  <1>1. to \in Dialer!Terminal
    BY DEF Dialer!Terminal, Dialer!Final
  <1>2. PICK s \in {call.status, to} :
           /\ Dialer!Advance(to) = [call EXCEPT !.status = s]
           /\ call.status \in Dialer!Terminal => s = call.status
           /\ s \in Dialer!Terminal
    BY <1>1, AdvanceMoves
  <1>3. call \in CallRows /\ s \in Statuses
    BY <1>2 DEF CallType, Statuses
  <1>4. PICK d : d = [call EXCEPT !.status = s]
    OBVIOUS
  <1>5. d = [status |-> s, owner |-> call.owner, started |-> call.started,
             answeredAt |-> call.answeredAt, leg |-> call.leg, activity |-> call.activity]
    BY <1>3, <1>4 DEF CallRows
  <1>6. d \in CallRows
    BY <1>3, <1>5, FieldTypes, Zenon DEF CallRows
  <1>7. call' = [d EXCEPT !.answeredAt = d.answeredAt \/ saw]
    BY <1>2, <1>4 DEF Dialer!Finished
  <1>8. PICK b \in BOOLEAN : b = (call.answeredAt \/ saw)
    OBVIOUS
  <1>9. call' = [d EXCEPT !.answeredAt = b]
    BY <1>5, <1>7, <1>8
  <1>10. call' = [status |-> s, owner |-> call.owner, started |-> call.started,
                  answeredAt |-> b, leg |-> call.leg, activity |-> call.activity]
    BY <1>5, <1>6, <1>9 DEF CallRows
  <1>11. CallIs(s, call.owner, call.started, b, call.leg, call.activity)
    BY <1>3, <1>8, <1>10, FieldTypes, RowWritten
  <1> QED
    BY <1>2, <1>8, <1>11

\* The writes of one field.
LEMMA StatusWritten ==
  ASSUME CallType, NEW s \in Statuses,
         call' = [call EXCEPT !.status = s]
  PROVE  CallIs(s, call.owner, call.started, call.answeredAt, call.leg, call.activity)
  <1>1. call \in CallRows
    BY DEF CallType
  <1>2. call' = [status |-> s, owner |-> call.owner, started |-> call.started,
                 answeredAt |-> call.answeredAt, leg |-> call.leg, activity |-> call.activity]
    BY <1>1, Zenon DEF CallRows
  <1>3. /\ call.status \in Statuses /\ call.owner \in Legs \cup {"none"}
        /\ call.started \in BOOLEAN /\ call.answeredAt \in BOOLEAN /\ call.leg \in BOOLEAN
        /\ call.activity \in BOOLEAN
    BY <1>1, FieldTypes
  <1>4. s \in Statuses
    BY <1>3
  <1> QED
    BY <1>2, <1>3, <1>4, Zenon DEF CallIs, CallRows

\* The time of the answer.
LEMMA AnswerFilled ==
  ASSUME CallType,
         call' = [call EXCEPT !.answeredAt = TRUE]
  PROVE  CallIs(call.status, call.owner, call.started, TRUE, call.leg, call.activity)
  <1>1. call \in CallRows
    BY DEF CallType
  <1>2. call' = [status |-> call.status, owner |-> call.owner, started |-> call.started,
                 answeredAt |-> TRUE, leg |-> call.leg, activity |-> call.activity]
    BY <1>1, Zenon DEF CallRows
  <1>3. /\ call.status \in Statuses /\ call.owner \in Legs \cup {"none"}
        /\ call.started \in BOOLEAN /\ call.answeredAt \in BOOLEAN /\ call.leg \in BOOLEAN
        /\ call.activity \in BOOLEAN
    BY <1>1, FieldTypes
  <1>4. call.status \in Statuses
    BY <1>3
  <1> QED
    BY <1>2, <1>3, <1>4, Zenon DEF CallIs, CallRows

\* The lead leg's control id.
LEMMA LegKept ==
  ASSUME CallType,
         call' = [call EXCEPT !.leg = TRUE]
  PROVE  CallIs(call.status, call.owner, call.started, call.answeredAt, TRUE, call.activity)
  <1>1. call \in CallRows
    BY DEF CallType
  <1>2. call' = [status |-> call.status, owner |-> call.owner, started |-> call.started,
                 answeredAt |-> call.answeredAt, leg |-> TRUE, activity |-> call.activity]
    BY <1>1, Zenon DEF CallRows
  <1>3. /\ call.status \in Statuses /\ call.owner \in Legs \cup {"none"}
        /\ call.started \in BOOLEAN /\ call.answeredAt \in BOOLEAN /\ call.leg \in BOOLEAN
        /\ call.activity \in BOOLEAN
    BY <1>1, FieldTypes
  <1>4. call.status \in Statuses
    BY <1>3
  <1> QED
    BY <1>2, <1>3, <1>4, Zenon DEF CallIs, CallRows

\* The link to the Activity.
LEMMA LogLinked ==
  ASSUME CallType,
         call' = [call EXCEPT !.activity = TRUE]
  PROVE  CallIs(call.status, call.owner, call.started, call.answeredAt, call.leg, TRUE)
  <1>1. call \in CallRows
    BY DEF CallType
  <1>2. call' = [status |-> call.status, owner |-> call.owner, started |-> call.started,
                 answeredAt |-> call.answeredAt, leg |-> call.leg, activity |-> TRUE]
    BY <1>1, Zenon DEF CallRows
  <1>3. /\ call.status \in Statuses /\ call.owner \in Legs \cup {"none"}
        /\ call.started \in BOOLEAN /\ call.answeredAt \in BOOLEAN /\ call.leg \in BOOLEAN
        /\ call.activity \in BOOLEAN
    BY <1>1, FieldTypes
  <1>4. call.status \in Statuses
    BY <1>3
  <1> QED
    BY <1>2, <1>3, <1>4, Zenon DEF CallIs, CallRows

\* The claim, by a parked leg's webhook.
LEMMA ClaimWritten ==
  ASSUME CallType, NEW l \in Legs,
         call' = [call EXCEPT !.status = "initiated", !.started = TRUE, !.owner = l]
  PROVE  CallIs("initiated", l, TRUE, call.answeredAt, call.leg, call.activity)
  <1>0. "initiated" \in Statuses
    BY DEF Statuses, Dialer!Live, Dialer!Terminal, Dialer!Final
  <1>1. call \in CallRows
    BY DEF CallType
  <1>2. call' = [status |-> "initiated", owner |-> l, started |-> TRUE,
                 answeredAt |-> call.answeredAt, leg |-> call.leg, activity |-> call.activity]
    BY <1>1, <1>0, ThreeFields
  <1>3. /\ call.status \in Statuses /\ call.owner \in Legs \cup {"none"}
        /\ call.started \in BOOLEAN /\ call.answeredAt \in BOOLEAN /\ call.leg \in BOOLEAN
        /\ call.activity \in BOOLEAN
    BY <1>1, FieldTypes
  <1>4. "initiated" \in Statuses
    BY DEF Statuses, Dialer!Live, Dialer!Terminal, Dialer!Final
  <1> QED
    BY <1>2, <1>3, <1>4, Zenon DEF CallIs, CallRows

\* The refusal of the transfer by the provider.
LEMMA RefusalWritten ==
  ASSUME CallType,
         call' = [call EXCEPT !.status = "failed", !.started = FALSE]
  PROVE  CallIs("failed", call.owner, FALSE, call.answeredAt, call.leg, call.activity)
  <1>0. "failed" \in Statuses
    BY DEF Statuses, Dialer!Live, Dialer!Terminal, Dialer!Final
  <1>1. call \in CallRows
    BY DEF CallType
  <1>2. call' = [status |-> "failed", owner |-> call.owner, started |-> FALSE,
                 answeredAt |-> call.answeredAt, leg |-> call.leg, activity |-> call.activity]
    BY <1>1, <1>0, TwoFields
  <1>3. /\ call.status \in Statuses /\ call.owner \in Legs \cup {"none"}
        /\ call.started \in BOOLEAN /\ call.answeredAt \in BOOLEAN /\ call.leg \in BOOLEAN
        /\ call.activity \in BOOLEAN
    BY <1>1, FieldTypes
  <1>4. "failed" \in Statuses
    BY DEF Statuses, Dialer!Live, Dialer!Terminal, Dialer!Final
  <1> QED
    BY <1>2, <1>3, <1>4, Zenon DEF CallIs, CallRows

\* The webhooks of the parked legs.
LEMMA WebhookStep ==
  ASSUME DialerInv, NEW l \in Legs,
         \/ Dialer!Park(l) \/ Dialer!Refuse(l) \/ Dialer!Claim(l) \/ Dialer!Connect(l)
         \/ Dialer!ConnectRefused(l) \/ Dialer!ConnectUnknown(l) \/ Dialer!WebhookDies(l)
  PROVE  DialerInv'
  <1> USE DEF DialerInv, CallType, RunnerType, ClaimedOnce, AnswersAreReal, EndsAreLogged, Statuses,
              Dialer!Live, Dialer!Terminal, Dialer!Final, Dialer!Events, Places, Dialer!Web
  <1>f. /\ call \in CallRows /\ call.status \in Statuses /\ call.owner \in Legs \cup {"none"}
        /\ call.started \in BOOLEAN /\ call.answeredAt \in BOOLEAN /\ call.leg \in BOOLEAN
        /\ call.activity \in BOOLEAN
    BY FieldTypes
  <1>1. CASE Dialer!Park(l)
    BY <1>1 DEF Dialer!Park
  <1>2. CASE Dialer!Refuse(l)
    <2>1. PICK s \in {call.status, "blocked"} :
            /\ CallIs(s, call.owner, call.started, call.answeredAt, call.leg, call.activity)
            /\ s # call.status => call.status = "authorized"
      <3>1. CASE call.status = "authorized"
        <4>1. call' = [call EXCEPT !.status = "blocked"]
          BY <1>2, <3>1 DEF Dialer!Refuse
        <4> QED
          BY <3>1, <4>1, StatusWritten, "blocked" \in Statuses
      <3>2. CASE call.status # "authorized"
        BY <1>2, <1>f, <3>2 DEF Dialer!Refuse, CallIs
      <3> QED
        BY <3>1, <3>2
    <2>2. /\ web[l] = "gate" /\ web' = [web EXCEPT ![l] = "over"]
          /\ UNCHANGED <<line, event, run, cron, logs, dials, answered, unlogged, deaths>>
      BY <1>2 DEF Dialer!Refuse
    <2>3. CallType'
      BY <1>f, <2>1, <2>2 DEF CallIs
    <2>4. RunnerType'
      BY <1>f, <2>1, <2>2 DEF CallIs
    <2>5. ClaimedOnce'
      BY <1>f, <2>1, <2>2 DEF CallIs
    <2>6. AnswersAreReal'
      BY <1>f, <2>1, <2>2 DEF CallIs
    <2>7. EndsAreLogged'
      BY <1>f, <2>1, <2>2 DEF CallIs
    <2> QED
      BY <2>3, <2>4, <2>5, <2>6, <2>7
  <1>3. CASE Dialer!Claim(l)
    <2>u. UNCHANGED <<line, event, run, cron, logs, dials, answered, unlogged, deaths>>
      BY <1>3 DEF Dialer!Claim
    <2>1. CASE call.status = "authorized"
      <3>1. call' = [call EXCEPT !.status = "initiated", !.started = TRUE, !.owner = l]
        BY <1>3, <2>1 DEF Dialer!Claim
      <3>2. CallIs("initiated", l, TRUE, call.answeredAt, call.leg, call.activity)
        BY <3>1, ClaimWritten
      <3>3. web' = [web EXCEPT ![l] = "connect"]
        BY <1>3, <2>1 DEF Dialer!Claim
      <3>4. CallType'
        BY <1>f, <2>1, <2>u, <3>2, <3>3 DEF CallIs
      <3>5. RunnerType'
        BY <1>f, <2>1, <2>u, <3>2, <3>3 DEF CallIs
      <3>6. ClaimedOnce'
        BY <1>f, <2>1, <2>u, <3>2, <3>3 DEF CallIs
      <3>7. AnswersAreReal'
        BY <1>f, <2>1, <2>u, <3>2, <3>3 DEF CallIs
      <3>8. EndsAreLogged'
        BY <1>f, <2>1, <2>u, <3>2, <3>3 DEF CallIs
      <3> QED
        BY <3>4, <3>5, <3>6, <3>7, <3>8
    <2>2. CASE call.status # "authorized"
      BY <1>3, <2>2 DEF Dialer!Claim
    <2> QED
      BY <2>1, <2>2
  <1>4. CASE Dialer!Connect(l)
    <2>1. CallType'
      BY <1>4 DEF Dialer!Connect
    <2>2. RunnerType'
      BY <1>4 DEF Dialer!Connect
    <2>3. ClaimedOnce'
      BY <1>4 DEF Dialer!Connect
    <2>4. AnswersAreReal'
      BY <1>4 DEF Dialer!Connect
    <2>5. EndsAreLogged'
      BY <1>4 DEF Dialer!Connect
    <2> QED
      BY <2>1, <2>2, <2>3, <2>4, <2>5
  <1>5. CASE Dialer!ConnectRefused(l)
    <2>1. PICK s \in {call.status, "failed"}, b \in {call.started, FALSE} :
            /\ CallIs(s, call.owner, b, call.answeredAt, call.leg, call.activity)
            /\ s # call.status => call.status = "initiated" /\ b = FALSE
            /\ s = call.status => b = call.started
      <3>1. CASE call.status = "initiated"
        <4>1. call' = [call EXCEPT !.status = "failed", !.started = FALSE]
          BY <1>5, <3>1 DEF Dialer!ConnectRefused
        <4>2. CallIs("failed", call.owner, FALSE, call.answeredAt, call.leg, call.activity)
          BY <4>1, RefusalWritten
        <4> QED
          BY <3>1, <4>2
      <3>2. CASE call.status # "initiated"
        BY <1>5, <1>f, <3>2 DEF Dialer!ConnectRefused, CallIs
      <3> QED
        BY <3>1, <3>2
    <2>2. /\ web[l] = "connect" /\ web' = [web EXCEPT ![l] = "over"]
          /\ UNCHANGED <<line, event, run, cron, logs, dials, answered, unlogged, deaths>>
      BY <1>5 DEF Dialer!ConnectRefused
    <2>3. CallType'
      BY <1>f, <2>1, <2>2 DEF CallIs
    <2>4. RunnerType'
      BY <1>f, <2>1, <2>2 DEF CallIs
    <2>5. ClaimedOnce'
      BY <1>f, <2>1, <2>2 DEF CallIs
    <2>6. AnswersAreReal'
      BY <1>f, <2>1, <2>2 DEF CallIs
    <2>7. EndsAreLogged'
      BY <1>f, <2>1, <2>2 DEF CallIs
    <2> QED
      BY <2>3, <2>4, <2>5, <2>6, <2>7
  <1>6. CASE Dialer!ConnectUnknown(l)
    BY <1>6 DEF Dialer!ConnectUnknown
  <1>7. CASE Dialer!WebhookDies(l)
    BY <1>7 DEF Dialer!WebhookDies
  <1> QED
    BY <1>1, <1>2, <1>3, <1>4, <1>5, <1>6, <1>7

\* The provider, and its events as they are stored.
LEMMA ProviderStep ==
  ASSUME DialerInv,
         \/ Dialer!Answer \/ Dialer!HangUp \/ \E e \in Dialer!Events : Dialer!Store(e)
  PROVE  DialerInv'
  <1> USE DEF DialerInv, CallType, RunnerType, ClaimedOnce, AnswersAreReal, EndsAreLogged, Statuses,
              Dialer!Live, Dialer!Terminal, Dialer!Final, Dialer!Events, Places
  <1>f. /\ call \in CallRows /\ call.status \in Statuses /\ call.owner \in Legs \cup {"none"}
        /\ call.started \in BOOLEAN /\ call.answeredAt \in BOOLEAN /\ call.leg \in BOOLEAN
        /\ call.activity \in BOOLEAN
    BY FieldTypes
  <1>1. CASE Dialer!Answer
    BY <1>1 DEF Dialer!Answer
  <1>2. CASE Dialer!HangUp
    BY <1>2 DEF Dialer!HangUp
  <1>3. ASSUME NEW e \in Dialer!Events, Dialer!Store(e) PROVE DialerInv'
    <2>1. PICK b \in BOOLEAN :
            CallIs(call.status, call.owner, call.started, call.answeredAt, b, call.activity)
      <3>1. CASE call' = [call EXCEPT !.leg = TRUE]
        BY <3>1, LegKept
      <3>2. CASE call' = call
        BY <1>f, <3>2 DEF CallIs
      <3> QED
        BY <1>3, <3>1, <3>2 DEF Dialer!Store
    <2>2. /\ event[e] = "sent"
          /\ \/ /\ line' = line /\ event' = [event EXCEPT ![e] = "stored"]
             \/ /\ e = "leg" /\ line = "over" /\ line' = line
                /\ event' = [event EXCEPT !["leg"] = "done"]
             \/ /\ e = "leg" /\ line # "over" /\ line' = "over"
                /\ event' = [event EXCEPT !["leg"] = "done", !["hangup"] = "sent"]
      <3>1. event \in [Dialer!Events -> {"none", "sent", "stored", "done"}]
        OBVIOUS
      <3>2. CASE e = "leg" /\ call.status \notin {"initiated", "ringing"} /\ line = "over"
        BY <1>3, <3>1, <3>2 DEF Dialer!Store
      <3>3. CASE e = "leg" /\ call.status \notin {"initiated", "ringing"} /\ line # "over"
        BY <1>3, <3>1, <3>3 DEF Dialer!Store
      <3>4. CASE ~(e = "leg" /\ call.status \notin {"initiated", "ringing"})
        BY <1>3, <3>1, <3>4 DEF Dialer!Store
      <3> QED
        BY <3>2, <3>3, <3>4
    <2>3. UNCHANGED <<web, run, cron, logs, dials, answered, unlogged, deaths>>
      BY <1>3 DEF Dialer!Store
    <2>4. CallType'
      BY <1>f, <2>1, <2>2, <2>3 DEF CallIs
    <2>5. RunnerType'
      BY <1>f, <2>1, <2>2, <2>3 DEF CallIs
    <2>6. ClaimedOnce'
      BY <1>f, <2>1, <2>2, <2>3 DEF CallIs
    <2>7. AnswersAreReal'
      BY <1>f, <2>1, <2>2, <2>3 DEF CallIs
    <2>8. EndsAreLogged'
      BY <1>f, <2>1, <2>2, <2>3 DEF CallIs
    <2> QED
      BY <2>4, <2>5, <2>6, <2>7, <2>8
  <1> QED
    BY <1>1, <1>2, <1>3

\* The runners, as they read an event and apply it to the row.
LEMMA ApplyStep ==
  ASSUME DialerInv, NEW r \in Runners,
         \/ \E e \in Dialer!Events : Dialer!Pick(r, e)
         \/ Dialer!ApplyLeg(r) \/ Dialer!ApplyAnswer(r) \/ Dialer!FillAnswer(r)
         \/ Dialer!ApplyHangup(r)
  PROVE  DialerInv'
  <1> USE DEF DialerInv, CallType, RunnerType, ClaimedOnce, AnswersAreReal, EndsAreLogged, Statuses,
              Dialer!Live, Dialer!Terminal, Dialer!Final, Dialer!Events, Places, Dialer!At,
              Dialer!NoRun
  <1>0. /\ call \in CallRows /\ call.status \in Statuses /\ call.owner \in Legs \cup {"none"}
        /\ call.started \in BOOLEAN /\ call.answeredAt \in BOOLEAN /\ call.leg \in BOOLEAN
        /\ call.activity \in BOOLEAN
    BY FieldTypes
  <1>1. ASSUME NEW e \in Dialer!Events, Dialer!Pick(r, e) PROVE DialerInv'
    BY <1>0, <1>1 DEF Dialer!Pick
  <1>2. CASE Dialer!ApplyLeg(r)
    <2>1. PICK s \in {call.status, "ringing"} :
            /\ CallIs(s, call.owner, call.started, call.answeredAt, call.leg, call.activity)
            /\ call.status \in Dialer!Terminal => s = call.status
            /\ s = "authorized" => call.status = "authorized"
      <3>1. CASE call' = Dialer!Advance("ringing")
        BY <3>1, Advanced
      <3>2. CASE call' = call
        BY <1>0, <3>2 DEF CallIs
      <3> QED
        BY <1>2, <3>1, <3>2 DEF Dialer!ApplyLeg
    <2>2. /\ run[r].at = "apply" /\ run[r].event = "leg" /\ run' = [run EXCEPT ![r].at = "mark"]
          /\ UNCHANGED <<web, line, event, cron, logs, dials, answered, unlogged, deaths>>
      BY <1>2 DEF Dialer!ApplyLeg
    <2>3. CallType'
      BY <1>0, <2>1, <2>2 DEF CallIs
    <2>4. RunnerType'
      BY <1>0, <2>1, <2>2 DEF CallIs
    <2>5. ClaimedOnce'
      BY <1>0, <2>1, <2>2 DEF CallIs
    <2>6. AnswersAreReal'
      BY <1>0, <2>1, <2>2 DEF CallIs
    <2>7. EndsAreLogged'
      BY <1>0, <2>1, <2>2 DEF CallIs
    <2> QED
      BY <2>3, <2>4, <2>5, <2>6, <2>7
  <1>3. CASE Dialer!ApplyAnswer(r)
    <2>1. PICK s \in {call.status, "answered"} :
            /\ CallIs(s, call.owner, call.started, call.answeredAt, call.leg, call.activity)
            /\ call.status \in Dialer!Terminal => s = call.status
            /\ s = "authorized" => call.status = "authorized"
      <3>1. CASE call' = Dialer!Advance("answered")
        BY <3>1, Advanced
      <3>2. CASE call' = call
        BY <1>0, <3>2 DEF CallIs
      <3> QED
        BY <1>3, <3>1, <3>2 DEF Dialer!ApplyAnswer
    <2>2. /\ run[r].at = "apply" /\ run[r].event \in {"answer", "rep"}
          /\ \/ run[r].event = "answer" /\ run' = [run EXCEPT ![r].at = "fill"]
             \/ run' = [run EXCEPT ![r].at = "mark"]
          /\ UNCHANGED <<web, line, event, cron, logs, dials, answered, unlogged, deaths>>
      BY <1>3 DEF Dialer!ApplyAnswer
    <2>3. CallType'
      BY <1>0, <2>1, <2>2 DEF CallIs
    <2>4. RunnerType'
      BY <1>0, <2>1, <2>2 DEF CallIs
    <2>5. ClaimedOnce'
      BY <1>0, <2>1, <2>2 DEF CallIs
    <2>6. AnswersAreReal'
      <3>1. \A q \in Runners : run'[q].had = run[q].had
        <4>1. PICK x \in Places : run' = [run EXCEPT ![r].at = x]
          BY <2>2
        <4> QED
          BY <4>1
      <3>2. call'.answeredAt = call.answeredAt /\ (call'.status = "completed" => answered)
        BY <2>1 DEF CallIs
      <3> QED
        BY <2>2, <3>1, <3>2
    <2>7. EndsAreLogged'
      BY <1>0, <2>1, <2>2 DEF CallIs
    <2> QED
      BY <2>3, <2>4, <2>5, <2>6, <2>7
  <1>4. CASE Dialer!FillAnswer(r)
    <2>1. CallIs(call.status, call.owner, call.started, TRUE, call.leg, call.activity)
      BY <1>4, AnswerFilled DEF Dialer!FillAnswer
    <2>2. /\ run[r].at = "fill" /\ run' = [run EXCEPT ![r].at = "mark"]
          /\ UNCHANGED <<web, line, event, cron, logs, dials, answered, unlogged, deaths>>
      BY <1>4 DEF Dialer!FillAnswer
    <2>4. run[r].event = "answer" /\ answered
      BY <2>2
    <2>5. CallType'
      BY <1>0, <2>1, <2>2, <2>4 DEF CallIs
    <2>6. RunnerType'
      BY <1>0, <2>1, <2>2, <2>4 DEF CallIs
    <2>7. ClaimedOnce'
      BY <1>0, <2>1, <2>2, <2>4 DEF CallIs
    <2>8. AnswersAreReal'
      BY <1>0, <2>1, <2>2, <2>4 DEF CallIs
    <2>9. EndsAreLogged'
      BY <1>0, <2>1, <2>2, <2>4 DEF CallIs
    <2> QED
      BY <2>5, <2>6, <2>7, <2>8, <2>9
  <1>5. CASE Dialer!ApplyHangup(r)
    <2>1. PICK saw \in BOOLEAN, cause \in {"canceled", "no_answer", "failed"} :
            saw = Dialer!SawAnswer(run[r].had) /\ call' = Dialer!Finished(saw, cause)
      <3>1. run[r].had \in BOOLEAN
        OBVIOUS
      <3>2. Dialer!SawAnswer(run[r].had) \in BOOLEAN
        BY <3>1 DEF Dialer!SawAnswer
      <3> QED
        BY <1>5, <3>2 DEF Dialer!ApplyHangup
    <2>2. saw => answered
      BY <2>1 DEF Dialer!SawAnswer
    <2>3. PICK s \in {call.status, IF saw THEN "completed" ELSE cause} :
            /\ CallIs(s, call.owner, call.started, call.answeredAt \/ saw, call.leg, call.activity)
            /\ s \in Dialer!Terminal
            /\ call.status \in Dialer!Terminal => s = call.status
      BY <2>1, FinishedCall
    <2>4. PICK an \in BOOLEAN : an = (call.answeredAt \/ saw)
      OBVIOUS
    <2>5. CallIs(s, call.owner, call.started, an, call.leg, call.activity)
      BY <2>3, <2>4
    <2>6. an => answered
      BY <2>2, <2>4
    <2>7. s = "completed" => answered
      BY <2>2, <2>3
    <2>8. /\ run[r].at = "apply" /\ run[r].event = "hangup" /\ run' = [run EXCEPT ![r].at = "log"]
          /\ UNCHANGED <<web, line, event, cron, logs, dials, answered, unlogged, deaths>>
      BY <1>5 DEF Dialer!ApplyHangup
    <2>9. /\ s \in Statuses /\ s \in Dialer!Terminal
          /\ call.status \in Dialer!Terminal => s = call.status
      BY <2>3
    <2>10. CallType'
      BY <1>0, <2>5, <2>6, <2>7, <2>8, <2>9 DEF CallIs
    <2>11. RunnerType'
      BY <1>0, <2>5, <2>6, <2>7, <2>8, <2>9 DEF CallIs
    <2>12. ClaimedOnce'
      BY <1>0, <2>5, <2>6, <2>7, <2>8, <2>9 DEF CallIs
    <2>13. AnswersAreReal'
      BY <1>0, <2>5, <2>6, <2>7, <2>8, <2>9 DEF CallIs
    <2>14. EndsAreLogged'
      BY <1>0, <2>5, <2>6, <2>7, <2>8, <2>9 DEF CallIs
    <2> QED
      BY <2>10, <2>11, <2>12, <2>13, <2>14
  <1> QED
    BY <1>1, <1>2, <1>3, <1>4, <1>5

\* The runners, as they log the call, link the Activity and mark the event.
LEMMA LogStep ==
  ASSUME DialerInv, NEW r \in Runners,
         Dialer!Log(r) \/ Dialer!Link(r) \/ Dialer!Mark(r) \/ Dialer!RunnerDies(r)
  PROVE  DialerInv'
  <1> USE DEF DialerInv, CallType, RunnerType, ClaimedOnce, AnswersAreReal, EndsAreLogged, Statuses,
              Dialer!Live, Dialer!Terminal, Dialer!Final, Dialer!Events, Places, Dialer!At,
              Dialer!NoRun
  <1>0. /\ call \in CallRows /\ call.status \in Statuses /\ call.owner \in Legs \cup {"none"}
        /\ call.started \in BOOLEAN /\ call.answeredAt \in BOOLEAN /\ call.leg \in BOOLEAN
        /\ call.activity \in BOOLEAN
    BY FieldTypes
  <1>1. CASE Dialer!Log(r)
    <2>1. CallType'
      BY <1>0, <1>1 DEF Dialer!Log, Dialer!NeedsLog
    <2>2. RunnerType'
      BY <1>0, <1>1 DEF Dialer!Log, Dialer!NeedsLog
    <2>3. ClaimedOnce'
      BY <1>0, <1>1 DEF Dialer!Log, Dialer!NeedsLog
    <2>4. AnswersAreReal'
      BY <1>0, <1>1 DEF Dialer!Log, Dialer!NeedsLog
    <2>5. EndsAreLogged'
      BY <1>0, <1>1 DEF Dialer!Log, Dialer!NeedsLog
    <2> QED
      BY <2>1, <2>2, <2>3, <2>4, <2>5
  <1>2. CASE Dialer!Link(r)
    <2>1. CallIs(call.status, call.owner, call.started, call.answeredAt, call.leg, TRUE)
      BY <1>2, LogLinked DEF Dialer!Link
    <2>2. /\ run[r].at = "link" /\ run' = [run EXCEPT ![r].at = "mark"]
          /\ UNCHANGED <<web, line, event, cron, logs, dials, answered, unlogged, deaths>>
      BY <1>2 DEF Dialer!Link
    <2>3. CallType'
      BY <1>0, <2>1, <2>2 DEF CallIs
    <2>4. RunnerType'
      BY <1>0, <2>1, <2>2 DEF CallIs
    <2>5. ClaimedOnce'
      BY <1>0, <2>1, <2>2 DEF CallIs
    <2>6. AnswersAreReal'
      BY <1>0, <2>1, <2>2 DEF CallIs
    <2>7. EndsAreLogged'
      BY <1>0, <2>1, <2>2 DEF CallIs
    <2> QED
      BY <2>3, <2>4, <2>5, <2>6, <2>7
  <1>3. CASE Dialer!Mark(r)
    <2>1. CallType'
      BY <1>0, <1>3 DEF Dialer!Mark
    <2>2. RunnerType'
      BY <1>0, <1>3 DEF Dialer!Mark
    <2>3. ClaimedOnce'
      BY <1>0, <1>3 DEF Dialer!Mark
    <2>4. AnswersAreReal'
      BY <1>0, <1>3 DEF Dialer!Mark
    <2>5. EndsAreLogged'
      BY <1>0, <1>3 DEF Dialer!Mark
    <2> QED
      BY <2>1, <2>2, <2>3, <2>4, <2>5
  <1>4. CASE Dialer!RunnerDies(r)
    <2>1. CallType'
      BY <1>0, <1>4 DEF Dialer!RunnerDies
    <2>2. RunnerType'
      BY <1>0, <1>4 DEF Dialer!RunnerDies
    <2>3. ClaimedOnce'
      BY <1>0, <1>4 DEF Dialer!RunnerDies
    <2>4. AnswersAreReal'
      BY <1>0, <1>4 DEF Dialer!RunnerDies
    <2>5. EndsAreLogged'
      BY <1>0, <1>4 DEF Dialer!RunnerDies
    <2> QED
      BY <2>1, <2>2, <2>3, <2>4, <2>5
  <1> QED
    BY <1>1, <1>2, <1>3, <1>4

\* The reconcile cron.
LEMMA CronStep ==
  ASSUME DialerInv,
         \/ Dialer!CancelStale \/ Dialer!FindStuck \/ Dialer!EndStuck \/ Dialer!LogStuck
         \/ Dialer!CronDies
  PROVE  DialerInv'
  <1> USE DEF DialerInv, CallType, RunnerType, ClaimedOnce, AnswersAreReal, EndsAreLogged, Statuses,
              Dialer!Live, Dialer!Terminal, Dialer!Final, Dialer!Events, Places, Dialer!NoRun
  <1>0. /\ call \in CallRows /\ call.status \in Statuses /\ call.owner \in Legs \cup {"none"}
        /\ call.started \in BOOLEAN /\ call.answeredAt \in BOOLEAN /\ call.leg \in BOOLEAN
        /\ call.activity \in BOOLEAN
    BY FieldTypes
  <1>1. CASE Dialer!CancelStale
    <2>1. CallIs("canceled", call.owner, call.started, call.answeredAt, call.leg, call.activity)
      BY <1>1, StatusWritten, "canceled" \in Statuses DEF Dialer!CancelStale
    <2>2. /\ call.status = "authorized"
          /\ UNCHANGED <<web, line, event, run, cron, logs, dials, answered, unlogged, deaths>>
      BY <1>1 DEF Dialer!CancelStale
    <2>3. CallType'
      BY <1>0, <2>1, <2>2 DEF CallIs
    <2>4. RunnerType'
      BY <1>0, <2>1, <2>2 DEF CallIs
    <2>5. ClaimedOnce'
      BY <1>0, <2>1, <2>2 DEF CallIs
    <2>6. AnswersAreReal'
      BY <1>0, <2>1, <2>2 DEF CallIs
    <2>7. EndsAreLogged'
      BY <1>0, <2>1, <2>2 DEF CallIs
    <2> QED
      BY <2>3, <2>4, <2>5, <2>6, <2>7
  <1>2. CASE Dialer!FindStuck
    <2>1. CallType'
      BY <1>0, <1>2 DEF Dialer!FindStuck
    <2>2. RunnerType'
      BY <1>0, <1>2 DEF Dialer!FindStuck
    <2>3. ClaimedOnce'
      BY <1>0, <1>2 DEF Dialer!FindStuck
    <2>4. AnswersAreReal'
      BY <1>0, <1>2 DEF Dialer!FindStuck
    <2>5. EndsAreLogged'
      BY <1>0, <1>2 DEF Dialer!FindStuck
    <2> QED
      BY <2>1, <2>2, <2>3, <2>4, <2>5
  <1>3. CASE Dialer!EndStuck
    <2>1. PICK saw \in BOOLEAN :
            saw = Dialer!SawAnswer(cron.had) /\ call' = Dialer!Finished(saw, "failed")
      <3>1. cron.had \in BOOLEAN
        OBVIOUS
      <3>2. Dialer!SawAnswer(cron.had) \in BOOLEAN
        BY <3>1 DEF Dialer!SawAnswer
      <3> QED
        BY <1>3, <3>2 DEF Dialer!EndStuck
    <2>2. saw => answered
      BY <2>1 DEF Dialer!SawAnswer
    <2>3. PICK s \in {call.status, IF saw THEN "completed" ELSE "failed"} :
            /\ CallIs(s, call.owner, call.started, call.answeredAt \/ saw, call.leg, call.activity)
            /\ s \in Dialer!Terminal
            /\ call.status \in Dialer!Terminal => s = call.status
      BY <2>1, FinishedCall
    <2>4. PICK an \in BOOLEAN : an = (call.answeredAt \/ saw)
      OBVIOUS
    <2>5. CallIs(s, call.owner, call.started, an, call.leg, call.activity)
      BY <2>3, <2>4
    <2>6. an => answered
      BY <2>2, <2>4
    <2>7. s = "completed" => answered
      BY <2>2, <2>3
    <2>8. /\ cron.at = "apply" /\ cron' = [cron EXCEPT !.at = "log"]
          /\ UNCHANGED <<web, line, event, run, logs, dials, answered, unlogged, deaths>>
      BY <1>3 DEF Dialer!EndStuck
    <2>9. /\ s \in Statuses /\ s \in Dialer!Terminal
          /\ call.status \in Dialer!Terminal => s = call.status
      BY <2>3
    <2>10. cron' = [event |-> "none", at |-> "log", had |-> cron.had]
      BY <2>8
    <2>11. CallType'
      BY <1>0, <2>5, <2>6, <2>7, <2>8, <2>9, <2>10 DEF CallIs
    <2>12. RunnerType'
      BY <1>0, <2>5, <2>6, <2>7, <2>8, <2>9, <2>10 DEF CallIs
    <2>13. ClaimedOnce'
      BY <1>0, <2>5, <2>6, <2>7, <2>8, <2>9, <2>10 DEF CallIs
    <2>14. AnswersAreReal'
      BY <1>0, <2>5, <2>6, <2>7, <2>8, <2>9, <2>10 DEF CallIs
    <2>15. EndsAreLogged'
      BY <1>0, <2>5, <2>6, <2>7, <2>8, <2>9, <2>10 DEF CallIs
    <2> QED
      BY <2>11, <2>12, <2>13, <2>14, <2>15
  <1>4. CASE Dialer!LogStuck
    <2>1. PICK b \in BOOLEAN :
            /\ CallIs(call.status, call.owner, call.started, call.answeredAt, call.leg, b)
            /\ Dialer!NeedsLog => b
            /\ ~Dialer!NeedsLog => b = call.activity
      <3>1. CASE Dialer!NeedsLog
        <4>1. CallIs(call.status, call.owner, call.started, call.answeredAt, call.leg, TRUE)
          BY <1>4, <3>1, LogLinked DEF Dialer!LogStuck
        <4> QED
          BY <3>1, <4>1
      <3>2. CASE ~Dialer!NeedsLog
        <4>1. call' = call
          BY <1>4, <3>2 DEF Dialer!LogStuck
        <4>2. CallIs(call.status, call.owner, call.started, call.answeredAt, call.leg, call.activity)
          BY <1>0, <4>1 DEF CallIs
        <4> QED
          BY <1>0, <3>2, <4>2
      <3> QED
        BY <3>1, <3>2
    <2>2. /\ cron.at = "log" /\ cron' = [event |-> "none", at |-> "idle", had |-> FALSE]
          /\ logs' = IF Dialer!NeedsLog /\ logs = 0 THEN 1 ELSE logs
          /\ UNCHANGED <<web, line, event, run, dials, answered, unlogged, deaths>>
      BY <1>4 DEF Dialer!LogStuck
    <2>3. CallType'
      BY <1>0, <2>1, <2>2 DEF CallIs, Dialer!NeedsLog
    <2>4. RunnerType'
      BY <1>0, <2>1, <2>2 DEF CallIs, Dialer!NeedsLog
    <2>5. ClaimedOnce'
      BY <1>0, <2>1, <2>2 DEF CallIs, Dialer!NeedsLog
    <2>6. AnswersAreReal'
      BY <1>0, <2>1, <2>2 DEF CallIs, Dialer!NeedsLog
    <2>7. EndsAreLogged'
      BY <1>0, <2>1, <2>2 DEF CallIs, Dialer!NeedsLog
    <2> QED
      BY <2>3, <2>4, <2>5, <2>6, <2>7
  <1>5. CASE Dialer!CronDies
    <2>1. CallType'
      BY <1>0, <1>5 DEF Dialer!CronDies
    <2>2. RunnerType'
      BY <1>0, <1>5 DEF Dialer!CronDies
    <2>3. ClaimedOnce'
      BY <1>0, <1>5 DEF Dialer!CronDies
    <2>4. AnswersAreReal'
      BY <1>0, <1>5 DEF Dialer!CronDies
    <2>5. EndsAreLogged'
      BY <1>0, <1>5 DEF Dialer!CronDies
    <2> QED
      BY <2>1, <2>2, <2>3, <2>4, <2>5
  <1> QED
    BY <1>1, <1>2, <1>3, <1>4, <1>5

\* Every step of the dialer keeps the invariant.
LEMMA DialerStep == DialerInv /\ [Dialer!Next]_dialer => DialerInv'
  <1> SUFFICES ASSUME DialerInv, [Dialer!Next]_dialer PROVE DialerInv'
    OBVIOUS
  <1>1. CASE UNCHANGED dialer
    BY <1>1 DEF dialer, DialerInv, CallType, RunnerType, ClaimedOnce, AnswersAreReal, EndsAreLogged
  <1>2. CASE Dialer!Next
    BY <1>2, WebhookStep, ProviderStep, ApplyStep, LogStep, CronStep DEF Dialer!Next
  <1> QED
    BY <1>1, <1>2

\* The dialer's invariant holds at first.
LEMMA DialerStart == Dialer!Init => DialerInv
  <1> SUFFICES ASSUME Dialer!Init PROVE DialerInv
    OBVIOUS
  <1> USE DEF Dialer!Init, Dialer!NoRun
  <1>1. CallType
    <2>1. call \in CallRows
      BY Zenon DEF CallRows, Statuses, Dialer!Live
    <2>2. web \in [Legs -> {"none", "gate", "connect", "over"}]
      OBVIOUS
    <2>3. event \in [Dialer!Events -> {"none", "sent", "stored", "done"}]
      OBVIOUS
    <2>4. logs \in 0 .. 1 /\ dials \in 0 .. 1
      OBVIOUS
    <2> QED
      BY <2>1, <2>2, <2>3, <2>4 DEF CallType
  <1>2. RunnerType
    BY DEF RunnerType, Places, Dialer!Events
  <1>3. ClaimedOnce
    BY DEF ClaimedOnce, Dialer!Live, Dialer!Events
  <1>4. AnswersAreReal
    BY DEF AnswersAreReal, Dialer!Events
  <1>5. EndsAreLogged
    BY DEF EndsAreLogged, Dialer!Events, Dialer!Terminal, Dialer!Final
  <1> QED
    BY <1>1, <1>2, <1>3, <1>4, <1>5 DEF DialerInv

\* The dialer's invariant holds of every behaviour that runs the dialer.
LEMMA DialerInvariant == Spec => [](service = "dialer" => DialerInv)
  <1>1. Init => (service = "dialer" => DialerInv)
    BY DialerStart DEF Init
  <1>2. (service = "dialer" => DialerInv) /\ [Next]_vars => (service = "dialer" => DialerInv)'
    BY DialerStep DEF Next, vars, dialer
  <1> QED
    BY <1>1, <1>2, PTL DEF Spec

\* One token, one call: however many parked legs carry it and however their webhooks
\* interleave, the lead is dialled at most once, for a row some webhook claimed.
THEOREM DialsOnce == Spec => []DialledOnce
  <1>1. (service = "dialer" => DialerInv) => DialledOnce
    BY DEF DialerInv, CallType, ClaimedOnce, DialledOnce, Dialer!DialledOnce
  <1> QED
    BY <1>1, DialerInvariant, PTL

\* A call ends completed only if the lead's own leg answered.
THEOREM CompletedByAnswer == Spec => []CompletedWasAnswered
  <1>1. (service = "dialer" => DialerInv) => CompletedWasAnswered
    BY DEF DialerInv, AnswersAreReal, CompletedWasAnswered, Dialer!CompletedWasAnswered
  <1> QED
    BY <1>1, DialerInvariant, PTL

\* A placed call that has ended, and whose hangup nobody is still to apply, is on the
\* timeline, however many runners died while applying it.
THEOREM EndsLogged == Spec => []EndedIsLogged
  <1>1. (service = "dialer" => DialerInv) => EndedIsLogged
    BY DEF DialerInv, EndsAreLogged, EndedIsLogged, Dialer!EndedIsLogged, Dialer!NoRun
  <1> QED
    BY <1>1, DialerInvariant, PTL

(***************************************************************************)
(* The job ledger                                                          *)
(***************************************************************************)
JobType ==
    /\ at \in [Callers -> {Jobs!Idle} \cup [op : Jobs!Ops, step : Jobs!Steps]]
    /\ row \in {"none", "queued"} \cup Jobs!Settled
    /\ job \in {"none"} \cup Jobs!Live \cup Jobs!Terminal
    /\ losses \in Nat /\ owed \in BOOLEAN /\ cancelled \in BOOLEAN

\* The caller c is about to put a job back: an enqueue that has not looked yet or is to
\* remove what it saw, or anybody about to add where there is no job.
Replacing(c) ==
    \/ at[c].op \in {"enqueue", "immediate"} /\ at[c].step \in {"look", "remove"}
    \/ at[c].step = "add" /\ job = "none"

\* An enqueue nobody has answered has a live job or a caller about to make one, even when
\* the finished job it found is removed by somebody else under its hands.
OwedIsCarried ==
    owed /\ losses = 0 /\ ~cancelled => job \in Jobs!Live \/ \E c \in Callers : Replacing(c)

JobInv == JobType /\ OwedIsCarried

\* A caller that goes on or returns keeps its place in the table of callers.
LEMMA CallerMoves ==
  ASSUME JobType, NEW c \in Callers, at[c].op \in Jobs!Ops,
         Jobs!Return(c) \/ \E s \in Jobs!Steps : Jobs!GoOn(c, s)
  PROVE  /\ at' \in [Callers -> {Jobs!Idle} \cup [op : Jobs!Ops, step : Jobs!Steps]]
         /\ \A d \in Callers : d # c => at'[d] = at[d]
  <1>1. at[c] \in [op : Jobs!Ops, step : Jobs!Steps]
    BY DEF JobType, Jobs!Idle, Jobs!Ops
  <1>2. CASE Jobs!Return(c)
    BY <1>2 DEF JobType, Jobs!Return
  <1>3. ASSUME NEW s \in Jobs!Steps, Jobs!GoOn(c, s)
        PROVE  /\ at' \in [Callers -> {Jobs!Idle} \cup [op : Jobs!Ops, step : Jobs!Steps]]
               /\ \A d \in Callers : d # c => at'[d] = at[d]
    <2>1. PICK x \in [op : Jobs!Ops, step : Jobs!Steps] : x = [at[c] EXCEPT !.step = s]
      BY <1>1
    <2>2. at' = [at EXCEPT ![c] = x]
      BY <1>3, <2>1 DEF Jobs!GoOn
    <2> QED
      BY <2>2 DEF JobType
  <1> QED
    BY <1>2, <1>3

\* Where a caller that goes on is.
LEMMA CallerAt ==
  ASSUME JobType, NEW c \in Callers, at[c].op \in Jobs!Ops
  PROVE  /\ Jobs!Return(c) => at'[c] = Jobs!Idle
         /\ \A s : Jobs!GoOn(c, s) => at'[c].op = at[c].op /\ at'[c].step = s
  <1>1. at[c] \in [op : Jobs!Ops, step : Jobs!Steps]
    BY DEF JobType, Jobs!Idle, Jobs!Ops
  <1> QED
    BY <1>1 DEF JobType, Jobs!Return, Jobs!GoOn

\* A caller at a step is in a call.
LEMMA CallerBusy ==
  ASSUME JobType, NEW c \in Callers, at[c].step \in Jobs!Steps
  PROVE  at[c].op \in Jobs!Ops
  BY DEF JobType, Jobs!Idle, Jobs!Steps

\* A caller that was idle starts a call that enqueues nothing.
LEMMA Started ==
  ASSUME JobInv, NEW c \in Callers, at[c] = Jobs!Idle,
         UNCHANGED <<row, job, owed, cancelled, losses>>,
         NEW x \in {Jobs!Idle} \cup [op : Jobs!Ops, step : Jobs!Steps],
         at' = [at EXCEPT ![c] = x]
  PROVE  JobInv'
  <1>1. JobType'
    BY DEF JobInv, JobType
  <1>2. \A d \in Callers : Replacing(d) => Replacing(d)'
    BY DEF JobInv, Replacing, JobType, Jobs!Idle
  <1> QED
    BY <1>1, <1>2 DEF JobInv, OwedIsCarried

\* The callers' own steps.
LEMMA CallerStep ==
  ASSUME JobInv, NEW c \in Callers,
         \/ \E op \in {"enqueue", "immediate"} : Jobs!Enqueue(c, op)
         \/ Jobs!Ensure(c) \/ Jobs!Create(c) \/ Jobs!Cancel(c) \/ Jobs!Look(c) \/ Jobs!Remove(c)
         \/ Jobs!WriteCancelled(c) \/ Jobs!Add(c) \/ Jobs!Promote(c) \/ Jobs!CallerDies(c)
  PROVE  JobInv'
  <1> USE DEF JobInv
  <1>0. JobType /\ OwedIsCarried
    OBVIOUS
  <1>1. ASSUME NEW op \in {"enqueue", "immediate"}, Jobs!Enqueue(c, op) PROVE JobInv'
    <2>1. PICK x \in [op : Jobs!Ops, step : Jobs!Steps] : x = [op |-> op, step |-> "look"]
      BY DEF Jobs!Ops, Jobs!Steps
    <2>2. at' = [at EXCEPT ![c] = x]
      BY <1>1, <2>1 DEF Jobs!Enqueue
    <2>3. JobType'
      BY <1>1, <2>2 DEF JobType, Jobs!Enqueue
    <2>4. at'[c] = x
      BY <2>2 DEF JobType
    <2>5. Replacing(c)'
      BY <2>1, <2>4 DEF Replacing
    <2> QED
      BY <2>3, <2>5 DEF OwedIsCarried
  <1>2. CASE Jobs!Ensure(c)
    <2>1. PICK x \in {Jobs!Idle} \cup [op : Jobs!Ops, step : Jobs!Steps] :
            at' = [at EXCEPT ![c] = x]
      <3>1. CASE row \in Jobs!Settled
        BY <1>2, <3>1 DEF Jobs!Ensure, Jobs!Settled
      <3>2. CASE row = "queued"
        <4>1. at' = [at EXCEPT ![c] = [op |-> "ensure", step |-> "look"]]
          BY <1>2, <3>2 DEF Jobs!Ensure, Jobs!Settled
        <4> QED
          BY <4>1 DEF Jobs!Ops, Jobs!Steps
      <3>3. CASE row = "none"
        <4>1. at' = [at EXCEPT ![c] = [op |-> "ensure", step |-> "create"]]
          BY <1>2, <3>3 DEF Jobs!Ensure, Jobs!Settled
        <4> QED
          BY <4>1 DEF Jobs!Ops, Jobs!Steps
      <3> QED
        BY <3>1, <3>2, <3>3 DEF JobType
    <2>2. at[c] = Jobs!Idle /\ UNCHANGED <<row, job, owed, cancelled, losses>>
      BY <1>2 DEF Jobs!Ensure
    <2> QED
      BY <2>1, <2>2, Started
  <1>3. CASE Jobs!Cancel(c)
    <2>1. PICK x \in [op : Jobs!Ops, step : Jobs!Steps] : x = [op |-> "cancel", step |-> "look"]
      BY DEF Jobs!Ops, Jobs!Steps
    <2>2. /\ at[c] = Jobs!Idle /\ UNCHANGED <<row, job, owed, cancelled, losses>>
          /\ at' = [at EXCEPT ![c] = x]
      BY <1>3, <2>1 DEF Jobs!Cancel
    <2> QED
      BY <2>2, Started
  <1>4. CASE Jobs!Create(c)
    <2>1. at[c].op \in Jobs!Ops
      BY <1>4, CallerBusy DEF Jobs!Create, Jobs!Steps
    <2>2. UNCHANGED <<job, owed, cancelled, losses>> /\ at[c].step = "create"
      BY <1>4 DEF Jobs!Create
    <2>3. CASE row = "none"
      <3>1. row' = "queued" /\ Jobs!GoOn(c, "add")
        BY <1>4, <2>3 DEF Jobs!Create
      <3>2. /\ at' \in [Callers -> {Jobs!Idle} \cup [op : Jobs!Ops, step : Jobs!Steps]]
            /\ \A d \in Callers : d # c => at'[d] = at[d]
        BY <2>1, <3>1, CallerMoves DEF Jobs!Steps
      <3> QED
        BY <2>2, <3>1, <3>2 DEF JobType, OwedIsCarried, Replacing
    <2>4. CASE row # "none"
      <3>1. PICK x \in {Jobs!Idle} \cup [op : Jobs!Ops, step : Jobs!Steps] :
              at' = [at EXCEPT ![c] = x] /\ row' = row
        <4>1. [op |-> "ensure", step |-> "look"] \in [op : Jobs!Ops, step : Jobs!Steps]
          BY DEF Jobs!Ops, Jobs!Steps
        <4> QED
          BY <1>4, <2>4, <4>1 DEF Jobs!Create
      <3> QED
        BY <2>2, <3>1 DEF JobType, OwedIsCarried, Replacing
    <2> QED
      BY <2>3, <2>4
  <1>5. CASE Jobs!Look(c)
    <2>1. at[c].op \in Jobs!Ops /\ at[c].step = "look"
      BY <1>5, CallerBusy DEF Jobs!Look, Jobs!Steps
    <2>2. UNCHANGED <<row, job, owed, cancelled, losses>>
      BY <1>5 DEF Jobs!Look
    <2>3. Jobs!AfterLook(at[c].op) \in {"idle", "add", "remove", "promote"}
      BY <2>1 DEF Jobs!AfterLook, Jobs!Ops
    <2>4. \/ Jobs!Return(c) /\ Jobs!AfterLook(at[c].op) = "idle"
          \/ Jobs!GoOn(c, Jobs!AfterLook(at[c].op)) /\ Jobs!AfterLook(at[c].op) \in Jobs!Steps
      BY <1>5, <2>3 DEF Jobs!Look, Jobs!Steps
    <2>5. /\ at' \in [Callers -> {Jobs!Idle} \cup [op : Jobs!Ops, step : Jobs!Steps]]
          /\ \A d \in Callers : d # c => at'[d] = at[d]
      BY <2>1, <2>4, CallerMoves
    <2>6. Replacing(c) => job \in Jobs!Live \/ Replacing(c)'
      <3> SUFFICES ASSUME Replacing(c), job \notin Jobs!Live PROVE Replacing(c)'
        OBVIOUS
      <3>1. at[c].op \in {"enqueue", "immediate"} /\ job \in {"none"} \cup Jobs!Terminal
        BY <2>1 DEF Replacing, JobType
      <3>2. Jobs!AfterLook(at[c].op) = IF job = "none" THEN "add" ELSE "remove"
        BY <3>1 DEF Jobs!AfterLook, Jobs!Live, Jobs!Terminal
      <3>3. Jobs!GoOn(c, IF job = "none" THEN "add" ELSE "remove")
        BY <2>4, <3>2
      <3>4. at'[c].op = at[c].op /\ at'[c].step = IF job = "none" THEN "add" ELSE "remove"
        BY <2>1, <3>3, CallerAt
      <3> QED
        BY <2>2, <3>1, <3>4 DEF Replacing
    <2> QED
      BY <2>2, <2>5, <2>6 DEF JobType, OwedIsCarried, Replacing
  <1>6. CASE Jobs!Remove(c)
    <2>1. at[c].op \in Jobs!Ops /\ at[c].step = "remove"
      BY <1>6, CallerBusy DEF Jobs!Remove, Jobs!Steps
    <2>2. UNCHANGED <<row, owed, losses>>
      BY <1>6 DEF Jobs!Remove
    <2>3. CASE job = "active"
      <3>1. UNCHANGED <<job, cancelled>> /\ Jobs!Return(c)
        BY <1>6, <2>3 DEF Jobs!Remove
      <3>2. at' \in [Callers -> {Jobs!Idle} \cup [op : Jobs!Ops, step : Jobs!Steps]]
        BY <2>1, <3>1, CallerMoves
      <3> QED
        BY <2>2, <2>3, <3>1, <3>2 DEF JobType, OwedIsCarried, Jobs!Live
    <2>4. CASE job # "active"
      <3>1. /\ job' = "none" /\ cancelled' = (cancelled \/ at[c].op = "cancel")
            /\ Jobs!GoOn(c, IF at[c].op = "cancel" THEN "write" ELSE "add")
        BY <1>6, <2>4 DEF Jobs!Remove
      <3>2. at' \in [Callers -> {Jobs!Idle} \cup [op : Jobs!Ops, step : Jobs!Steps]]
        BY <2>1, <3>1, CallerMoves DEF Jobs!Steps
      <3>3. at[c].op = "cancel" => cancelled'
        BY <3>1
      <3>4. at[c].op # "cancel" => Replacing(c)'
        BY <2>1, <3>1, CallerAt DEF Replacing
      <3>5. cancelled' \in BOOLEAN
        BY <3>1 DEF JobType
      <3> QED
        BY <2>2, <3>1, <3>2, <3>3, <3>4, <3>5 DEF JobType, OwedIsCarried
    <2> QED
      BY <2>3, <2>4
  <1>7. CASE Jobs!WriteCancelled(c)
    <2>1. at[c].op \in Jobs!Ops /\ at[c].step = "write"
      BY <1>7, CallerBusy DEF Jobs!WriteCancelled, Jobs!Steps
    <2>2. /\ at' \in [Callers -> {Jobs!Idle} \cup [op : Jobs!Ops, step : Jobs!Steps]]
          /\ \A d \in Callers : d # c => at'[d] = at[d]
      BY <1>7, <2>1, CallerMoves DEF Jobs!WriteCancelled
    <2>3. row' = "completed" /\ UNCHANGED <<job, owed, cancelled, losses>>
      BY <1>7 DEF Jobs!WriteCancelled
    <2> QED
      BY <2>1, <2>2, <2>3 DEF JobType, OwedIsCarried, Replacing, Jobs!Settled
  <1>8. CASE Jobs!Add(c)
    <2>1. at[c].op \in Jobs!Ops /\ at[c].step = "add"
      BY <1>8, CallerBusy DEF Jobs!Add, Jobs!Steps
    <2>2. /\ at' \in [Callers -> {Jobs!Idle} \cup [op : Jobs!Ops, step : Jobs!Steps]]
          /\ \A d \in Callers : d # c => at'[d] = at[d]
      BY <1>8, <2>1, CallerMoves DEF Jobs!Add
    <2>3. UNCHANGED <<row, owed, cancelled, losses>>
      BY <1>8 DEF Jobs!Add
    <2>4. \/ job # "none" /\ job' = job
          \/ job = "none" /\ job' \in {"waiting", "delayed"}
      BY <1>8 DEF Jobs!Add
    <2> QED
      BY <2>1, <2>2, <2>3, <2>4 DEF JobType, OwedIsCarried, Replacing, Jobs!Live
  <1>9. CASE Jobs!Promote(c)
    <2>1. at[c].op \in Jobs!Ops /\ at[c].step = "promote"
      BY <1>9, CallerBusy DEF Jobs!Promote, Jobs!Steps
    <2>2. /\ at' \in [Callers -> {Jobs!Idle} \cup [op : Jobs!Ops, step : Jobs!Steps]]
          /\ \A d \in Callers : d # c => at'[d] = at[d]
      BY <1>9, <2>1, CallerMoves DEF Jobs!Promote
    <2>3. /\ UNCHANGED <<row, owed, cancelled, losses>>
          /\ job' = IF job = "delayed" THEN "waiting" ELSE job
      BY <1>9 DEF Jobs!Promote
    <2> QED
      BY <2>1, <2>2, <2>3 DEF JobType, OwedIsCarried, Replacing, Jobs!Live
  <1>10. CASE Jobs!CallerDies(c)
    <2>1. losses' = losses + 1 /\ UNCHANGED <<row, job, owed, cancelled>>
      BY <1>10 DEF Jobs!CallerDies
    <2>2. at' \in [Callers -> {Jobs!Idle} \cup [op : Jobs!Ops, step : Jobs!Steps]]
      BY <1>10 DEF Jobs!CallerDies, Jobs!Return, JobType
    <2>3. losses' \in Nat /\ losses' # 0
      BY <2>1 DEF JobType
    <2> QED
      BY <2>1, <2>2, <2>3 DEF JobType, OwedIsCarried
  <1> QED
    BY <1>1, <1>2, <1>3, <1>4, <1>5, <1>6, <1>7, <1>8, <1>9, <1>10

\* BullMQ, the worker's wrapper and the faults.
LEMMA WorkerStep ==
  ASSUME JobInv,
         \/ Jobs!Due \/ Jobs!Take \/ Jobs!MarkActive \/ Jobs!Record \/ Jobs!Finish
         \/ Jobs!Expire \/ Jobs!WorkerDies \/ Jobs!RedisLoses
  PROVE  JobInv'
  <1> USE DEF JobInv, JobType, OwedIsCarried, Replacing, Jobs!Live, Jobs!Terminal, Jobs!Settled
  <1>1. CASE Jobs!Due
    BY <1>1 DEF Jobs!Due
  <1>2. CASE Jobs!Take
    BY <1>2 DEF Jobs!Take
  <1>3. CASE Jobs!MarkActive
    BY <1>3 DEF Jobs!MarkActive
  <1>4. CASE Jobs!Record
    BY <1>4 DEF Jobs!Record
  <1>5. CASE Jobs!Finish
    BY <1>5 DEF Jobs!Finish
  <1>6. CASE Jobs!Expire
    BY <1>6 DEF Jobs!Expire, Jobs!Idle
  <1>7. CASE Jobs!WorkerDies
    BY <1>7 DEF Jobs!WorkerDies
  <1>8. CASE Jobs!RedisLoses
    BY <1>8 DEF Jobs!RedisLoses
  <1> QED
    BY <1>1, <1>2, <1>3, <1>4, <1>5, <1>6, <1>7, <1>8

\* The ledger's invariant holds of every behaviour that runs the job ledger.
LEMMA JobInvariant == Spec => [](service = "jobs" => JobInv)
  <1>1. Init => (service = "jobs" => JobInv)
    <2> SUFFICES ASSUME Jobs!Init PROVE JobInv
      BY DEF Init
    <2>1. at \in [Callers -> {Jobs!Idle} \cup [op : Jobs!Ops, step : Jobs!Steps]]
      BY DEF Jobs!Init
    <2>2. row = "none" /\ job = "none" /\ losses = 0 /\ owed = FALSE /\ cancelled = FALSE
      BY DEF Jobs!Init
    <2> QED
      BY <2>1, <2>2 DEF JobInv, JobType, OwedIsCarried
  <1>2. JobInv /\ Jobs!Next => JobInv'
    BY CallerStep, WorkerStep DEF Jobs!Next
  <1>3. JobInv /\ UNCHANGED jobs => JobInv'
    BY DEF jobs, JobInv, JobType, OwedIsCarried, Replacing
  <1>4. (service = "jobs" => JobInv) /\ [Next]_vars => (service = "jobs" => JobInv)'
    BY <1>2, <1>3 DEF Next, vars
  <1> QED
    BY <1>1, <1>4, PTL DEF Spec

\* No enqueue is swallowed: with no call in flight, nothing lost and nothing cancelled, an
\* enqueue that no finished run has answered has a job that will run, however many callers
\* found the same finished job and removed and added under its id.
THEOREM EnqueueIsKept == Spec => []IntentsRun
  <1>1. (service = "jobs" => JobInv) => IntentsRun
    BY DEF JobInv, OwedIsCarried, Replacing, IntentsRun, Jobs!IntentsRun, Jobs!Idle
  <1> QED
    BY <1>1, JobInvariant, PTL

\* What the invariant does not need of the queue: its attempts, its worker, and the bounds.
QueueType ==
    /\ attempt \in 0 .. MaxAttempts - 1
    /\ step \in {"idle", "taken", "running"} \cup Jobs!Terminal
    /\ (job = "active") = (step # "idle")
    /\ intents \in 0 .. MaxIntents /\ ensures \in 0 .. MaxEnsures /\ losses \in 0 .. MaxLosses

\* It is kept by every step of the callers and of the worker.
LEMMA QueueTypes ==
  ASSUME QueueType, Jobs!Next
  PROVE  QueueType'
  <1> USE JobAssumption DEF QueueType, Jobs!Live, Jobs!Terminal
  <1>1. ASSUME NEW c \in Callers,
               \/ \E op \in {"enqueue", "immediate"} : Jobs!Enqueue(c, op)
               \/ Jobs!Ensure(c) \/ Jobs!Create(c) \/ Jobs!Cancel(c) \/ Jobs!Look(c)
               \/ Jobs!WriteCancelled(c)
        PROVE  QueueType'
    BY <1>1 DEF Jobs!Enqueue, Jobs!Ensure, Jobs!Create, Jobs!Cancel, Jobs!Look, Jobs!WriteCancelled
  <1>2. ASSUME NEW c \in Callers,
               Jobs!Remove(c) \/ Jobs!Add(c) \/ Jobs!Promote(c) \/ Jobs!CallerDies(c)
        PROVE  QueueType'
    BY <1>2 DEF Jobs!Remove, Jobs!Add, Jobs!Promote, Jobs!CallerDies
  <1>3. CASE Jobs!Due \/ Jobs!Take \/ Jobs!Expire \/ Jobs!RedisLoses
    BY <1>3 DEF Jobs!Due, Jobs!Take, Jobs!Expire, Jobs!RedisLoses
  <1>4. CASE Jobs!MarkActive \/ Jobs!Record \/ Jobs!WorkerDies
    BY <1>4 DEF Jobs!MarkActive, Jobs!Record, Jobs!WorkerDies
  <1>5. CASE Jobs!Finish
    BY <1>5 DEF Jobs!Finish
  <1> QED
    BY <1>1, <1>2, <1>3, <1>4, <1>5 DEF Jobs!Next

\* The types of the job ledger, in every behaviour that runs it.
LEMMA JobsAreTyped == Spec => [](service = "jobs" => Jobs!TypeOK)
  <1>1. Init => (service = "jobs" => QueueType)
    BY JobAssumption DEF Init, Jobs!Init, QueueType
  <1>2. (service = "jobs" => QueueType) /\ [Next]_vars => (service = "jobs" => QueueType)'
    <2>1. QueueType /\ UNCHANGED jobs => QueueType'
      BY DEF jobs, QueueType
    <2> QED
      BY <2>1, QueueTypes DEF Next, vars
  <1>3. JobInv /\ QueueType => Jobs!TypeOK
    BY DEF JobInv, JobType, QueueType, Jobs!TypeOK
  <1> QED
    BY <1>1, <1>2, <1>3, JobInvariant, PTL DEF Spec

\* The types of the dialer, in every behaviour that runs it.
LEMMA DialerIsTyped == Spec => [](service = "dialer" => Dialer!TypeOK)
  <1>1. DialerInv => Dialer!TypeOK
    <2>1. ASSUME DialerInv, NEW r \in Runners PROVE run[r].at \in Places
      BY <2>1 DEF DialerInv, RunnerType
    <2>2. DialerInv => call.status \in Statuses
      BY DEF DialerInv, CallType, CallRows
    <2> QED
      BY <2>1, <2>2 DEF DialerInv, CallType, ClaimedOnce, EndsAreLogged, Places, Statuses,
         Dialer!TypeOK
  <1> QED
    BY <1>1, DialerInvariant, PTL
=============================================================================
