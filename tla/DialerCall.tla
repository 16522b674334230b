---------------------------- MODULE DialerCall -----------------------------
(***************************************************************************)
(* One outbound phone call: the parked legs a rep's browser opens with the *)
(* call token, the webhook that claims the Call row and connects it        *)
(* (parked.ts, webhook/route.ts), the provider's events applied by the     *)
(* worker and by the reconcile replay (applyEvent.ts) and the reconcile    *)
(* cron's repairs (reconcile.ts). Events arrive in any order; a webhook, a *)
(* worker or the cron may die between two statements.                      *)
(***************************************************************************)
EXTENDS Naturals

CONSTANTS
    Legs,           \* parked legs opened with the call's token
    Runners,        \* processes applying stored events: worker slots, the replay
    MaxDeaths       \* bound: webhooks, runners and cron runs that die

VARIABLES
    call,           \* the Call row
    web,            \* web[l]: where the webhook of parked leg l is
    line,           \* the provider's lead leg
    event,          \* event[e]: none, sent by the provider, stored, done
    run,            \* run[r]: the event a runner is applying
    cron,           \* finalizeStuck's progress with this call
    logs,           \* Activity rows under the key call:<id>:final
    dials,          \* history: transfers the provider carried out
    answered,       \* history: the lead's leg did answer
    unlogged,       \* history: the cron died between ending the call and logging it
    deaths          \* history: deaths so far

vars == <<call, web, line, event, run, cron, logs, dials, answered, unlogged, deaths>>

Order == <<"authorized", "initiated", "ringing", "answered">>
Live == {"authorized", "initiated", "ringing", "answered"}
Final == {"completed", "failed", "canceled", "no_answer"}
Terminal == Final \cup {"blocked"}
Rank(s) == IF s \in Terminal THEN 5 ELSE CHOOSE i \in 1 .. 4 : Order[i] = s

\* leg: our lead leg's created event; rep: the rep's leg answering. Telnyx does not echo
\* the transfer's client state, so the other events are the lead's once its leg is known.
Events == {"leg", "rep", "answer", "hangup"}

NoRun == [event |-> "none", at |-> "idle", had |-> FALSE]

Init ==
    /\ call = [status |-> "authorized", owner |-> "none", started |-> FALSE,
               answeredAt |-> FALSE, leg |-> FALSE, activity |-> FALSE]
    /\ web = [l \in Legs |-> "none"]
    /\ line = "none"
    /\ event = [e \in Events |-> "none"]
    /\ run = [r \in Runners |-> NoRun]
    /\ cron = NoRun
    /\ logs = 0
    /\ dials = 0
    /\ answered = FALSE
    /\ unlogged = FALSE
    /\ deaths = 0

-----------------------------------------------------------------------------
\* The webhook of a parked leg: handleParkedCall.

Web(l, from, to) == web[l] = from /\ web' = [web EXCEPT ![l] = to]

\* The row is read: a call that is not authorized any more only hangs the leg up.
Park(l) ==
    /\ Web(l, "none", IF call.status = "authorized" THEN "gate" ELSE "over")
    /\ UNCHANGED <<call, line, event, run, cron, logs, dials, answered, unlogged, deaths>>

\* The gate, asked again, refuses: block() moves only an authorized row.
Refuse(l) ==
    /\ Web(l, "gate", "over")
    /\ call' = IF call.status = "authorized" THEN [call EXCEPT !.status = "blocked"] ELSE call
    /\ UNCHANGED <<line, event, run, cron, logs, dials, answered, unlogged, deaths>>

\* Mutant: the row is claimed by id, not by its status.
ClaimById(l) ==
    /\ Web(l, "gate", "connect")
    /\ call' = [call EXCEPT !.status = "initiated", !.started = TRUE, !.owner = l]
    /\ UNCHANGED <<line, event, run, cron, logs, dials, answered, unlogged, deaths>>

\* The claim: only one webhook moves the row out of authorized.
Claim(l) ==
    /\ IF call.status = "authorized"
         THEN /\ Web(l, "gate", "connect")
              /\ call' = [call EXCEPT !.status = "initiated", !.started = TRUE, !.owner = l]
         ELSE Web(l, "gate", "over") /\ call' = call
    /\ UNCHANGED <<line, event, run, cron, logs, dials, answered, unlogged, deaths>>

\* The transfer goes through, whether or not the webhook hears so. The provider reports
\* the rep's leg and, once created, the lead's.
Connect(l) ==
    /\ Web(l, "connect", "over")
    /\ dials' = dials + 1
    /\ line' = "ringing"
    /\ event' = [event EXCEPT !["leg"] = "sent", !["rep"] = "sent"]
    /\ UNCHANGED <<call, run, cron, logs, answered, unlogged, deaths>>

\* The provider refuses the transfer: nothing was dialled, and nothing counts as started.
ConnectRefused(l) ==
    /\ Web(l, "connect", "over")
    /\ call' = IF call.status = "initiated"
                 THEN [call EXCEPT !.status = "failed", !.started = FALSE] ELSE call
    /\ UNCHANGED <<line, event, run, cron, logs, dials, answered, unlogged, deaths>>

\* A timeout before the provider did anything: the row stays initiated for the cron.
ConnectUnknown(l) ==
    /\ Web(l, "connect", "over")
    /\ UNCHANGED <<call, line, event, run, cron, logs, dials, answered, unlogged, deaths>>

WebhookDies(l) ==
    /\ web[l] \in {"gate", "connect"}
    /\ deaths < MaxDeaths
    /\ deaths' = deaths + 1
    /\ web' = [web EXCEPT ![l] = "over"]
    /\ UNCHANGED <<call, line, event, run, cron, logs, dials, answered, unlogged>>

-----------------------------------------------------------------------------
\* The provider.

Answer ==
    /\ line = "ringing"
    /\ line' = "answered"
    /\ answered' = TRUE
    /\ event' = [event EXCEPT !["answer"] = "sent"]
    /\ UNCHANGED <<call, web, run, cron, logs, dials, unlogged, deaths>>

HangUp ==
    /\ line \in {"ringing", "answered"}
    /\ line' = "over"
    /\ event' = [event EXCEPT !["hangup"] = "sent"]
    /\ UNCHANGED <<call, web, run, cron, logs, dials, answered, unlogged, deaths>>

\* The webhook stores an event. Our own leg is recognised while the call is connected and
\* its control id kept; otherwise it looks like a parked call and is hung up.
Store(e) ==
    /\ event[e] = "sent"
    /\ IF e = "leg" /\ call.status \notin {"initiated", "ringing"}
         THEN /\ call' = call
              /\ line' = IF line = "over" THEN line ELSE "over"
              /\ event' = [event EXCEPT !["leg"] = "done",
                             !["hangup"] = IF line = "over" THEN @ ELSE "sent"]
         ELSE /\ call' = IF e = "leg" THEN [call EXCEPT !.leg = TRUE] ELSE call
              /\ line' = line
              /\ event' = [event EXCEPT ![e] = "stored"]
    /\ UNCHANGED <<web, run, cron, logs, dials, answered, unlogged, deaths>>

-----------------------------------------------------------------------------
\* processTelephonyEvent, by the worker or by the replay.

At(r, s) == run' = [run EXCEPT ![r].at = s]

\* Mutant: the event is marked before its effects are written.
PickMarked(r, e) ==
    /\ run[r] = NoRun
    /\ event[e] = "stored"
    /\ call.owner # "none"
    /\ run' = [run EXCEPT ![r] = [event |-> e, at |-> "apply", had |-> call.answeredAt]]
    /\ event' = [event EXCEPT ![e] = "done"]
    /\ UNCHANGED <<call, web, line, cron, logs, dials, answered, unlogged, deaths>>

\* The runner reads the event, finds it unprocessed, and reads the call it belongs to.
Pick(r, e) ==
    /\ run[r] = NoRun
    /\ event[e] = "stored"
    /\ call.owner # "none"
    /\ run' = [run EXCEPT ![r] = [event |-> e, at |-> "apply", had |-> call.answeredAt]]
    /\ UNCHANGED <<call, web, line, event, cron, logs, dials, answered, unlogged, deaths>>

\* advance: updateMany guarded by the statuses the move may start from.
Advance(to) == IF Rank(call.status) < Rank(to) THEN [call EXCEPT !.status = to] ELSE call

\* call.initiated of our leg.
ApplyLeg(r) ==
    /\ run[r].at = "apply" /\ run[r].event = "leg"
    /\ call' = IF call.leg THEN Advance("ringing") ELSE call
    /\ At(r, "mark")
    /\ UNCHANGED <<web, line, event, cron, logs, dials, answered, unlogged, deaths>>

\* call.answered: only the lead's leg, once known, counts; the status first, the time next.
ApplyAnswer(r) ==
    /\ run[r].at = "apply" /\ run[r].event \in {"answer", "rep"}
    /\ IF run[r].event = "answer" /\ call.leg
         THEN call' = Advance("answered") /\ At(r, "fill")
         ELSE call' = call /\ At(r, "mark")
    /\ UNCHANGED <<web, line, event, cron, logs, dials, answered, unlogged, deaths>>

FillAnswer(r) ==
    /\ run[r].at = "fill"
    /\ call' = [call EXCEPT !.answeredAt = TRUE]
    /\ At(r, "mark")
    /\ UNCHANGED <<web, line, event, cron, logs, dials, answered, unlogged, deaths>>

\* Mutant: any stored answer of the session counts.
AnyAnswer(had) == had \/ \E e \in {"answer", "rep"} : event[e] \in {"stored", "done"}

\* Whether the lead answered, from the call as read and the session's stored events.
SawAnswer(had) == had \/ (call.leg /\ event["answer"] \in {"stored", "done"})

\* finishCall, its first half: the end, or only the fields an earlier end left empty.
Finished(saw, cause) ==
    [Advance(IF saw THEN "completed" ELSE cause) EXCEPT !.answeredAt = @ \/ saw]

\* call.hangup.
ApplyHangup(r) ==
    /\ run[r].at = "apply" /\ run[r].event = "hangup"
    /\ \E cause \in {"canceled", "no_answer"} : call' = Finished(SawAnswer(run[r].had), cause)
    /\ At(r, "log")
    /\ UNCHANGED <<web, line, event, cron, logs, dials, answered, unlogged, deaths>>

\* ensureFinalActivity: nothing for a call that was never started or is linked.
NeedsLog == call.status \in Terminal /\ call.started /\ ~call.activity

\* Mutant: no look under the key before the Activity is created, and no unique key.
LogAgain(r) ==
    /\ run[r].at = "log"
    /\ logs' = IF NeedsLog THEN logs + 1 ELSE logs
    /\ At(r, IF NeedsLog THEN "link" ELSE "mark")
    /\ UNCHANGED <<call, web, line, event, cron, dials, answered, unlogged, deaths>>

\* ensureFinalActivity, first write: one Activity under the call's key.
Log(r) ==
    /\ run[r].at = "log"
    /\ logs' = IF NeedsLog /\ logs = 0 THEN 1 ELSE logs
    /\ At(r, IF NeedsLog THEN "link" ELSE "mark")
    /\ UNCHANGED <<call, web, line, event, cron, dials, answered, unlogged, deaths>>

Link(r) ==
    /\ run[r].at = "link"
    /\ call' = [call EXCEPT !.activity = TRUE]
    /\ At(r, "mark")
    /\ UNCHANGED <<web, line, event, cron, logs, dials, answered, unlogged, deaths>>

\* markProcessed.
Mark(r) ==
    /\ run[r].at = "mark"
    /\ event' = [event EXCEPT ![run[r].event] = "done"]
    /\ run' = [run EXCEPT ![r] = NoRun]
    /\ UNCHANGED <<call, web, line, cron, logs, dials, answered, unlogged, deaths>>

RunnerDies(r) ==
    /\ run[r] # NoRun
    /\ deaths < MaxDeaths
    /\ deaths' = deaths + 1
    /\ run' = [run EXCEPT ![r] = NoRun]
    /\ UNCHANGED <<call, web, line, event, cron, logs, dials, answered, unlogged>>

-----------------------------------------------------------------------------
\* The reconcile cron.

\* cancelStaleAuthorized: the provider never reported the call.
CancelStale ==
    /\ call.status = "authorized"
    /\ call' = [call EXCEPT !.status = "canceled"]
    /\ UNCHANGED <<web, line, event, run, cron, logs, dials, answered, unlogged, deaths>>

\* finalizeStuck reads a call that should have ended; no webhook runs for minutes.
FindStuck ==
    /\ cron = NoRun
    /\ call.status \in {"initiated", "ringing", "answered"}
    /\ \A l \in Legs : web[l] # "connect"
    /\ line \in {"none", "over"}
    /\ cron' = [event |-> "none", at |-> "apply", had |-> call.answeredAt]
    /\ UNCHANGED <<call, web, line, event, run, logs, dials, answered, unlogged, deaths>>

\* finishCall with what the row and the stored events say.
EndStuck ==
    /\ cron.at = "apply"
    /\ call' = Finished(SawAnswer(cron.had), "failed")
    /\ cron' = [cron EXCEPT !.at = "log"]
    /\ UNCHANGED <<web, line, event, run, logs, dials, answered, unlogged, deaths>>

LogStuck ==
    /\ cron.at = "log"
    /\ logs' = IF NeedsLog /\ logs = 0 THEN 1 ELSE logs
    /\ call' = IF NeedsLog THEN [call EXCEPT !.activity = TRUE] ELSE call
    /\ cron' = NoRun
    /\ UNCHANGED <<web, line, event, run, dials, answered, unlogged, deaths>>

CronDies ==
    /\ cron # NoRun
    /\ deaths < MaxDeaths
    /\ deaths' = deaths + 1
    /\ unlogged' = (unlogged \/ cron.at = "log")
    /\ cron' = NoRun
    /\ UNCHANGED <<call, web, line, event, run, logs, dials, answered>>

Next ==
    \/ \E l \in Legs : \/ Park(l) \/ Refuse(l) \/ Claim(l) \/ Connect(l) \/ ConnectRefused(l)
                       \/ ConnectUnknown(l) \/ WebhookDies(l)
    \/ Answer \/ HangUp
    \/ \E e \in Events : Store(e)
    \/ \E r \in Runners :
         \/ \E e \in Events : Pick(r, e)
         \/ ApplyLeg(r) \/ ApplyAnswer(r) \/ FillAnswer(r) \/ ApplyHangup(r)
         \/ Log(r) \/ Link(r) \/ Mark(r) \/ RunnerDies(r)
    \/ CancelStale \/ FindStuck \/ EndStuck \/ LogStuck \/ CronDies

Spec == Init /\ [][Next]_vars

-----------------------------------------------------------------------------
\* Properties.

\* The row, the events and the processes are in states the code knows, a row that has
\* left "authorized" for a live status has an owner, and the Activity exists once at most.
TypeOK ==
    /\ call.status \in Live \cup Terminal
    /\ call.status \in Live \ {"authorized"} => call.owner \in Legs
    /\ call.activity => logs = 1
    /\ logs \in 0 .. 1
    /\ event \in [Events -> {"none", "sent", "stored", "done"}]
    /\ \A r \in Runners : run[r].at \in {"idle", "apply", "fill", "log", "link", "mark"}
    /\ line \in {"none", "ringing", "answered", "over"}

\* One token, one call: however many parked legs carry it and however their webhooks
\* interleave with each other, with a refusal and with the cron's cancellation, the lead
\* is dialled at most once, and only for a row some webhook claimed (parked.ts:185-189).
DialledOnce == dials <= 1 /\ (dials = 1 => call.owner \in Legs)

\* A call ends completed only if the lead's own leg answered: the rep's leg, which answers
\* the moment the browser picks up, never counts (applyEvent.ts:134-136).
CompletedWasAnswered == call.status = "completed" => answered

\* Every placed call reaches the timeline. Once its hangup event has been applied, or the
\* cron has ended it with nobody left at work on it, a call that was started has its
\* Activity linked, even when runners died while applying the event: it is marked only
\* after its effects, so the replay repeats them (applyEvent.ts:98-101). The one gap is a
\* cron that dies between ending the call and logging it.
EndedIsLogged ==
    (/\ call.started
     /\ \/ event["hangup"] = "done"
        \/ /\ call.status \in Terminal /\ event["hangup"] # "stored"
           /\ cron = NoRun /\ \A r \in Runners : run[r] = NoRun
           /\ ~unlogged)
      => (call.status \in Terminal /\ call.activity)
=============================================================================
