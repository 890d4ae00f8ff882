------------------------------- MODULE Alerts -------------------------------
(***************************************************************************)
(* domain/alerting.py: the check of the failure rate that Celery starts    *)
(* every 15 minutes, while sends and delivery reports change the rows it   *)
(* counts.  The two counts are two statements.  The alert goes straight to *)
(* the provider; the audit event after it raises, and the session, which   *)
(* holds nothing, is rolled back.                                          *)
(***************************************************************************)
EXTENDS Integers

CONSTANTS MIN_SAMPLE_SIZE,
          Percent,       \* the threshold, failures of a hundred
          MaxMessages,   \* bound: rows of the window
          MaxReopened,   \* bound: FAILED rows a stale reconciliation sets PENDING
          MaxMinutes, MaxCrashes

AlertsAssumption ==
    /\ MIN_SAMPLE_SIZE \in Nat \ {0} /\ Percent \in 1..100
    /\ {MaxMessages, MaxReopened, MaxMinutes, MaxCrashes} \subseteq Nat

VARIABLES
    failed, other,  \* rows of the window: FAILED; SENT or DELIVERED
    configured,     \* ALERT_ADMIN_PHONE is set
    pc,
    total_failed, total_sent,  \* what the check has counted
    minute,
    alerts,         \* [0..MaxMinutes -> requests with that minute's client_message_id]
    audited,        \* audit events of alerts
    reopened, crashes

vars == <<failed, other, configured, pc, total_failed, total_sent, minute, alerts, audited, reopened, crashes>>
rows == <<failed, other, reopened>>
check == <<pc, total_failed, total_sent>>

Init ==
    /\ failed = 0 /\ other = 0 /\ configured \in BOOLEAN
    /\ pc = "idle" /\ total_failed = 0 /\ total_sent = 0
    /\ minute = 0 /\ alerts = [i \in 0..MaxMinutes |-> 0]
    /\ audited = 0 /\ reopened = 0 /\ crashes = 0

-----------------------------------------------------------------------------
\* A check starts every 15 minutes: a minute has one, unless it is delivered again.
StartCheck ==
    /\ pc = "requeued" \/ (pc = "idle" /\ alerts[minute] = 0)
    /\ pc' = "counting"
    /\ UNCHANGED <<rows, configured, total_failed, total_sent, minute, alerts, audited, crashes>>

\* Fault: the failed rows are counted after all rows.
TotalFirst == <<"total", "failed">>

\* The order of the two SELECTs.
Counts == <<"failed", "total">>

Count(n) ==
    /\ pc = IF n = 1 THEN "counting" ELSE "counting 2"
    /\ \/ Counts[n] = "failed" /\ total_failed' = failed /\ UNCHANGED total_sent
       \/ Counts[n] = "total" /\ total_sent' = failed + other /\ UNCHANGED total_failed
    /\ pc' = IF n = 1 THEN "counting 2" ELSE "counted"
    /\ UNCHANGED <<rows, configured, minute, alerts, audited, crashes>>

\* Fault: the threshold itself does not alert.
AboveThreshold == total_failed * 100 > Percent * total_sent

AtThreshold == total_failed * 100 >= Percent * total_sent

ShouldAlert == total_sent >= MIN_SAMPLE_SIZE /\ AtThreshold

NoAlert ==
    /\ pc = "counted" /\ ~(ShouldAlert /\ configured)
    /\ pc' = "idle"
    /\ UNCHANGED <<rows, configured, total_failed, total_sent, minute, alerts, audited, crashes>>

\* send_alert; its answer is not looked at.
SendAlert ==
    /\ pc = "counted" /\ ShouldAlert /\ configured
    /\ alerts' = [alerts EXCEPT ![minute] = @ + 1]
    /\ pc' = "auditing"
    /\ UNCHANGED <<rows, configured, total_failed, total_sent, minute, audited, crashes>>

AfterError == "idle"

\* log_audit_event raises; the task ends with the error in its result.
AuditRaises ==
    /\ pc = "auditing"
    /\ pc' = AfterError
    /\ UNCHANGED <<rows, configured, total_failed, total_sent, minute, alerts, audited, crashes>>

RunAlertCheck ==
    StartCheck \/ Count(1) \/ Count(2) \/ NoAlert \/ SendAlert \/ AuditRaises

\* The worker dies; the task is delivered again.
Die ==
    /\ pc \notin {"idle", "requeued"} /\ crashes < MaxCrashes
    /\ crashes' = crashes + 1
    /\ pc' = "requeued"
    /\ UNCHANGED <<rows, configured, total_failed, total_sent, minute, alerts, audited>>

\* A message gets its outcome, or a delivery report changes it.
MessageEnds ==
    /\ \/ failed + other < MaxMessages
          /\ \/ failed' = failed + 1 /\ UNCHANGED other
             \/ other' = other + 1 /\ UNCHANGED failed
       \/ failed > 0 /\ failed' = failed - 1 /\ other' = other + 1
       \/ other > 0 /\ other' = other - 1 /\ failed' = failed + 1
    /\ UNCHANGED <<configured, check, minute, alerts, audited, reopened, crashes>>

\* reconcile_unknown_delivery writes PENDING over a row that has failed since.
Reopen ==
    /\ failed > 0 /\ reopened < MaxReopened
    /\ failed' = failed - 1 /\ reopened' = reopened + 1
    /\ UNCHANGED <<other, configured, check, minute, alerts, audited, crashes>>

\* Between checks an hour passes: rows leave the window.
WindowMoves ==
    /\ pc = "idle"
    /\ failed' \in 0..failed /\ other' \in 0..other
    /\ UNCHANGED <<configured, check, minute, alerts, audited, reopened, crashes>>

NextMinute ==
    /\ minute < MaxMinutes
    /\ minute' = minute + 1
    /\ UNCHANGED <<rows, configured, check, alerts, audited, crashes>>

Next == RunAlertCheck \/ Die \/ MessageEnds \/ Reopen \/ WindowMoves \/ NextMinute

Spec == Init /\ [][Next]_vars

LiveSpec == Spec /\ WF_vars(RunAlertCheck)

-----------------------------------------------------------------------------
TypeOK ==
    /\ failed + other <= MaxMessages /\ {failed, other} \subseteq Nat /\ configured \in BOOLEAN
    /\ pc \in {"idle", "counting", "counting 2", "counted", "auditing", "requeued"}
    /\ {total_failed, total_sent} \subseteq 0..MaxMessages
    /\ minute \in 0..MaxMinutes /\ alerts \in [0..MaxMinutes -> 0..(MaxCrashes + 1)]
    /\ audited = 0 /\ reopened \in 0..MaxReopened /\ crashes \in 0..MaxCrashes

\* "fraction of terminal messages that failed (0.0-1.0)": messages end and reports
\* arrive between the two counts, but the failed ones are counted first and no
\* failed row leaves the outcomes, so there are never more failures than messages.
\* Only a failed message that a stale reconciliation reopens could break it.
RateIsAFraction == pc = "counted" /\ reopened = 0 => total_failed <= total_sent

Failing == configured /\ failed + other >= MIN_SAMPLE_SIZE /\ failed * 100 >= Percent * (failed + other)
Alerted == \E i \in 0..MaxMinutes : alerts[i] > 0

\* Once a rate at the threshold settles, some check reports it, whatever was
\* counted while it changed and whatever worker dies.
FailuresAreReported ==
    <>[]Failing /\ <>[][UNCHANGED <<failed, other>>]_<<failed, other>> => <>Alerted
=============================================================================
