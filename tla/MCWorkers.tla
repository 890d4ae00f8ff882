----------------------------- MODULE MCWorkers ------------------------------
(***************************************************************************)
(* The other Celery tasks, for TLC: backups, inbound messages, reminders,  *)
(* campaigns, alerts and retention.  They share no row here, so a          *)
(* behaviour is one of the part that works, and the others stand still.    *)
(***************************************************************************)
EXTENDS Backups, Sequences

CONSTANTS Messages, Contacts, Transactions, Campaigns, Members, Workers, Rows,
          None,     \* a row or a date that does not exist
          Parts,    \* the parts that may work
          Bodies, DueDates,                    \* what customers write, when debts are due
          MIN_SAMPLE_SIZE, Percent,            \* the alerts' threshold
          max_per_customer_per_week,
          LastReminderDay, MaxOrders, MaxMessages, MaxReopened, MaxMinutes,
          MaxCrashes                           \* bounds, the last one of each part

VARIABLES
    part,
    row, task, received, sms_opt_in, requests, answers, inbound_crashes,
    txn, today, reminders_pc, candidates, offered, outbox,
    status, arrived, opt_in, promos, campaigns_pc, todo, cur, loaded, recipients, tried,
    finished, orders,
    failed, other, configured, alerts_pc, total_failed, total_sent, minute, alerts, audited,
    reopened, alerts_crashes,
    kind, age, retention_pc, deleting, retention_crashes

\* A keyword of every kind by itself, and texts that hold none, one or two.
Texts == {[exact |-> k, words |-> {k}] : k \in {"paid", "call", "extension", "stop", "start"}}
    \cup {[exact |-> "unknown", words |-> ks] :
              ks \in {{}, {"stop"}, {"call", "stop"}, {"promo", "stop"}, {"extension", "points"}}}

TwoWeeksAhead == {14, None}

Inbox == INSTANCE Inbound WITH
    Unknown <- None, crashes <- inbound_crashes

Scheduler == INSTANCE Reminders WITH
    NoDate <- None, LastDay <- LastReminderDay, pc <- reminders_pc

Promotions == INSTANCE Campaigns WITH
    NoCampaign <- None, pc <- campaigns_pc, candidates <- recipients

Alerting == INSTANCE Alerts WITH
    pc <- alerts_pc, crashes <- alerts_crashes

Purging == INSTANCE Retention WITH
    pc <- retention_pc, crashes <- retention_crashes

ASSUME WorkersAssumption ==
    /\ Inbox!InboundAssumption /\ Scheduler!RemindersAssumption /\ Promotions!CampaignsAssumption
    /\ Alerting!AlertsAssumption /\ Purging!RetentionAssumption

AllParts == {"backups", "inbound", "reminders", "campaigns", "alerts", "retention"}
OnlyInbound == {"inbound"}

inboundVars == <<row, task, received, sms_opt_in, requests, answers, inbound_crashes>>
remindersVars == <<txn, today, reminders_pc, candidates, offered, outbox>>
campaignsVars == <<status, arrived, opt_in, promos, campaigns_pc, todo, cur, loaded, recipients,
                   tried, finished, orders>>
alertsVars == <<failed, other, configured, alerts_pc, total_failed, total_sent, minute, alerts,
                audited, reopened, alerts_crashes>>
retentionVars == <<kind, age, retention_pc, deleting, retention_crashes>>
allVars == <<part, vars, inboundVars, remindersVars, campaignsVars, alertsVars, retentionVars>>

\* A part that stands still does so in one state.
WorkersInit ==
    /\ part \in Parts
    /\ Init /\ (part = "backups" \/ sunday = 0)
    /\ Inbox!Init /\ (part = "inbound" \/ \A c \in Contacts : sms_opt_in[c])
    /\ Scheduler!Init
    /\ part = "reminders" \/ \A t \in Transactions : txn[t].type = "sale" /\ txn[t].due_date = None
    /\ Promotions!Init /\ (part = "campaigns" \/ opt_in = {})
    /\ Alerting!Init /\ (part = "alerts" \/ ~configured)
    /\ Purging!Init /\ (part = "retention" \/ \A r \in Rows : kind[r] = "sent")

-----------------------------------------------------------------------------
BackupTask ==
    /\ part = "backups" /\ Next
    /\ UNCHANGED <<part, inboundVars, remindersVars, campaignsVars, alertsVars, retentionVars>>

InboundTask ==
    /\ part = "inbound" /\ Inbox!Next
    /\ UNCHANGED <<part, vars, remindersVars, campaignsVars, alertsVars, retentionVars>>

ReminderTask ==
    /\ part = "reminders" /\ Scheduler!Next
    /\ UNCHANGED <<part, vars, inboundVars, campaignsVars, alertsVars, retentionVars>>

CampaignTask ==
    /\ part = "campaigns" /\ Promotions!Next
    /\ UNCHANGED <<part, vars, inboundVars, remindersVars, alertsVars, retentionVars>>

AlertTask ==
    /\ part = "alerts" /\ Alerting!Next
    /\ UNCHANGED <<part, vars, inboundVars, remindersVars, campaignsVars, retentionVars>>

RetentionTask ==
    /\ part = "retention" /\ Purging!Next
    /\ UNCHANGED <<part, vars, inboundVars, remindersVars, campaignsVars, alertsVars>>

WorkersNext ==
    \/ BackupTask \/ InboundTask \/ ReminderTask \/ CampaignTask \/ AlertTask \/ RetentionTask

WorkersSpec == WorkersInit /\ [][WorkersNext]_allVars

\* The fairness of the modules, of the part that works.
WorkersLiveSpec ==
    /\ WorkersSpec
    /\ \A m \in Messages :
           WF_inboundVars(part = "inbound" /\ Inbox!ProcessInboundMessage(m))
    /\ \A w \in Workers :
           WF_campaignsVars(part = "campaigns" /\ Promotions!ProcessScheduled(w))
    /\ WF_alertsVars(part = "alerts" /\ Alerting!RunAlertCheck)
    /\ WF_remindersVars(part = "reminders" /\ Scheduler!ComputeReminderCandidates)

-----------------------------------------------------------------------------
(* The properties of the modules, where they state and explain them.       *)

\* Files, rows, candidates, counts and tasks have their types in every part.
WorkersTypeOK ==
    /\ TypeOK /\ Inbox!TypeOK /\ Scheduler!TypeOK /\ Promotions!TypeOK /\ Alerting!TypeOK /\ Purging!TypeOK

\* A message is marked processed exactly when it was answered.
ProcessedIffAnswered == Inbox!ProcessedIffAnswered

\* A customer gets two replies to a message only when a worker died.
AnsweredTwiceNeedsACrash == Inbox!AnsweredTwiceNeedsACrash

\* A known customer is answered, unless the branch raises.
EveryMessageAnswered == Inbox!EveryMessageAnswered

\* "STOP/START update contact preferences".
StopIsHonoured == Inbox!StopIsHonoured

\* One reminder of a transaction a day, however often the scheduler runs.
OneReminderADay == Scheduler!OneReminderADay

\* A debt past its due date is noticed sooner or later.
LateDebtIsNoticed == Scheduler!LateDebtIsNoticed

\* A campaign that raises does not keep the others from their turn.
EveryDueCampaignTried == Promotions!EveryDueCampaignTried

\* There are never more failures than messages in a failure rate.
RateIsAFraction == Alerting!RateIsAFraction

\* A failure rate that settles at the threshold is reported.
FailuresAreReported == Alerting!FailuresAreReported
=============================================================================
