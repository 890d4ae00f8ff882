----------------------------- MODULE Reminders ------------------------------
(***************************************************************************)
(* The daily reminders: workers/reminders.py loads the open transactions,  *)
(* domain/reminder_service.py says which reminders are due, the worker     *)
(* drops those of customers who opted out and domain/dispatch_service.py   *)
(* inserts the rest.  Two of these steps raise: the audit event of a       *)
(* suppressed reminder, and every non-empty insert, whose statement is     *)
(* sqlalchemy.insert and has no on_conflict_do_nothing.  Days are numbers. *)
(***************************************************************************)
EXTENDS Integers, FiniteSets

CONSTANTS Transactions,
          DueDates,    \* the due dates a transaction may have
          NoDate,      \* a transaction without one
          LastDay      \* bound: days

RemindersAssumption == DueDates \subseteq Int \cup {NoDate} /\ LastDay \in Nat

TransactionType == {"sale", "credit", "layaway", "service"}
Settled == {"paid", "cancelled"}
TransactionStatus == {"pending", "partial", "overdue"} \cup Settled

VARIABLES
    txn,        \* [Transactions -> row of transactions and its contact's consent]
    today,
    pc,         \* of the one run of compute_reminder_candidates
    candidates, \* the list of that run
    offered,    \* <<message_key, day>> of every candidate ever handed to the insert
    outbox      \* message keys in outbound_messages

vars == <<txn, today, pc, candidates, offered, outbox>>

Txn == [type : TransactionType, due_date : DueDates, status : TransactionStatus,
        sms_opt_in : BOOLEAN]

Init ==
    /\ txn \in [Transactions -> {t \in Txn : t.status = "pending" /\ t.sms_opt_in}]
    /\ today = 0 /\ pc = "idle"
    /\ candidates = {} /\ offered = {} /\ outbox = {}

-----------------------------------------------------------------------------
Schedule == [due_14 |-> 14, due_3 |-> 3, due_today |-> 0]

ReminderTypes == [sale |-> {},
                  credit |-> DOMAIN Schedule \cup {"late_notice"},
                  layaway |-> DOMAIN Schedule \cup {"late_notice", "layaway_pickup"},
                  service |-> DOMAIN Schedule \cup {"appointment_reminder"}]

\* is_reminder_due_today, with compute_reminder_date.
DueToday(t, r) == txn[t].due_date # NoDate /\ txn[t].due_date - Schedule[r] = today

\* Fault: late from the due date on.
LateOnTheDay(t) ==
    /\ txn[t].status \notin Settled /\ txn[t].type \in {"credit", "layaway"}
    /\ txn[t].due_date # NoDate /\ txn[t].due_date <= today

\* is_late_notice_eligible.
Late(t) ==
    /\ txn[t].status \notin Settled /\ txn[t].type \in {"credit", "layaway"}
    /\ txn[t].due_date # NoDate /\ txn[t].due_date < today

MessageKey(t, r) == <<t, r, txn[t].due_date>>

\* build_candidates of one transaction.
DueTypes(t) == {r \in ReminderTypes[txn[t].type] :
    /\ txn[t].status \notin Settled
    /\ \/ r \in DOMAIN Schedule /\ DueToday(t, r)
       \/ r = "late_notice" /\ Late(t)
       \/ r = "layaway_pickup" /\ txn[t].status = "paid"}

\* Fault: an overdue transaction is not open.
ActivePendingOnly(t) == txn[t].status \in {"pending", "partial"} /\ txn[t].type # "sale"

\* The transactions the worker loads.
Active(t) == txn[t].status \notin Settled /\ txn[t].type # "sale"

LoadTransactions ==
    /\ pc = "idle"
    /\ candidates' = UNION {{MessageKey(t, r) : r \in DueTypes(t)} : t \in {u \in Transactions : Active(u)}}
    /\ pc' = "checking"
    /\ UNCHANGED <<txn, today, offered, outbox>>

\* should_suppress, of the row loaded before: only the consent can be new.
Suppressed(k) == ~txn[k[1]].sms_opt_in

SuppressionRaises ==
    /\ pc = "checking" /\ \E k \in candidates : Suppressed(k)
    /\ pc' = "idle" /\ candidates' = {}
    /\ UNCHANGED <<txn, today, offered, outbox>>

CheckSuppression ==
    /\ pc = "checking" /\ \A k \in candidates : ~Suppressed(k)
    /\ pc' = "inserting"
    /\ UNCHANGED <<txn, today, candidates, offered, outbox>>

\* insert_outbox_messages raises before it executes anything.
InsertRaises ==
    /\ pc = "inserting" /\ candidates # {}
    /\ offered' = offered \cup {<<k, today>> : k \in candidates}
    /\ pc' = "idle" /\ candidates' = {}
    /\ UNCHANGED <<txn, today, outbox>>

CommitNothing ==
    /\ pc = "inserting" /\ candidates = {}
    /\ pc' = "idle"
    /\ UNCHANGED <<txn, today, candidates, offered, outbox>>

ComputeReminderCandidates ==
    \/ LoadTransactions \/ SuppressionRaises \/ CheckSuppression
    \/ InsertRaises \/ CommitNothing

\* What other code and staff do to the rows, also during a run.
SetStatus(t, s) ==
    /\ txn[t].status \notin Settled
    /\ txn' = [txn EXCEPT ![t].status = s]
    /\ UNCHANGED <<today, pc, candidates, offered, outbox>>

SetConsent(t) ==
    /\ txn' = [txn EXCEPT ![t].sms_opt_in = ~@]
    /\ UNCHANGED <<today, pc, candidates, offered, outbox>>

\* Runs begin at 6 AM and end the same day; a day may pass without one.
NextDay ==
    /\ pc = "idle" /\ today < LastDay
    /\ today' = today + 1
    /\ UNCHANGED <<txn, pc, candidates, offered, outbox>>

Next ==
    \/ ComputeReminderCandidates \/ NextDay
    \/ \E t \in Transactions :
        SetConsent(t) \/ \E s \in {"partial", "overdue", "paid", "cancelled"} : SetStatus(t, s)

Spec == Init /\ [][Next]_vars

\* Beat starts a run every morning; what staff and customers do is not fair.
LiveSpec == Spec /\ WF_vars(ComputeReminderCandidates)

-----------------------------------------------------------------------------
Keys == Transactions \X (UNION {ReminderTypes[y] : y \in TransactionType}) \X DueDates

TypeOK ==
    /\ txn \in [Transactions -> Txn] /\ today \in 0..LastDay
    /\ pc \in {"idle", "checking", "inserting"}
    /\ candidates \subseteq Keys /\ offered \subseteq Keys \X (0..LastDay)
    /\ outbox \subseteq Keys

\* However often the scheduler runs on a day, and whatever is paid between the
\* runs, a customer is offered one reminder of a transaction that day: the three
\* dates and the late notice exclude each other, and a second run finds the same
\* key, which is what the unique message_key is to reject.
OneReminderADay == \A o, p \in offered :
    (o[1][1] = p[1][1] /\ o[2] = p[2]) => o[1] = p[1]

\* A debt that is past its due date is noticed sooner or later, whether staff or
\* a payment have made it OVERDUE or PARTIAL meanwhile and however the runs fall
\* between these changes; unless it is settled first, or somebody opts out: the
\* audit event of one suppressed reminder ends the run for all customers.
LateDebtIsNoticed == \A t \in Transactions :
    Late(t) ~> \/ \E o \in offered : o[1][1] = t /\ o[1][2] = "late_notice"
               \/ txn[t].status \in Settled
               \/ \E u \in Transactions : ~txn[u].sms_opt_in
=============================================================================
