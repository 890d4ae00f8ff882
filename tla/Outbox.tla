------------------------------- MODULE Outbox -------------------------------
(***************************************************************************)
(* The transactional outbox: every writer of an outbound_messages row that *)
(* exists after the row has been inserted.                                 *)
(*                                                                         *)
(*   Senders      workers/sends.py, poll_and_send_messages                 *)
(*   Reconcilers  workers/reconciliation.py, reconcile_unknown_deliveries  *)
(*   Payers       the suppression of pending reminders when a transaction  *)
(*                is paid (mpesa_reconciliation.py, reconciliation.py)     *)
(*   Hooks        the delivery report webhooks of api/webhooks/            *)
(*                                                                         *)
(* Each of them is one database session: it reads committed rows (READ     *)
(* COMMITTED), keeps its changes to itself until it commits, and an UPDATE *)
(* waits for the row lock another session holds.  The ORM writes the       *)
(* columns it changed, with no condition on the status it read.            *)
(***************************************************************************)
EXTENDS Naturals, FiniteSets

CONSTANTS
    Messages,      \* the rows; all are reminders of one transaction
    Senders, Reconcilers, Payers, Hooks,   \* task executions, one session each
    MpesaPayers,   \* the Payers that run process_mpesa_payment
    NoProc, NoMsg, \* not a worker, not a message
    MaxRetries,    \* column max_retries (3 in the code)
    BatchSize,     \* poll_and_send_messages(batch_size)
    DailyBudget,   \* settings.daily_sms_budget_kes, in segments
    Adapter,       \* which SMS adapter query_delivery goes to
    MaxAborts      \* bound: sessions that die before they commit

Workers == Senders \cup Reconcilers \cup Payers \cup Hooks

ASSUME OutboxAssumption ==
    /\ NoProc \notin Workers
    /\ NoMsg \notin Messages
    /\ Senders \cap (Reconcilers \cup Payers \cup Hooks) = {}
    /\ Reconcilers \cap (Payers \cup Hooks) = {}
    /\ Payers \cap Hooks = {}
    /\ MpesaPayers \subseteq Payers
    /\ MaxRetries \in Nat /\ BatchSize \in Nat /\ DailyBudget \in Nat
    /\ MaxAborts \in Nat
    /\ Adapter \in {"africas_talking", "twilio", "contract"}

VARIABLES
    row,       \* committed rows
    image,     \* rows as the session that holds the row lock sees them
    lock,      \* [Messages -> Workers \cup {NoProc}]: row locks
    pc,        \* [Workers -> ...]: where each session is
    todo,      \* [Workers -> SUBSET Messages]: the part of its batch still to do
    cur,       \* [Workers -> Messages \cup {NoMsg}]: the message it is working on
    resp,      \* [Workers -> ...]: the answer or report it holds about cur
    seen,      \* [Reconcilers -> [Messages -> Nat]]: retry_count as selected
    report,    \* [Hooks -> Report]: the report a handler is working on
    callbacks, \* recorded delivery reports (DeliveryCallback rows)
    calls,     \* provider: number of send calls made for each message
    accepted,  \* provider: which of those calls it turned into an SMS
    reports,   \* provider: final delivery reports it has produced
    called,    \* history: messages the lock holder has made a call for
    lost,      \* history: calls whose session never committed
    aborts     \* number of aborted sessions so far

sessionVars  == <<pc, todo, cur, resp>>
providerVars == <<calls, accepted, reports>>
historyVars  == <<called, lost, aborts>>
vars == <<row, image, lock, sessionVars, seen, report, callbacks, providerVars, historyVars>>

Lifecycle == INSTANCE MessageLifecycle WITH status <- [m \in Messages |-> row[m].status]

MessageStatus == Lifecycle!MessageStatus
\* sent_at tells only whether the column is set; a number stands for each
\* provider_message_id, 0 for NULL.
Row == [status : MessageStatus, retry_count : Nat, provider_message_id : Nat, sent_at : BOOLEAN]

SendAnswers  == {"ACCEPTED", "AMBIGUOUS", "REJECTED"}
QueryAnswers == {"sent", "delivered", "failed", "not_found", "unknown"}
FinalReports == {"Delivered", "Failed"}
Report == [msg : Messages, id : Nat, status : FinalReports \cup {"Sent"}]
NoReport == [msg |-> NoMsg, id |-> 0, status |-> "none"]

NewRow == [status |-> "PENDING", retry_count |-> 0, provider_message_id |-> 0, sent_at |-> FALSE]

Init ==
    /\ row = [m \in Messages |-> NewRow]
    /\ image = row
    /\ lock = [m \in Messages |-> NoProc]
    /\ pc = [p \in Workers |-> "idle"]
    /\ todo = [p \in Workers |-> {}]
    /\ cur = [p \in Workers |-> NoMsg]
    /\ resp = [p \in Workers |-> "none"]
    /\ seen = [r \in Reconcilers |-> [m \in Messages |-> 0]]
    /\ report = [h \in Hooks |-> NoReport]
    /\ callbacks = {}
    /\ calls = [m \in Messages |-> 0]
    /\ accepted = [m \in Messages |-> {}]
    /\ reports = {}
    /\ called = {}
    /\ lost = [m \in Messages |-> 0]
    /\ aborts = 0

-----------------------------------------------------------------------------
(* Database sessions.                                                      *)

Held(p) == {m \in Messages : lock[m] = p}

Release(p) == lock' = [m \in Messages |-> IF lock[m] = p THEN NoProc ELSE lock[m]]

\* session.commit(): the rows the session holds become visible and unlocked.
Commit(p) ==
    /\ row' = [m \in Messages |-> IF lock[m] = p THEN image[m] ELSE row[m]]
    /\ Release(p)
    /\ called' = called \ Held(p)
    /\ UNCHANGED <<image, lost, aborts>>

\* The session makes its UPDATE of row m: it waits until no other session
\* holds the row, then writes what Change makes of the row committed by then.
Update(p, m, newRow) ==
    /\ lock[m] = NoProc
    /\ lock' = [lock EXCEPT ![m] = p]
    /\ image' = [image EXCEPT ![m] = newRow]

Goto(p, label) == pc' = [pc EXCEPT ![p] = label]
Done(p, m) == todo' = [todo EXCEPT ![p] = @ \ {m}]
Forget(p) == cur' = [cur EXCEPT ![p] = NoMsg] /\ resp' = [resp EXCEPT ![p] = "none"]

\* The session ends without a commit: everything it changed is undone.
RollBack(p) ==
    /\ Release(p)
    /\ image' = [m \in Messages |-> IF lock[m] = p THEN row[m] ELSE image[m]]
    /\ lost' = [m \in Messages |->
                  IF lock[m] = p /\ m \in called THEN lost[m] + 1 ELSE lost[m]]
    /\ called' = called \ Held(p)
    /\ Goto(p, "idle") /\ Forget(p)
    /\ todo' = [todo EXCEPT ![p] = {}]
    /\ seen' = [r \in Reconcilers |-> IF r = p THEN [m \in Messages |-> 0] ELSE seen[r]]
    /\ report' = [h \in Hooks |-> IF h = p THEN NoReport ELSE report[h]]
    /\ UNCHANGED <<row, callbacks, providerVars>>

\* The hard time limit or a lost worker kills the process, the power fails, the
\* commit raises, or PostgreSQL aborts the session as a deadlock victim.  With
\* acks_late the task runs again, here as the same worker, back to idle.
Abort(p) ==
    /\ pc[p] # "idle"
    /\ aborts < MaxAborts
    /\ aborts' = aborts + 1
    /\ RollBack(p)

-----------------------------------------------------------------------------
(* The send worker: one session and one transaction for the whole batch.   *)

\* Faults of the poll, for the mutation runs: without SKIP LOCKED; one retry
\* too many; one too few.
PollableLocked ==
    {m \in Messages : row[m].status = "PENDING" /\ row[m].retry_count < MaxRetries}
PollableOnceMore ==
    {m \in Messages : /\ row[m].status = "PENDING"
                      /\ row[m].retry_count <= MaxRetries
                      /\ lock[m] = NoProc}
PollableOnceLess ==
    {m \in Messages : /\ row[m].status = "PENDING"
                      /\ row[m].retry_count + 1 < MaxRetries
                      /\ lock[m] = NoProc}

\* The WHERE clause of poll_pending under FOR UPDATE SKIP LOCKED.
Pollable ==
    {m \in Messages : /\ row[m].status = "PENDING"
                      /\ row[m].retry_count < MaxRetries
                      /\ lock[m] = NoProc}

\* SELECT ... WHERE status = PENDING AND retry_count < max_retries
\* FOR UPDATE SKIP LOCKED LIMIT batch_size.  Any batch may be the one whose
\* scheduled_at has come.
PollPending(s) ==
    /\ pc[s] = "idle"
    /\ \E batch \in SUBSET Pollable :
        /\ batch # {} /\ Cardinality(batch) <= BatchSize
        /\ lock' = [m \in Messages |-> IF m \in batch THEN s ELSE lock[m]]
        /\ todo' = [todo EXCEPT ![s] = batch]
    /\ Goto(s, "working")
    /\ UNCHANGED <<row, image, cur, resp, seen, report, callbacks, providerVars, historyVars>>

\* claim_for_sending followed by one of the early exits of the loop body; the
\* row was polled PENDING under its lock, so the claim itself never fails.
Settle(s, m, status) ==
    /\ pc[s] = "working"
    /\ m \in todo[s]
    /\ image' = [image EXCEPT ![m].status = status]
    /\ Done(s, m)
    /\ UNCHANGED <<row, lock, pc, cur, resp, seen, report, callbacks, providerVars, historyVars>>

\* The contact is gone or has opted out.
DropContact(s, m) == Settle(s, m, "FAILED")

\* Quiet hours, or the daily budget is spent: the claim is undone.
Defer(s, m) == Settle(s, m, "PENDING")

\* load_policy raises; the handler of the loop counts a failure and goes
\* on, and the claim is committed with the rest of the batch.
FailBeforeCall(s, m) == Settle(s, m, "SENDING")

\* _get_daily_spend: the SENT and DELIVERED messages with a sent_at of today,
\* as session s sees them, one segment each.  The model covers one day.
View(s, m) == IF lock[m] = s THEN image[m] ELSE row[m]

\* Fault: the sum leaves out what the session itself has just sent.
DailySpendCommitted(s) ==
    Cardinality({m \in Messages : row[m].status \in {"SENT", "DELIVERED"} /\ row[m].sent_at})

DailySpend(s) ==
    Cardinality({m \in Messages : /\ View(s, m).status \in {"SENT", "DELIVERED"}
                                  /\ View(s, m).sent_at})

\* Every gate passes: the message is claimed and about to be sent.
PassGates(s, m) ==
    /\ pc[s] = "working"
    /\ m \in todo[s]
    /\ DailySpend(s) < DailyBudget
    /\ image' = [image EXCEPT ![m].status = "SENDING"]
    /\ cur' = [cur EXCEPT ![s] = m]
    /\ Done(s, m)
    /\ Goto(s, "claimed")
    /\ UNCHANGED <<row, lock, resp, seen, report, callbacks, providerVars, historyVars>>

\* What the adapter may report of a call, by whether it became a new SMS.  A
\* timeout after submission is ambiguous; the Twilio adapter answers a broken
\* connection as a failure; Africa's Talking code 411, "duplicate", counts as
\* accepted.
Answers(m, isNewSms) ==
    IF isNewSms
    THEN {"ACCEPTED", "AMBIGUOUS"} \cup (IF Adapter = "twilio" THEN {"REJECTED"} ELSE {})
    ELSE {"AMBIGUOUS", "REJECTED"} \cup
         (IF Adapter = "africas_talking" /\ accepted[m] # {} THEN {"ACCEPTED"} ELSE {})

\* adapter.send: the provider turns the request into an SMS or does not.
CallProvider(s) ==
    LET m == cur[s]
        id == calls[m] + 1
    IN /\ pc[s] = "claimed"
       /\ calls' = [calls EXCEPT ![m] = id]
       /\ called' = called \cup {m}
       /\ \E isNewSms \in BOOLEAN :
            /\ accepted' = [accepted EXCEPT ![m] = IF isNewSms THEN @ \cup {id} ELSE @]
            /\ \E a \in Answers(m, isNewSms) : resp' = [resp EXCEPT ![s] = a]
       /\ Goto(s, "answered")
       /\ UNCHANGED <<row, image, lock, todo, cur, seen, report, callbacks, reports, lost, aborts>>

\* Faults: an ambiguous answer goes straight back to the outbox; every answer
\* that is not ambiguous counts as sent.
SendOutcomeRetry ==
    [ACCEPTED |-> "SENT", AMBIGUOUS |-> "PENDING", REJECTED |-> "FAILED"]
SendOutcomeOptimistic ==
    [ACCEPTED |-> "SENT", AMBIGUOUS |-> "UNKNOWN_DELIVERY", REJECTED |-> "SENT"]

\* The status each answer leads to; RETRYABLE and RATE_LIMITED answers are
\* among the REJECTED ones.
SendOutcome ==
    [ACCEPTED |-> "SENT", AMBIGUOUS |-> "UNKNOWN_DELIVERY", REJECTED |-> "FAILED"]

\* transition_status(SENDING -> outcome); sent_at and the id the provider gave,
\* if it gave one, are stored for SENT only.  The audit event after it cannot
\* change the outcome.
Transitioned(s, m) ==
    [image[m] EXCEPT
        !.status = SendOutcome[resp[s]],
        !.sent_at = @ \/ resp[s] = "ACCEPTED",
        !.provider_message_id =
            IF resp[s] = "ACCEPTED" /\ calls[m] \in accepted[m] THEN calls[m] ELSE @]

TransitionStatus(s) ==
    LET m == cur[s]
    IN /\ pc[s] = "answered"
       /\ image' = [image EXCEPT ![m] = Transitioned(s, m)]
       /\ Goto(s, "working")
       /\ Forget(s)
       /\ UNCHANGED <<row, lock, todo, seen, report, callbacks, providerVars, historyVars>>

CommitBatch(s) ==
    /\ pc[s] = "working"
    /\ todo[s] = {}
    /\ Commit(s)
    /\ Goto(s, "idle")
    /\ UNCHANGED <<todo, cur, resp, seen, report, callbacks, providerVars>>

-----------------------------------------------------------------------------
(* The reconciliation worker.                                              *)

\* Fault of the selection: rows already sent are looked at too.
UnknownDeliveriesAndSent == {m \in Messages : row[m].status \in {"UNKNOWN_DELIVERY", "SENT"}}

UnknownDeliveries == {m \in Messages : row[m].status = "UNKNOWN_DELIVERY"}

\* get_unknown_deliveries: a plain SELECT, no row lock.  Any non-empty part of
\* the UNKNOWN_DELIVERY rows may be the one older than the threshold.
GetUnknownDeliveries(r) ==
    /\ pc[r] = "idle"
    /\ \E batch \in SUBSET UnknownDeliveries :
        /\ batch # {}
        /\ todo' = [todo EXCEPT ![r] = batch]
        /\ seen' = [seen EXCEPT ![r] =
                      [m \in Messages |-> IF m \in batch THEN row[m].retry_count ELSE 0]]
    /\ Goto(r, "working")
    /\ UNCHANGED <<row, image, lock, cur, resp, report, callbacks, providerVars, historyVars>>

\* What the provider knows about message m when it answers truthfully.
Truth(m) ==
    IF accepted[m] = {} THEN {"not_found"}
    ELSE {"sent"} \cup {IF rep.status = "Delivered" THEN "delivered" ELSE "failed" :
                           rep \in {x \in reports : x.msg = m}}

\* query_delivery of each adapter.  Africa's Talking has no such API.  The
\* Twilio adapter looks for the client id inside the SMS body, so it may miss
\* a message that was sent.  "contract" is an adapter that keeps to what
\* sms_adapter.py asks for.  A query that fails answers "unknown".
QueryResults(m) ==
    CASE Adapter = "africas_talking" -> {"unknown"}
      [] Adapter = "twilio"          -> Truth(m) \cup {"not_found", "unknown"}
      [] Adapter = "contract"        -> Truth(m) \cup {"unknown"}

QueryDelivery(r, m) ==
    /\ pc[r] = "working"
    /\ m \in todo[r]
    /\ \E a \in QueryResults(m) : resp' = [resp EXCEPT ![r] = a]
    /\ cur' = [cur EXCEPT ![r] = m]
    /\ Goto(r, "queried")
    /\ UNCHANGED <<row, image, lock, todo, seen, report, callbacks, providerVars, historyVars>>

\* Faults: the provider's word is stored as it is; a retry is not counted.
ReconciledRaw(r, m) == [row[m] EXCEPT !.status = resp[r]]
ReconciledUncounted(r, m) ==
    CASE resp[r] = "not_found" -> [row[m] EXCEPT !.status = "PENDING"]
      [] resp[r] = "sent"      -> [row[m] EXCEPT !.status = "SENT", !.sent_at = TRUE]
      [] resp[r] = "delivered" -> [row[m] EXCEPT !.status = "DELIVERED"]
      [] resp[r] = "failed"    -> [row[m] EXCEPT !.status = "FAILED"]
      [] resp[r] = "unknown"   -> row[m]

\* reconcile_unknown_delivery: raw assignments, then flush.  An answer that
\* is none of the listed ones only touches updated_at.
Reconciled(r, m) ==
    CASE resp[r] = "not_found" -> [row[m] EXCEPT !.status = "PENDING",
                                                 !.retry_count = seen[r][m] + 1]
      [] resp[r] = "sent"      -> [row[m] EXCEPT !.status = "SENT", !.sent_at = TRUE]
      [] resp[r] = "delivered" -> [row[m] EXCEPT !.status = "DELIVERED"]
      [] resp[r] = "failed"    -> [row[m] EXCEPT !.status = "FAILED"]
      [] resp[r] = "unknown"   -> row[m]

ReconcileUnknownDelivery(r) ==
    LET m == cur[r]
    IN /\ pc[r] = "queried"
       /\ Update(r, m, Reconciled(r, m))
       /\ Done(r, m)
       /\ Goto(r, "working")
       /\ Forget(r)
       /\ UNCHANGED <<row, seen, report, callbacks, providerVars, historyVars>>

CommitReconciled(r) ==
    /\ pc[r] = "working"
    /\ todo[r] = {}
    /\ Commit(r)
    /\ seen' = [seen EXCEPT ![r] = [m \in Messages |-> 0]]
    /\ Goto(r, "idle")
    /\ UNCHANGED <<todo, cur, resp, report, callbacks, providerVars>>

-----------------------------------------------------------------------------
(* A payment completes the transaction: its pending reminders are          *)
(* suppressed.  Part A of _async_poll_payments commits this for a          *)
(* connector that keeps to crm_connector.py (CSVConnector does not get so  *)
(* far: its get_checkpoint reads a column Business does not have);         *)
(* process_mpesa_payment flushes it and then always rolls back, since its  *)
(* AuditContext(business_id=...) is a TypeError.                           *)

\* SELECT ... WHERE transaction_id = ... AND status = PENDING, no row lock.
SelectReminders(p) ==
    LET batch == {m \in Messages : row[m].status = "PENDING"}
    IN /\ pc[p] = "idle"
       /\ batch # {}
       /\ todo' = [todo EXCEPT ![p] = batch]
       /\ Goto(p, "working")
       /\ UNCHANGED <<row, image, lock, cur, resp, seen, report, callbacks, providerVars, historyVars>>

\* The flush: UPDATE ... SET status = SUPPRESSED WHERE id = ...
SuppressReminder(p, m) ==
    /\ pc[p] = "working"
    /\ m \in todo[p]
    /\ Update(p, m, [row[m] EXCEPT !.status = "SUPPRESSED"])
    /\ Done(p, m)
    /\ UNCHANGED <<row, pc, cur, resp, seen, report, callbacks, providerVars, historyVars>>

CommitSuppressed(p) ==
    /\ p \notin MpesaPayers
    /\ pc[p] = "working"
    /\ todo[p] = {}
    /\ Commit(p)
    /\ Goto(p, "idle")
    /\ UNCHANGED <<todo, cur, resp, seen, report, callbacks, providerVars>>

RollBackSuppressed(p) ==
    /\ p \in MpesaPayers
    /\ pc[p] = "working"
    /\ todo[p] = {}
    /\ RollBack(p)
    /\ UNCHANGED aborts

-----------------------------------------------------------------------------
(* Delivery reports.                                                       *)

\* The provider settles the fate of an SMS it accepted, once.
EmitReport(m, id) ==
    /\ id \in accepted[m]
    /\ \A rep \in reports : ~(rep.msg = m /\ rep.id = id)
    /\ \E st \in FinalReports : reports' = reports \cup {[msg |-> m, id |-> id, status |-> st]}
    /\ UNCHANGED <<row, image, lock, sessionVars, seen, report, callbacks,
                   calls, accepted, historyVars>>

\* Reports reach the webhook in any order and any number of times; "Sent" is
\* reported of every SMS the provider accepted.
Deliverable ==
    reports \cup UNION {{[msg |-> m, id |-> id, status |-> "Sent"] : id \in accepted[m]} :
                           m \in Messages}

\* Faults: "Sent" taken for a delivery; a failed delivery sent again.
status_mapEager == [Sent |-> "DELIVERED", Delivered |-> "DELIVERED", Failed |-> "FAILED"]
status_mapRetry == [Sent |-> "SENT", Delivered |-> "DELIVERED", Failed |-> "PENDING"]

status_map == [Sent |-> "SENT", Delivered |-> "DELIVERED", Failed |-> "FAILED"]

\* The handler looks the row up by provider_message_id; a report that finds
\* no row (the batch has not committed, or the outcome was ambiguous) is
\* answered 200 and forgotten.  The UPDATE will set the status only if it
\* differs from the one read here.
ReceiveReport(h) ==
    /\ pc[h] = "idle"
    /\ \E rep \in Deliverable :
        /\ row[rep.msg].provider_message_id = rep.id
        /\ report' = [report EXCEPT ![h] = rep]
        /\ Goto(h, IF row[rep.msg].status = status_map[rep.status] THEN "keeping" ELSE "setting")
    /\ UNCHANGED <<row, image, lock, todo, cur, resp, seen, callbacks, providerVars, historyVars>>

\* INSERT of the DeliveryCallback (unique provider_event_id) and UPDATE of
\* the row, in one commit that waits for the row lock.
RecordReport(h) ==
    LET m == report[h].msg
        new == IF pc[h] = "setting"
               THEN [row[m] EXCEPT !.status = status_map[report[h].status]]
               ELSE row[m]
    IN /\ pc[h] \in {"setting", "keeping"}
       /\ lock[m] = NoProc
       /\ report[h] \notin callbacks
       /\ callbacks' = callbacks \cup {report[h]}
       /\ row' = [row EXCEPT ![m] = new]
       /\ image' = [image EXCEPT ![m] = new]
       /\ report' = [report EXCEPT ![h] = NoReport]
       /\ Goto(h, "idle")
       /\ UNCHANGED <<lock, todo, cur, resp, seen, providerVars, historyVars>>

\* The event is already recorded: the insert fails (or Twilio's check finds
\* it) and nothing is written.
RejectDuplicateReport(h) ==
    /\ pc[h] \in {"setting", "keeping"}
    /\ report[h] \in callbacks
    /\ report' = [report EXCEPT ![h] = NoReport]
    /\ Goto(h, "idle")
    /\ UNCHANGED <<row, image, lock, todo, cur, resp, seen, callbacks, providerVars, historyVars>>

-----------------------------------------------------------------------------
SettleStep(s) ==
    \E m \in Messages : DropContact(s, m) \/ Defer(s, m) \/ FailBeforeCall(s, m) \/ PassGates(s, m)
SendStep(s) == PollPending(s) \/ SettleStep(s) \/ CallProvider(s) \/ TransitionStatus(s) \/ CommitBatch(s)

ReconcileStep(r) ==
    \/ GetUnknownDeliveries(r)
    \/ \E m \in Messages : QueryDelivery(r, m)
    \/ ReconcileUnknownDelivery(r)
    \/ CommitReconciled(r)

PayStep(p) ==
    \/ SelectReminders(p)
    \/ \E m \in Messages : SuppressReminder(p, m)
    \/ CommitSuppressed(p)
    \/ RollBackSuppressed(p)

HookStep(h) == ReceiveReport(h) \/ RecordReport(h) \/ RejectDuplicateReport(h)

Provider == \E m \in Messages : \E id \in accepted[m] : EmitReport(m, id)

Next ==
    \/ \E s \in Senders : SendStep(s)
    \/ \E r \in Reconcilers : ReconcileStep(r)
    \/ \E p \in Payers : PayStep(p)
    \/ \E h \in Hooks : HookStep(h)
    \/ \E w \in Workers : Abort(w)
    \/ Provider

Spec == Init /\ [][Next]_vars

\* Beat starts the send task every two minutes and the reconciliation every
\* five, and the containers restart: such a task that can go on does, and so does
\* a payment that has begun.  Quiet hours end every morning and the budget is
\* renewed every day, so a worker that can get past the gates again and again
\* does so some time.  Nothing is assumed of what the provider answers.
Fairness ==
    /\ \A s \in Senders : WF_vars(SendStep(s)) /\ SF_vars(\E m \in Messages : PassGates(s, m))
    /\ \A r \in Reconcilers : WF_vars(ReconcileStep(r))
    /\ \A p \in Payers : WF_vars(pc[p] # "idle" /\ PayStep(p))

LiveSpec == Spec /\ Fairness

-----------------------------------------------------------------------------
(* Properties.                                                             *)

TypeOK ==
    /\ row \in [Messages -> Row]
    /\ image \in [Messages -> Row]
    /\ lock \in [Messages -> Workers \cup {NoProc}]
    /\ pc \in [Workers -> {"idle", "working", "claimed", "answered", "queried", "setting", "keeping"}]
    /\ todo \in [Workers -> SUBSET Messages]
    /\ cur \in [Workers -> Messages \cup {NoMsg}]
    /\ resp \in [Workers -> SendAnswers \cup QueryAnswers \cup {"none"}]
    /\ seen \in [Reconcilers -> [Messages -> Nat]]
    /\ report \in [Hooks -> Report \cup {NoReport}]
    /\ callbacks \subseteq Report
    /\ calls \in [Messages -> Nat]
    /\ accepted \in [Messages -> SUBSET (Nat \ {0})]
    /\ reports \subseteq Report
    /\ called \subseteq Messages
    /\ lost \in [Messages -> Nat]
    /\ aborts \in Nat

\* The messages sender s has polled and not finished with.
Claimed(s) == todo[s] \cup ({cur[s]} \cap Messages)

\* "FOR UPDATE SKIP LOCKED ensures no two workers claim the same message"
\* (sends.py): no message is in the hands of two senders, and nobody else has
\* the row while a sender works on it.
ClaimExclusive ==
    \A s \in Senders : \A m \in Claimed(s) :
        /\ lock[m] = s
        /\ \A t \in Senders \ {s} : m \notin Claimed(t)

\* A message is submitted at most max_retries times, plus once for every
\* submission whose session died: poll_pending's retry_count test together with
\* the increment in reconcile_unknown_delivery bounds what the provider is
\* asked to do.
RetryBudget == \A m \in Messages : calls[m] <= MaxRetries + lost[m]

\* The customer gets one SMS, plus at most one for every submission whose
\* session died before its commit: retries never duplicate a message.
DuplicatesNeedACrash == \A m \in Messages : Cardinality(accepted[m]) <= 1 + lost[m]

\* The outbox never claims a success the provider did not have: a SENT or
\* DELIVERED message became an SMS, and the id stored with it is one the
\* provider gave this message.
SentWasAccepted ==
    \A m \in Messages :
        /\ row[m].status \in {"SENT", "DELIVERED"} => accepted[m] # {}
        /\ row[m].provider_message_id # 0 => row[m].provider_message_id \in accepted[m]

\* DELIVERED is never inferred: the provider has reported the delivery of one
\* of the message's SMS, whether the webhook or the reconciliation wrote it.
DeliveredWasReported ==
    \A m \in Messages : row[m].status = "DELIVERED" =>
        \E rep \in reports : rep.msg = m /\ rep.status = "Delivered"

\* A batch that cannot see the messages other batches have sent but not
\* committed may spend beyond daily_sms_budget_kes, but by no more than what
\* the other senders have in hand.
BudgetOvershoot ==
    Cardinality({m \in Messages : row[m].status \in {"SENT", "DELIVERED"}})
        <= DailyBudget + (Cardinality(Senders) - 1) * BatchSize

\* "State machine prevents SENT -> PENDING (no duplicate sends)" (sends.py): no
\* commit of any worker puts a message with a known outcome back in the outbox.
NoResendFromSent ==
    [][\A m \in Messages : row[m].status \in {"SENT", "DELIVERED", "FAILED"}
            => row'[m].status # "PENDING"]_vars

\* The outbox keeps to the documented life of a message (OutboxService's
\* VALID_TRANSITIONS and the diagram of class MessageStatus).
ImplementsLifecycle == Lifecycle!LifecycleSpec

\* "The next poll cycle will retry": a message that may still be sent does not
\* stay in the outbox for ever.
PendingDrains ==
    \A m \in Messages :
        (row[m].status = "PENDING" /\ row[m].retry_count < MaxRetries) ~> row[m].status # "PENDING"

-----------------------------------------------------------------------------
(* What the documentation says and the code does not do.                   *)

\* models.py, class OutboundMessage: "no customer ever receives the same
\* message twice, even across crashes, retries, and concurrent workers".
AtMostOneSms == \A m \in Messages : \A a, b \in accepted[m] : a = b

\* africas_talking.py, query_delivery: "the reconciliation loop will eventually
\* time out and mark the message as failed": an ambiguous outcome is resolved in
\* the end, whatever the provider answers.
UnknownResolves ==
    \A m \in Messages : row[m].status = "UNKNOWN_DELIVERY" ~> row[m].status # "UNKNOWN_DELIVERY"
=============================================================================
