------------------------------ MODULE Payments ------------------------------
(***************************************************************************)
(* Payments: how money reaches a transaction.                              *)
(*                                                                         *)
(*   C2B, STK   MpesaService.match_incoming_payment, process_stk_callback  *)
(*   Confirms   the webhook handlers c2b_confirmation, stk_push_callback   *)
(*   Polls      poll_payment_updates: CRM records, then unmatched M-Pesa   *)
(*   MpesaTasks process_mpesa_payment                                      *)
(*   Staff      TransactionService.update_status, mark_paid                *)
(*                                                                         *)
(* One task execution is one database session under READ COMMITTED, as in  *)
(* Outbox.  The ORM loads a transaction, computes, and later writes the    *)
(* columns that changed, as absolute values.                               *)
(***************************************************************************)
EXTENDS Integers, FiniteSetsExt

CONSTANTS
    Txns,        \* transactions of one contact, numbered by due_date
    Due,         \* amount_due of each
    MpesaRefs, CsvRefs,    \* external references: mpesa_ref, ids of payments.csv
    Amount,      \* the amount of each
    AccountRef,  \* what the customer entered: a transaction_number or NoTxn
    RecordTxn,   \* external_transaction_id of each CSV record
    C2B, STK, Confirms, Polls, MpesaTasks, Staff,    \* task executions
    Item,        \* the mpesa_ref a webhook or a MpesaTask is about
    Connector,   \* of the business: "registered", "unregistered", "conforming"
    Target,      \* transaction_id given with an STK callback, or NoTxn
    Early,       \* the transactions that exist at the start
    Together,    \* the sets of task executions that happen together
    NoTxn, NoTask, NoRef, NoRow,
    MaxAborts    \* bound: sessions that die before they commit

Tasks == C2B \cup STK \cup Confirms \cup Polls \cup MpesaTasks \cup Staff
Services == C2B \cup STK
Refs == MpesaRefs \cup CsvRefs

\* get_connector: csv or pos; a type that is not registered; a connector that
\* does what CRMConnector says.
ConnectorTypes == {"registered", "unregistered", "conforming"}

ASSUME PaymentsAssumption ==
    /\ Txns \subseteq Nat /\ Early \subseteq Txns /\ Together \subseteq SUBSET Tasks
    /\ NoTxn \notin Txns /\ NoRow \notin Txns \cup {NoTxn}
    /\ Due \in [Txns -> Nat \ {0}]
    /\ MpesaRefs \cap CsvRefs = {} /\ NoRef \notin Refs
    /\ MpesaRefs \cap Txns = {}
    /\ Amount \in [Refs -> Nat \ {0}]
    /\ AccountRef \in [MpesaRefs -> Txns \cup {NoTxn}]
    /\ RecordTxn \in [CsvRefs -> Txns]
    /\ NoTask \notin Tasks
    /\ STK \cap C2B = {} /\ Confirms \cap Services = {}
    /\ Polls \cap (Services \cup Confirms) = {}
    /\ MpesaTasks \cap (Services \cup Confirms \cup Polls) = {}
    /\ Staff \cap (Services \cup Confirms \cup Polls \cup MpesaTasks) = {}
    /\ Item \in [Services \cup Confirms \cup MpesaTasks -> MpesaRefs]
    /\ Connector \in ConnectorTypes
    /\ CsvRefs \subseteq Nat
    /\ Target \in [STK -> Txns \cup {NoTxn}]
    /\ MaxAborts \in Nat

VARIABLES
    known,     \* the transactions that exist
    txn,       \* their committed rows
    mpesa,     \* committed mpesa_payments: NoRow or the matched transaction
    payments,  \* committed payments; `by` tells two payments of one ref apart
    confirmed, \* mpesa_refs whose confirmation SMS is in the outbox
    image, mpesaImage,    \* the rows as the holder of their lock sees them
    lock,      \* [Txns \cup MpesaRefs -> Tasks \cup {NoTask}]
    mine,      \* [Tasks -> SUBSET Payment]: payments inserted, not committed
    confirming,\* [Tasks -> SUBSET MpesaRefs]: confirmations inserted, not committed
    pc, todo,  \* control point and rest of the batch
    cur, tgt,  \* the reference and the transaction in hand
    loaded,    \* the transaction as the session loaded it
    aborts

dbVars == <<known, txn, mpesa, payments, confirmed>>
rowVars == <<image, mpesaImage, lock>>
sessionVars == <<mine, confirming, todo, cur, tgt, loaded>>
vars == <<dbVars, rowVars, sessionVars, pc, aborts>>

TransactionStatus == {"PENDING", "PARTIAL", "PAID", "OVERDUE", "CANCELLED"}
Transaction == [status : TransactionStatus, paid : Nat]
Payment == [txn : Txns, ref : Refs, by : Tasks]
MpesaPayment == {NoRow} \cup Txns \cup {NoTxn}

\* TransactionService.VALID_TRANSITIONS.
VALID_TRANSITIONS ==
    [PENDING   |-> {"PARTIAL", "PAID", "OVERDUE", "CANCELLED"},
     PARTIAL   |-> {"PAID", "OVERDUE", "CANCELLED"},
     PAID      |-> {},
     OVERDUE   |-> {"PARTIAL", "PAID", "CANCELLED"},
     CANCELLED |-> {}]

NewTransaction == [status |-> "PENDING", paid |-> 0]

Init ==
    /\ known = Early
    /\ txn = [t \in Txns |-> NewTransaction]
    /\ mpesa = [r \in MpesaRefs |-> NoRow]
    /\ payments = {} /\ confirmed = {}
    /\ image = txn /\ mpesaImage = mpesa
    /\ lock = [x \in Txns \cup MpesaRefs |-> NoTask]
    /\ mine = [w \in Tasks |-> {}] /\ confirming = [w \in Tasks |-> {}]
    /\ \E S \in Together : pc = [w \in Tasks |-> IF w \in S THEN "start" ELSE "done"]
    /\ todo = [w \in Tasks |-> {}]
    /\ cur = [w \in Tasks |-> NoRef] /\ tgt = [w \in Tasks |-> NoTxn]
    /\ loaded = [w \in Tasks |-> NewTransaction]
    /\ aborts = 0

-----------------------------------------------------------------------------
(* Sessions.                                                               *)

ViewTxn(w, t) == IF lock[t] = w THEN image[t] ELSE txn[t]
ViewMpesa(w, r) == IF lock[r] = w THEN mpesaImage[r] ELSE mpesa[r]
ViewPayments(w) == payments \cup mine[w]

\* A write waits until no other session holds the row.
MayWrite(w, x) == lock[x] \in {NoTask, w}
Goto(w, label) == pc' = [pc EXCEPT ![w] = label]
Take(w, x) == lock' = [lock EXCEPT ![x] = w]
Free(w) == lock' = [x \in DOMAIN lock |-> IF lock[x] = w THEN NoTask ELSE lock[x]]

Forget(w) ==
    /\ mine' = [mine EXCEPT ![w] = {}]
    /\ confirming' = [confirming EXCEPT ![w] = {}]
    /\ todo' = [todo EXCEPT ![w] = {}]
    /\ cur' = [cur EXCEPT ![w] = NoRef]
    /\ tgt' = [tgt EXCEPT ![w] = NoTxn]
    /\ loaded' = [loaded EXCEPT ![w] = NewTransaction]
    /\ Goto(w, "done")

Commit(w) ==
    /\ txn' = [t \in Txns |-> ViewTxn(w, t)]
    /\ mpesa' = [r \in MpesaRefs |-> ViewMpesa(w, r)]
    /\ payments' = ViewPayments(w)
    /\ confirmed' = confirmed \cup confirming[w]
    /\ Free(w) /\ Forget(w)
    /\ UNCHANGED <<known, image, mpesaImage, aborts>>

RollBack(w) ==
    /\ image' = [t \in Txns |-> IF lock[t] = w THEN txn[t] ELSE image[t]]
    /\ mpesaImage' = [r \in MpesaRefs |-> IF lock[r] = w THEN mpesa[r] ELSE mpesaImage[r]]
    /\ Free(w) /\ Forget(w)
    /\ UNCHANGED dbVars

\* The worker is lost or killed before its commit.
Abort(w) ==
    /\ pc[w] \notin {"start", "done"}
    /\ aborts < MaxAborts
    /\ aborts' = aborts + 1
    /\ RollBack(w)

\* The row session w is about to write.
Wanted(w) ==
    CASE pc[w] = "insert" -> {Item[w]}
      [] pc[w] \in {"record", "update"} -> {tgt[w]}
      [] pc[w] = "link" -> {cur[w]}
      [] OTHER -> {}

WaitsFor(v, w) == \E x \in Wanted(v) : lock[x] = w /\ v # w

\* PostgreSQL ends a session that waits for itself through another one.
DeadlockVictim(w) ==
    /\ \E v \in Tasks : WaitsFor(w, v) /\ WaitsFor(v, w)
    /\ RollBack(w)
    /\ UNCHANGED aborts

-----------------------------------------------------------------------------
(* TransactionService.                                                     *)

\* Fault: no cap at amount_due.
PaidWithUncapped(t, old, amount) ==
    [status |-> IF old.paid + amount >= Due[t] THEN "PAID" ELSE "PARTIAL",
     paid |-> old.paid + amount]

\* record_payment: what it makes of the transaction it was given.
PaidWith(t, old, amount) ==
    IF old.paid + amount >= Due[t] THEN [status |-> "PAID", paid |-> Due[t]]
    ELSE [status |-> "PARTIAL", paid |-> old.paid + amount]

\* The UPDATE holds the columns whose value differs from the loaded one.
Written(w, t, new) ==
    [status |-> IF new.status # loaded[w].status THEN new.status ELSE ViewTxn(w, t).status,
     paid   |-> IF new.paid # loaded[w].paid THEN new.paid ELSE ViewTxn(w, t).paid]

UpdateTxn(w, t, new) ==
    /\ MayWrite(w, t)
    /\ image' = [image EXCEPT ![t] = Written(w, t, new)]
    /\ Take(w, t)

\* create_transaction, at the counter; due_date and amount_due are checked
\* before anything is written.
CreateTransaction(t) ==
    /\ t \notin known
    /\ known' = known \cup {t}
    /\ UNCHANGED <<txn, mpesa, payments, confirmed, rowVars, sessionVars, pc, aborts>>

\* record_payment: INSERT INTO payments, then UPDATE of the transaction.
RecordPayment(w) ==
    LET t == tgt[w]
    IN /\ pc[w] = "record"
       /\ UpdateTxn(w, t, PaidWith(t, loaded[w], Amount[cur[w]]))
       /\ mine' = [mine EXCEPT ![w] = @ \cup {[txn |-> t, ref |-> cur[w], by |-> w]}]
       /\ Goto(w, IF cur[w] \in CsvRefs THEN "sync" ELSE "link")
       /\ UNCHANGED <<dbVars, mpesaImage, confirming, todo, cur, tgt, loaded, aborts>>

\* update_status and mark_paid, called with a transaction loaded before; the
\* new status is validated against the loaded one.
LoadForStatus(w) ==
    /\ w \in Staff /\ pc[w] = "start"
    /\ \E t \in known :
        /\ tgt' = [tgt EXCEPT ![w] = t]
        /\ loaded' = [loaded EXCEPT ![w] = txn[t]]
    /\ Goto(w, "update")
    /\ UNCHANGED <<dbVars, rowVars, mine, confirming, todo, cur, aborts>>

UpdateStatus(w) ==
    LET t == tgt[w]
    IN /\ pc[w] = "update"
       /\ \E new \in VALID_TRANSITIONS[loaded[w].status] :
            UpdateTxn(w, t, [status |-> new,
                             paid |-> IF new = "PAID" THEN Due[t] ELSE loaded[w].paid])
       /\ Goto(w, "commit")
       /\ UNCHANGED <<dbVars, mpesaImage, sessionVars, aborts>>

\* InvalidStatusTransitionError reaches the caller.
RejectStatus(w) ==
    /\ pc[w] = "update"
    /\ VALID_TRANSITIONS[loaded[w].status] = {}
    /\ RollBack(w)
    /\ UNCHANGED aborts

-----------------------------------------------------------------------------
(* MpesaService and ReconciliationService.                                 *)

Balance(w, t) == Due[t] - ViewTxn(w, t).paid
OpenTxns(w) == {t \in known : ViewTxn(w, t).status \in {"PENDING", "PARTIAL"}}

\* _find_matching_transaction: the transaction_number the customer gave, else
\* the oldest with that very balance, else the oldest.  The transactions belong
\* to the one contact with the payer's phone.
Match(w, r) ==
    LET exact == {t \in OpenTxns(w) : Balance(w, t) = Amount[r]}
    IN IF AccountRef[r] \in OpenTxns(w) THEN AccountRef[r]
       ELSE IF OpenTxns(w) = {} THEN NoTxn
       ELSE Min(IF exact # {} THEN exact ELSE OpenTxns(w))

\* The dedup check of both services.  The second scalar_one_or_none of
\* process_stk_callback raises; either way nothing is written.
StartService(w) ==
    /\ w \in Services /\ pc[w] = "start"
    /\ Goto(w, IF mpesa[Item[w]] # NoRow THEN "done" ELSE "insert")
    /\ UNCHANGED <<dbVars, rowVars, sessionVars, aborts>>

\* Fault: no UNIQUE (business_id, mpesa_ref).
DuplicateRefUnchecked(w) == FALSE

\* The INSERT waits for another session's row of the same (business_id,
\* mpesa_ref) and fails if that session commits.
DuplicateRef(w) == mpesa[Item[w]] # NoRow

InsertMpesa(w) ==
    LET r == Item[w]
    IN /\ pc[w] = "insert"
       /\ MayWrite(w, r) /\ ~DuplicateRef(w)
       /\ Take(w, r)
       /\ mpesaImage' = [mpesaImage EXCEPT ![r] = NoTxn]
       /\ cur' = [cur EXCEPT ![w] = r]
       /\ Goto(w, "match")
       /\ UNCHANGED <<dbVars, image, mine, confirming, todo, tgt, loaded, aborts>>

RejectDuplicateRef(w) ==
    /\ pc[w] = "insert"
    /\ MayWrite(w, Item[w]) /\ DuplicateRef(w)
    /\ RollBack(w)
    /\ UNCHANGED aborts

\* What follows the last step on one reference.
NextItem(w) == IF w \in Polls THEN "matching" ELSE "commit"

FindMatch(w) ==
    LET r == cur[w]
        t == IF w \in STK /\ Target[w] # NoTxn THEN Target[w] ELSE Match(w, r)
        found == t \in known
    IN /\ pc[w] = "match"
       /\ tgt' = [tgt EXCEPT ![w] = IF found THEN t ELSE NoTxn]
       /\ loaded' = [loaded EXCEPT ![w] = IF found THEN ViewTxn(w, t) ELSE NewTransaction]
       /\ Goto(w, IF found THEN "check" ELSE NextItem(w))
       /\ UNCHANGED <<dbVars, rowVars, mine, confirming, todo, cur, aborts>>

\* reconcile_payment: a payment with this reference, for this transaction.
Recorded(w) == \E p \in ViewPayments(w) : p.txn = tgt[w] /\ p.ref = cur[w]

CheckExisting(w) ==
    /\ pc[w] = "check"
    /\ Goto(w, IF Recorded(w) THEN "link" ELSE "record")
    /\ UNCHANGED <<dbVars, rowVars, sessionVars, aborts>>

\* Fault: the confirmation SMS is committed at once.
LinkConfirmsAtOnce(w) ==
    LET r == cur[w]
    IN /\ pc[w] = "link"
       /\ MayWrite(w, r)
       /\ Take(w, r)
       /\ mpesaImage' = [mpesaImage EXCEPT ![r] = tgt[w]]
       /\ confirmed' = confirmed \cup {r}
       /\ Goto(w, IF r \in confirmed /\ w \notin Polls THEN "fail" ELSE NextItem(w))
       /\ UNCHANGED <<known, txn, mpesa, payments, image, mine, confirming, todo, cur, tgt,
                      loaded, aborts>>

\* The link, then _send_confirmation_sms, whose second scalar_one_or_none on a
\* consumed result raises when the confirmation exists: the poll goes on with
\* the next payment, the others roll back.
Link(w) ==
    LET r == cur[w]
    IN /\ pc[w] = "link"
       /\ MayWrite(w, r)
       /\ Take(w, r)
       /\ mpesaImage' = [mpesaImage EXCEPT ![r] = tgt[w]]
       /\ confirming' = [confirming EXCEPT ![w] =
                            IF r \in confirmed THEN @ ELSE @ \cup {r}]
       /\ Goto(w, IF r \in confirmed /\ w \notin Polls THEN "fail" ELSE NextItem(w))
       /\ UNCHANGED <<dbVars, image, mine, todo, cur, tgt, loaded, aborts>>

-----------------------------------------------------------------------------
(* The tasks around them.                                                  *)

\* c2b_confirmation and stk_push_callback: a duplicate is answered OK; for the
\* others MpesaPayment gets columns it does not have, a TypeError, and the
\* caller an error.
ConfirmDuplicate(w) ==
    /\ w \in Confirms /\ pc[w] = "start"
    /\ mpesa[Item[w]] # NoRow
    /\ Goto(w, "done")
    /\ UNCHANGED <<dbVars, rowVars, sessionVars, aborts>>

ConfirmFails(w) ==
    /\ w \in Confirms /\ pc[w] = "start"
    /\ mpesa[Item[w]] = NoRow
    /\ RollBack(w)
    /\ UNCHANGED aborts

\* get_checkpoint: the csv connector reads crm_config, which Business does not
\* have, the pos connector is not implemented.
GetCheckpointRaises == Connector = "registered"

\* sync_payments: the checkpoint saved is the checkpoint loaded, so every poll
\* gets the same records.
SyncPayments == IF Connector = "conforming" THEN CsvRefs ELSE {}

\* Part A of _async_poll_payments; an unregistered type goes on to Part B.
StartPoll(w) ==
    /\ w \in Polls /\ pc[w] = "start"
    /\ todo' = [todo EXCEPT ![w] = SyncPayments]
    /\ Goto(w, IF GetCheckpointRaises THEN "fail" ELSE "sync")
    /\ UNCHANGED <<dbVars, rowVars, mine, confirming, cur, tgt, loaded, aborts>>

SyncRecord(w) ==
    LET r == Min(todo[w]) IN
    /\ pc[w] = "sync" /\ todo[w] # {}
    /\ todo' = [todo EXCEPT ![w] = @ \ {r}]
    /\ cur' = [cur EXCEPT ![w] = r]
    /\ tgt' = [tgt EXCEPT ![w] = RecordTxn[r]]
    /\ loaded' = [loaded EXCEPT ![w] = ViewTxn(w, RecordTxn[r])]
    /\ Goto(w, IF RecordTxn[r] \in known THEN "record" ELSE "sync")
    /\ UNCHANGED <<dbVars, rowVars, mine, confirming, aborts>>

\* Part B: the M-Pesa payments with no matched_transaction_id, no row lock.
SelectUnmatched(w) ==
    /\ pc[w] = "sync" /\ todo[w] = {}
    /\ todo' = [todo EXCEPT ![w] = {r \in MpesaRefs : mpesa[r] = NoTxn}]
    /\ Goto(w, "matching")
    /\ UNCHANGED <<dbVars, rowVars, mine, confirming, cur, tgt, loaded, aborts>>

NextUnmatched(w, r) ==
    /\ pc[w] = "matching" /\ r \in todo[w]
    /\ todo' = [todo EXCEPT ![w] = @ \ {r}]
    /\ cur' = [cur EXCEPT ![w] = r]
    /\ Goto(w, "match")
    /\ UNCHANGED <<dbVars, rowVars, mine, confirming, tgt, loaded, aborts>>

EndPoll(w) ==
    /\ pc[w] = "matching" /\ todo[w] = {}
    /\ Commit(w)

\* process_mpesa_payment: nothing to do unless the row is there, unmatched.
StartMpesaTask(w) ==
    /\ w \in MpesaTasks /\ pc[w] = "start"
    /\ mpesa[Item[w]] # NoRow
    /\ cur' = [cur EXCEPT ![w] = Item[w]]
    /\ Goto(w, IF mpesa[Item[w]] = NoTxn THEN "match" ELSE "done")
    /\ UNCHANGED <<dbVars, rowVars, mine, confirming, todo, tgt, loaded, aborts>>

CommitTask(w) ==
    /\ pc[w] = "commit" /\ w \notin MpesaTasks
    /\ Commit(w)

\* The audit call of process_mpesa_payment, matched or not, is a TypeError
\* (AuditContext has no business_id).
FailTask(w) ==
    /\ \/ pc[w] = "fail"
       \/ pc[w] = "commit" /\ w \in MpesaTasks
    /\ RollBack(w)
    /\ UNCHANGED aborts

-----------------------------------------------------------------------------
ServiceStep(w) ==
    \/ StartService(w) \/ InsertMpesa(w) \/ RejectDuplicateRef(w)
    \/ FindMatch(w) \/ CheckExisting(w) \/ RecordPayment(w) \/ Link(w)
    \/ CommitTask(w) \/ FailTask(w) \/ StartMpesaTask(w)

PollStep(w) ==
    \/ StartPoll(w) \/ SelectUnmatched(w) \/ EndPoll(w)
    \/ SyncRecord(w)
    \/ \E r \in MpesaRefs : NextUnmatched(w, r)

ConfirmStep(w) == ConfirmDuplicate(w) \/ ConfirmFails(w)

StaffStep(w) == LoadForStatus(w) \/ UpdateStatus(w) \/ RejectStatus(w)

TaskStep(w) ==
    \/ ServiceStep(w) \/ ConfirmStep(w) \/ PollStep(w)
  \/ StaffStep(w) \/ DeadlockVictim(w)

Next ==
    \/ \E w \in Tasks : TaskStep(w) \/ Abort(w)
    \/ \E t \in Txns : CreateTransaction(t)

Spec == Init /\ [][Next]_vars

-----------------------------------------------------------------------------
(* Properties.                                                             *)

TypeOK ==
    /\ known \subseteq Txns
    /\ \A t \in Txns : image[t].paid <= Due[t]
    /\ txn \in [Txns -> Transaction] /\ image \in [Txns -> Transaction]
    /\ mpesa \in [MpesaRefs -> MpesaPayment] /\ mpesaImage \in [MpesaRefs -> MpesaPayment]
    /\ payments \subseteq Payment /\ mine \in [Tasks -> SUBSET Payment]
    /\ confirmed \subseteq MpesaRefs /\ confirming \in [Tasks -> SUBSET MpesaRefs]
    /\ lock \in [Txns \cup MpesaRefs -> Tasks \cup {NoTask}]
    /\ todo \in [Tasks -> SUBSET Refs]
    /\ cur \in [Tasks -> Refs \cup {NoRef}]
    /\ tgt \in [Tasks -> Txns \cup {NoTxn}]
    /\ loaded \in [Tasks -> Transaction]
    /\ aborts \in 0..MaxAborts

AmountOf == [p \in Payment |-> Amount[p.ref]]
Brought(S, t) == MapThenSumSet(LAMBDA p : AmountOf[p], {p \in S : p.txn = t})
Received(t) == Brought(payments, t)

\* Whatever the interleaving, a transaction never shows more money than was due,
\* nor more than its payments brought unless staff marked it paid by hand, and
\* then it is PAID in full (record_payment caps amount_paid and adds to a value
\* that it loaded before; an UPDATE mixes its columns with those of others).
NoMoneyInvented ==
    \A t \in Txns :
        /\ txn[t].paid <= Due[t]
        /\ txn[t].paid > Received(t) =>
              Staff # {} /\ txn[t] = [status |-> "PAID", paid |-> Due[t]]

\* The part of it that holds however many members of staff work on a transaction
\* at once; a status the second one validated before may then replace PAID.
PaidIsCovered ==
    \A t \in Txns :
        /\ txn[t].paid <= Due[t]
        /\ txn[t].paid > Received(t) => Staff # {} /\ txn[t].paid = Due[t]

\* A confirmation SMS is in the outbox exactly for the M-Pesa payments that are
\* linked to a transaction, and each of those has its payment record: the
\* record, the link and the SMS of one payment stand or fall together.
ConfirmedIffCredited ==
    \A r \in MpesaRefs :
        /\ r \in confirmed <=> mpesa[r] \in Txns
        /\ r \in confirmed => \E p \in payments : p.ref = r /\ p.txn = mpesa[r]

\* No M-Pesa payment is recorded twice or for two transactions, whichever of
\* the services and the poll handles it (the promise of mpesa_ref).
CreditedOnce ==
    \A p, q \in payments : p.ref = q.ref /\ p.ref \in MpesaRefs => p = q

\* The credits of committed payments follow the abstract ledger.
Credits == [r \in MpesaRefs |-> {p.txn : p \in {q \in payments : q.ref = r}}]
TheLedger == INSTANCE Ledger WITH credited <- Credits
ImplementsLedger == TheLedger!LedgerSpec

-----------------------------------------------------------------------------
(* What the documentation says and the code does not do.                   *)

\* update_balance: "use the stored amount_paid (updated by record_payment)".
StoredPaidIsReceived ==
    \A t \in Txns : txn[t].paid = Min({Due[t], Received(t)})
=============================================================================
