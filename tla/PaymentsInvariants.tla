------------------------- MODULE PaymentsInvariants -------------------------
(***************************************************************************)
(* The inductive invariant behind the safety properties of Payments: how   *)
(* far each session has come with each M-Pesa payment, and what it may     *)
(* rely on until it commits.  TLC checks it on small instances,            *)
(* PaymentsProofs proves it.                                               *)
(***************************************************************************)
EXTENDS Payments, FiniteSets

\* Executions may follow each other in any number, without overlapping.
Active(w) == pc[w] \notin {"start", "done"}
OneAtATime(S) == \A v, w \in S : Active(v) /\ Active(w) => v = w

\* A payment poll is over before the next one begins.
PollsApart == OneAtATime(Polls)

\* A member of staff who changes a transaction commits before the next one looks
\* at one.
StaffApart == OneAtATime(Staff)

\* A session has one reference in hand.
Handling == {"match", "check", "record", "link"}
Labels ==
    {"start", "insert", "sync", "matching", "update", "commit", "fail", "done"} \cup Handling

\* The poll deals with the CRM records first.
FirstPart(w) == pc[w] \in {"start", "sync"} \/ (pc[w] = "record" /\ cur[w] \in CsvRefs)

\* The control points of each kind of task, and what is in hand there.
AtControl(w) ==
    /\ w \in Services => pc[w] \in {"start", "insert", "commit", "fail", "done"} \cup Handling
    /\ w \in Confirms => pc[w] \in {"start", "done"}
    /\ w \in Polls => pc[w] \in {"start", "sync", "matching", "fail", "done"} \cup Handling
    /\ w \in MpesaTasks => pc[w] \in {"start", "commit", "fail", "done"} \cup Handling
    /\ w \in Staff => pc[w] \in {"start", "update", "commit", "done"}
    /\ pc[w] \in {"check", "record", "link", "update"} => tgt[w] \in Txns
    /\ pc[w] = "record" => cur[w] \in Refs /\ (cur[w] \in CsvRefs => w \in Polls)
    /\ pc[w] \in {"match", "check", "link"} => cur[w] \in MpesaRefs
    /\ w \in Polls /\ FirstPart(w) => todo[w] \subseteq CsvRefs

ControlOK ==
    /\ pc \in [Tasks -> Labels]
    /\ \A w \in Tasks : AtControl(w)

\* No transaction shows more than its amount, committed or not.
PaidOK == \A t \in Txns : txn[t].paid <= Due[t] /\ image[t].paid <= Due[t]

Of(S, r) == {p \in S : p.ref = r}
Record(w, t, r) == [txn |-> t, ref |-> r, by |-> w]

\* How far session w has come with payment r: nothing but, perhaps, the new row;
\* also its payment record; all three writes.
Untouched(w, r) ==
    /\ Of(mine[w], r) = {} /\ r \notin confirming[w]
    /\ lock[r] = w => mpesaImage[r] = NoTxn

Noted(w, r) ==
    /\ Of(mine[w], r) = {Record(w, tgt[w], r)} /\ r \notin confirming[w]
    /\ lock[r] = w => mpesaImage[r] = NoTxn

Complete(w, r) ==
    /\ lock[r] = w /\ mpesaImage[r] \in Txns
    /\ Of(mine[w], r) = {Record(w, mpesaImage[r], r)} /\ r \in confirming[w]

\* What is committed of a payment a session is at work on: a service inserts the
\* row, the poll finds it unmatched.
Before(w) == IF w \in Services THEN NoRow ELSE NoTxn

\* The sessions that may commit M-Pesa payments.
CreditorOK(w) ==
    /\ \A r \in MpesaRefs :
        /\ lock[r] = w => mpesa[r] = Before(w)
        /\ IF pc[w] = "link" /\ cur[w] = r THEN Noted(w, r)
           ELSE Untouched(w, r) \/ Complete(w, r)
        /\ pc[w] \in Handling /\ cur[w] = r =>
              /\ mpesa[r] = Before(w)
              /\ pc[w] # "link" => Untouched(w, r)

\* A service has locked the row of its payment, and no other, until it ends.
ServiceOK(w) ==
    /\ pc[w] \in Handling \cup {"commit"} => cur[w] = Item[w] /\ lock[Item[w]] = w
    /\ \A r \in MpesaRefs : lock[r] = w => r = Item[w] /\ pc[w] \in Handling \cup {"commit"}
    /\ pc[w] \in {"start", "insert"} => \A r \in MpesaRefs : Untouched(w, r)

\* The poll's selection stays unmatched until it comes to it; between two polls
\* nothing is selected or locked.
PollOK(w) ==
    /\ ~Active(w) => todo[w] \cap MpesaRefs = {} /\ \A r \in MpesaRefs : lock[r] # w
    /\ FirstPart(w) => \A r \in MpesaRefs : Untouched(w, r)
    /\ \A r \in todo[w] \cap MpesaRefs :
        /\ Untouched(w, r) /\ mpesa[r] = NoTxn
        /\ pc[w] \in Handling => cur[w] # r

\* Staff has nothing to do with M-Pesa payments.
StaffOK(w) ==
    /\ mine[w] = {} /\ confirming[w] = {}
    /\ \A r \in MpesaRefs : lock[r] # w

SessionOK(w) ==
    /\ w \in Services => CreditorOK(w) /\ ServiceOK(w)
    /\ w \in Polls => CreditorOK(w) /\ PollOK(w)
    /\ w \in Staff => StaffOK(w)

SessionsOK == \A w \in Tasks : SessionOK(w)

\* Committed: the link, the payment record and the confirmation SMS of a payment
\* are there together, once, or not at all.
CreditOK ==
    \A r \in MpesaRefs :
        IF mpesa[r] \in Txns
        THEN r \in confirmed /\ \E w \in Tasks : Of(payments, r) = {Record(w, mpesa[r], r)}
        ELSE r \notin confirmed /\ Of(payments, r) = {}

CreditInvariant == TypeOK /\ ControlOK /\ PaidOK /\ SessionsOK /\ CreditOK

-----------------------------------------------------------------------------
(* Where the money shown comes from.                                       *)

\* A session records a payment it has not recorded before.
FreshOK(w) ==
    /\ IsFiniteSet(mine[w])
    /\ pc[w] = "start" => mine[w] = {}
    /\ w \notin Polls =>
          todo[w] = {} /\ (pc[w] \in {"insert", "match", "check", "record"} => mine[w] = {})
    /\ pc[w] \in Handling => cur[w] \notin todo[w]
    /\ \A p \in mine[w] :
        /\ p.by = w /\ p.ref \notin todo[w]
        /\ pc[w] \in Handling \ {"link"} => p.ref # cur[w]
        /\ FirstPart(w) => p.ref \in CsvRefs

\* Payments are committed when their session ends.
CommittedOK == IsFiniteSet(payments) /\ \A p \in payments : pc[p.by] = "done"

\* Staff that has got past its update has marked the row paid by hand.  The
\* status keeps up with the amount while members of staff work apart.
Marked(apart, t, row) ==
    /\ \E w \in Staff : pc[w] \notin {"start", "update"}
    /\ row.paid = Due[t]
    /\ apart => row.status = "PAID"

\* A row shows what payments S brought at the most, unless it is marked.
Covered(apart, t, row, S) == row.paid <= Brought(S, t) \/ Marked(apart, t, row)

\* The rows as committed, as the holder of their lock sees them, and as a session
\* loaded them before it records a payment.
CoveredOK(apart) ==
    /\ \A t \in Txns : Covered(apart, t, txn[t], payments)
    /\ \A t \in Txns, w \in Tasks :
          lock[t] = w => Covered(apart, t, image[t], ViewPayments(w))
    /\ \A w \in Tasks : pc[w] \in {"check", "record"} =>
          Covered(apart, tgt[w], loaded[w], ViewPayments(w))

\* Only staff, about to commit, marks a row: in the hands of other sessions a row
\* shows what their payments brought or still what was committed.
MarkingOK ==
    \A t \in Txns, w \in Tasks : lock[t] = w =>
        IF w \in Staff THEN pc[w] = "commit"
        ELSE \/ image[t].paid <= Brought(ViewPayments(w), t)
             \/ image[t].paid = txn[t].paid

\* Staff that looked at a transaction nobody had marked still finds it unmarked.
LookedOK ==
    \A w \in Staff : pc[w] = "update" =>
        loaded[w].status = "PAID" \/ txn[tgt[w]].paid <= Received(tgt[w])

MoneyInvariant(apart) ==
    /\ TypeOK /\ ControlOK /\ PaidOK
    /\ \A w \in Tasks : FreshOK(w)
    /\ CommittedOK /\ CoveredOK(apart)
    /\ MarkingOK
    /\ apart => LookedOK

InductiveInvariant == CreditInvariant /\ MoneyInvariant(TRUE)
=============================================================================
