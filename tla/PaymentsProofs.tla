--------------------------- MODULE PaymentsProofs ---------------------------
(***************************************************************************)
(* What TLAPS proves of Payments, for any tasks, transactions and payments *)
(* and any interleaving of them.                                           *)
(***************************************************************************)
EXTENDS PaymentsInvariants, SumProofs

\* The records of a batch are taken in order: Min of some numbers is one of them.
LEMMA MinOfNats == ASSUME NEW S \in SUBSET Nat, S # {} PROVE Min(S) \in S
<1>1. PICK x \in S : \A y \in S : x <= y
  BY LeastNatural
<1> QED
  BY <1>1 DEF Min

\* What record_payment makes of a transaction.
LEMMA PaidWithType ==
  ASSUME PaymentsAssumption, NEW t \in Txns, NEW old \in Transaction, NEW r \in Refs
  PROVE  /\ PaidWith(t, old, Amount[r]) \in Transaction
         /\ PaidWith(t, old, Amount[r]).paid <= Due[t]
<1>1. Amount[r] \in Nat /\ Due[t] \in Nat /\ old.paid \in Nat
  BY DEF PaymentsAssumption, Transaction
<1> QED
  BY <1>1 DEF PaidWith, Transaction, TransactionStatus

\* An UPDATE leaves a transaction, within its amount if the new one is and the
\* others were.
LEMMA WrittenType ==
  ASSUME TypeOK, PaidOK, NEW w \in Tasks, NEW t \in Txns, NEW new \in Transaction,
         new.paid <= Due[t] \/ new.paid = loaded[w].paid
  PROVE  Written(w, t, new) \in Transaction /\ Written(w, t, new).paid <= Due[t]
<1>1. ViewTxn(w, t) \in Transaction /\ ViewTxn(w, t).paid <= Due[t]
  BY DEF ViewTxn, TypeOK, PaidOK
<1> QED
  BY <1>1 DEF Written, Transaction

\* The UPDATE keeps the types of the rows and their locks.
LEMMA UpdateTxnType ==
  ASSUME TypeOK, PaidOK, NEW w \in Tasks, NEW t \in Txns, NEW new \in Transaction,
         new.paid <= Due[t] \/ new.paid = loaded[w].paid,
         UpdateTxn(w, t, new)
  PROVE  /\ image' \in [Txns -> Transaction]
         /\ \A u \in Txns : image'[u].paid <= Due[u]
         /\ lock' \in [Txns \cup MpesaRefs -> Tasks \cup {NoTask}]
<1>1. Written(w, t, new) \in Transaction /\ Written(w, t, new).paid <= Due[t]
  BY WrittenType
<1>2. image' = [image EXCEPT ![t] = Written(w, t, new)] /\ lock' = [lock EXCEPT ![t] = w]
  BY DEF UpdateTxn, Take
<1> QED
  BY <1>1, <1>2 DEF TypeOK, PaidOK

-----------------------------------------------------------------------------
(* What a session may rely on.                                             *)

\* A task is of one kind, and only services and the poll commit payments.
LEMMA Kinds ==
  ASSUME PaymentsAssumption, NEW w \in Tasks
  PROVE  /\ w \in Services => w \notin Confirms \cup Polls \cup MpesaTasks \cup Staff
         /\ w \in Confirms => w \notin Polls \cup MpesaTasks \cup Staff
         /\ w \in Polls => w \notin MpesaTasks \cup Staff
         /\ w \in MpesaTasks => w \notin Staff
         /\ w \in Services \cup Confirms \cup Polls \cup MpesaTasks \cup Staff
  BY DEF PaymentsAssumption, Tasks, Services

\* Nothing is committed yet of the payment a service or the poll has in hand.
LEMMA InHand ==
  ASSUME PaymentsAssumption, ControlOK, SessionsOK, CreditOK,
         NEW w \in Services \cup Polls, pc[w] \in Handling, cur[w] \in MpesaRefs
  PROVE  /\ mpesa[cur[w]] = Before(w) /\ mpesa[cur[w]] \notin Txns
         /\ cur[w] \notin confirmed /\ Of(payments, cur[w]) = {}
<1>1. w \in Tasks
  BY DEF Tasks, Services
<1>2. CreditorOK(w)
  BY <1>1 DEF SessionsOK, SessionOK
<1>3. mpesa[cur[w]] = Before(w)
  BY <1>2 DEF CreditorOK
<1>4. Before(w) \notin Txns
  BY DEF Before, PaymentsAssumption
<1> QED
  BY <1>3, <1>4 DEF CreditOK

-----------------------------------------------------------------------------
(* Types and control.                                                      *)

\* One task moves on; the others keep what they have in hand.
Moves(w, label) ==
    /\ pc' = [pc EXCEPT ![w] = label] /\ label \in Labels
    /\ \A v \in Tasks \ {w} : cur'[v] = cur[v] /\ tgt'[v] = tgt[v] /\ todo'[v] = todo[v]

\* A step of one task leaves the control points of the others.
LEMMA ControlMove ==
  ASSUME ControlOK, NEW w \in Tasks, NEW label, Moves(w, label), AtControl(w)'
  PROVE  ControlOK'
<1>1. pc' \in [Tasks -> Labels]
  BY DEF Moves, ControlOK
<1>2. ASSUME NEW v \in Tasks \ {w} PROVE AtControl(v)'
  <2>1. pc'[v] = pc[v] /\ cur'[v] = cur[v] /\ tgt'[v] = tgt[v] /\ todo'[v] = todo[v]
    BY DEF Moves, ControlOK
  <2>2. AtControl(v)
    BY DEF ControlOK
  <2> QED
    BY <2>1, <2>2 DEF AtControl, FirstPart
<1> QED
  BY <1>1, <1>2 DEF ControlOK

\* A session that ends is at a control point of its task.
LEMMA ForgetControl ==
  ASSUME TypeOK, ControlOK, NEW w \in Tasks, Forget(w)
  PROVE  ControlOK'
<1>1. Moves(w, "done")
  BY DEF Forget, Goto, Moves, TypeOK, Labels
<1>2. pc'[w] = "done"
  BY DEF Forget, Goto, ControlOK
<1>3. AtControl(w)'
  BY <1>2 DEF AtControl, FirstPart
<1> QED
  BY <1>1, <1>3, ControlMove

\* A commit keeps types and amounts.
LEMMA CommitType ==
  ASSUME TypeOK, PaidOK, NEW w \in Tasks, Commit(w)
  PROVE  TypeOK' /\ PaidOK'
<1>1. TypeOK'
  BY DEF Commit, Free, Forget, Goto, ViewTxn, ViewMpesa, ViewPayments, TypeOK, NewTransaction,
         Transaction, TransactionStatus
<1>2. PaidOK'
  BY DEF Commit, ViewTxn, PaidOK, TypeOK
<1> QED
  BY <1>1, <1>2

\* So does a rollback.
LEMMA RollBackType ==
  ASSUME TypeOK, PaidOK, NEW w \in Tasks, RollBack(w), aborts' \in 0..MaxAborts
  PROVE  TypeOK' /\ PaidOK'
<1>1. TypeOK'
  BY DEF RollBack, Free, Forget, Goto, PaidOK, TypeOK, dbVars, NewTransaction, Transaction,
         TransactionStatus
<1>2. PaidOK'
  BY DEF RollBack, PaidOK, TypeOK, dbVars
<1> QED
  BY <1>1, <1>2

\* Each step keeps the types, the amounts and the control points.
LEMMA TypeStep ==
  ASSUME PaymentsAssumption, TypeOK, PaidOK, ControlOK, [Next]_vars
  PROVE  TypeOK' /\ PaidOK' /\ ControlOK'
<1> DEFINE Good == TypeOK' /\ PaidOK' /\ ControlOK'
<1> USE DEF FirstPart
<1>0. /\ {} \in SUBSET Payment /\ NewTransaction \in Transaction
      /\ \A w \in Tasks, t \in Txns : ViewTxn(w, t) \in Transaction
  BY DEF NewTransaction, Transaction, TransactionStatus, ViewTxn, TypeOK
<1>1. ASSUME NEW w \in Tasks, Commit(w) PROVE Good
  BY <1>1, CommitType, ForgetControl DEF Commit
<1>2. ASSUME NEW w \in Tasks, RollBack(w), aborts' \in 0..MaxAborts PROVE Good
  BY <1>2, RollBackType, ForgetControl DEF RollBack
<1>3. ASSUME NEW w \in Tasks, RollBack(w), UNCHANGED aborts PROVE Good
  BY <1>2, <1>3 DEF TypeOK
<1>4. ASSUME NEW w \in Tasks, Abort(w) PROVE Good
  BY <1>2, <1>4 DEF Abort, TypeOK, PaymentsAssumption
<1>5. ASSUME NEW w \in Tasks, StartService(w) PROVE Good
  <2> DEFINE l == IF mpesa[Item[w]] # NoRow THEN "done" ELSE "insert"
  <2>1. TypeOK' /\ PaidOK'
    BY <1>5, <1>0 DEF StartService, TypeOK, PaidOK, dbVars, rowVars, sessionVars
  <2>2. Moves(w, l) /\ pc'[w] = l
    BY <1>5 DEF StartService, Moves, Goto, sessionVars, TypeOK, ControlOK, Labels, Handling
  <2>3. AtControl(w)'
    BY <1>5, <2>2, Kinds, AtControl(w) DEF StartService, AtControl, Handling, sessionVars, TypeOK, ControlOK
  <2> QED
    BY <2>1, <2>2, <2>3, ControlMove
<1>6. ASSUME NEW w \in Tasks, InsertMpesa(w) PROVE Good
  <2>1. pc[w] = "insert" /\ AtControl(w)
    BY <1>6 DEF InsertMpesa, ControlOK
  <2>2. w \in Services /\ Item[w] \in MpesaRefs
    BY <2>1, Kinds DEF AtControl, Handling, PaymentsAssumption
  <2>3. TypeOK' /\ PaidOK'
    BY <1>6, <2>2 DEF InsertMpesa, TypeOK, PaidOK, dbVars, Take, MpesaPayment, Refs
  <2>4. Moves(w, "match") /\ pc'[w] = "match" /\ cur'[w] = Item[w]
    BY <1>6 DEF InsertMpesa, Moves, Goto, TypeOK, ControlOK, Labels, Handling
  <2>5. AtControl(w)'
    BY <2>2, <2>4, Kinds DEF AtControl, Handling
  <2> QED
    BY <2>3, <2>4, <2>5, ControlMove
<1>7. ASSUME NEW w \in Tasks, FindMatch(w) PROVE Good
  <2>1. pc[w] = "match" /\ AtControl(w)
    BY <1>7 DEF FindMatch, ControlOK
  <2>2. PICK t :
          /\ tgt' = [tgt EXCEPT ![w] = IF t \in known THEN t ELSE NoTxn]
          /\ loaded' = [loaded EXCEPT ![w] = IF t \in known THEN ViewTxn(w, t) ELSE NewTransaction]
          /\ pc' = [pc EXCEPT ![w] = IF t \in known THEN "check" ELSE NextItem(w)]
          /\ UNCHANGED <<dbVars, rowVars, mine, confirming, todo, cur, aborts>>
    BY <1>7 DEF FindMatch, Goto
  <2>3. TypeOK' /\ PaidOK'
    BY <1>0, <2>2 DEF TypeOK, PaidOK, dbVars, rowVars
  <2> DEFINE l == IF t \in known THEN "check" ELSE NextItem(w)
  <2>4. Moves(w, l) /\ pc'[w] = l
    BY <2>2 DEF Moves, TypeOK, ControlOK, Labels, Handling, NextItem
  <2>5. AtControl(w)'
    <3>1. cur'[w] \in MpesaRefs /\ (t \in known => tgt'[w] \in Txns)
      <4>1. cur[w] \in MpesaRefs
        BY <2>1 DEF AtControl
      <4> QED
        BY <2>2, <4>1 DEF TypeOK
    <3> QED
      BY <2>1, <2>4, <3>1, Kinds DEF AtControl, Handling, NextItem
  <2> QED
    BY <2>3, <2>4, <2>5, ControlMove
<1>8. ASSUME NEW w \in Tasks, CheckExisting(w) PROVE Good
  <2> DEFINE l == IF Recorded(w) THEN "link" ELSE "record"
  <2>1. TypeOK' /\ PaidOK'
    BY <1>8, <1>0 DEF CheckExisting, TypeOK, PaidOK, dbVars, rowVars, sessionVars
  <2>2. Moves(w, l) /\ pc'[w] = l
    BY <1>8 DEF CheckExisting, Moves, Goto, sessionVars, TypeOK, ControlOK, Labels, Handling, Refs
  <2>3. AtControl(w)'
    BY <1>8, <2>2, Kinds, AtControl(w) DEF CheckExisting, AtControl, Handling, sessionVars, TypeOK, ControlOK, Refs
  <2> QED
    BY <2>1, <2>2, <2>3, ControlMove
<1>9. ASSUME NEW w \in Tasks, RecordPayment(w) PROVE Good
  <2> DEFINE t == tgt[w]
             r == cur[w]
             new == PaidWith(t, loaded[w], Amount[r])
             l == IF r \in CsvRefs THEN "sync" ELSE "link"
  <2>1. pc[w] = "record" /\ AtControl(w) /\ t \in Txns /\ r \in Refs
    BY <1>9 DEF RecordPayment, ControlOK, AtControl
  <2>2. new \in Transaction /\ new.paid <= Due[t]
    BY <2>1, PaidWithType DEF TypeOK
  <2>3. UpdateTxn(w, t, new)
    BY <1>9 DEF RecordPayment
  <2>4. /\ image' \in [Txns -> Transaction]
        /\ \A u \in Txns : image'[u].paid <= Due[u]
        /\ lock' \in [Txns \cup MpesaRefs -> Tasks \cup {NoTask}]
    <3> HIDE DEF new, t
    <3> QED
      BY <2>1, <2>2, <2>3, UpdateTxnType
  <2>5. /\ [txn |-> t, ref |-> r, by |-> w] \in Payment
        /\ mine' = [mine EXCEPT ![w] = @ \cup {[txn |-> t, ref |-> r, by |-> w]}]
        /\ UNCHANGED <<dbVars, mpesaImage, confirming, todo, cur, tgt, loaded, aborts>>
    BY <1>9, <2>1 DEF RecordPayment, Payment
  <2>6. TypeOK' /\ PaidOK'
    BY <2>4, <2>5 DEF TypeOK, PaidOK, dbVars
  <2>7. Moves(w, l) /\ pc'[w] = l
    BY <1>9 DEF RecordPayment, Moves, Goto, TypeOK, ControlOK, Labels, Handling
  <2>8. AtControl(w)'
    BY <2>1, <2>5, <2>7, Kinds DEF AtControl, Handling, Refs
  <2> QED
    BY <2>6, <2>7, <2>8, ControlMove
<1>10. ASSUME NEW w \in Tasks, Link(w) PROVE Good
  <2> DEFINE l == IF cur[w] \in confirmed /\ w \notin Polls THEN "fail" ELSE NextItem(w)
  <2>1. pc[w] = "link" /\ AtControl(w) /\ tgt[w] \in Txns /\ cur[w] \in MpesaRefs
    BY <1>10 DEF Link, ControlOK, AtControl
  <2>2. TypeOK' /\ PaidOK'
    BY <1>10, <2>1 DEF Link, Take, TypeOK, PaidOK, MpesaPayment, dbVars
  <2>3. Moves(w, l) /\ pc'[w] = l
    BY <1>10 DEF Link, NextItem, Moves, Goto, TypeOK, ControlOK, Labels, Handling
  <2>4. UNCHANGED <<cur, tgt, todo>>
    BY <1>10 DEF Link
  <2>5. AtControl(w)'
    BY <2>1, <2>3, <2>4, Kinds DEF AtControl, Handling, NextItem
  <2> QED
    BY <2>2, <2>3, <2>5, ControlMove
<1>11. ASSUME NEW w \in Tasks, StartMpesaTask(w) PROVE Good
  <2> DEFINE l == IF mpesa[Item[w]] = NoTxn THEN "match" ELSE "done"
  <2>1. TypeOK' /\ PaidOK'
    BY <1>11, <1>0 DEF StartMpesaTask, TypeOK, PaidOK, dbVars, rowVars, sessionVars, Refs, PaymentsAssumption
  <2>2. Moves(w, l) /\ pc'[w] = l
    BY <1>11 DEF StartMpesaTask, Moves, Goto, sessionVars, TypeOK, ControlOK, Labels, Handling
  <2>3. AtControl(w)'
    BY <1>11, <2>2, Kinds, AtControl(w) DEF StartMpesaTask, AtControl, Handling, sessionVars, TypeOK, ControlOK
  <2> QED
    BY <2>1, <2>2, <2>3, ControlMove
<1>12. ASSUME NEW w \in Tasks, StartPoll(w) PROVE Good
  <2> DEFINE l == IF GetCheckpointRaises THEN "fail" ELSE "sync"
  <2>1. TypeOK' /\ PaidOK'
    BY <1>12, <1>0 DEF StartPoll, TypeOK, PaidOK, dbVars, rowVars, sessionVars, SyncPayments, Refs
  <2>2. Moves(w, l) /\ pc'[w] = l
    BY <1>12 DEF StartPoll, Moves, Goto, sessionVars, TypeOK, ControlOK, Labels, Handling
  <2>3. AtControl(w)'
    <3>1. todo'[w] \subseteq CsvRefs /\ w \in Polls
      BY <1>12 DEF StartPoll, SyncPayments, TypeOK
    <3> QED
      BY <2>2, <3>1, Kinds DEF AtControl, Handling
  <2> QED
    BY <2>1, <2>2, <2>3, ControlMove
<1>13. ASSUME NEW w \in Tasks, SelectUnmatched(w) PROVE Good
  <2> DEFINE l == "matching"
  <2>1. TypeOK' /\ PaidOK'
    BY <1>13, <1>0 DEF SelectUnmatched, TypeOK, PaidOK, dbVars, rowVars, sessionVars, Refs
  <2>2. Moves(w, l) /\ pc'[w] = l
    BY <1>13 DEF SelectUnmatched, Moves, Goto, sessionVars, TypeOK, ControlOK, Labels, Handling
  <2>3. AtControl(w)'
    BY <1>13, <2>2, Kinds, AtControl(w) DEF SelectUnmatched, AtControl, Handling, sessionVars, TypeOK, ControlOK
  <2> QED
    BY <2>1, <2>2, <2>3, ControlMove
<1>14. ASSUME NEW w \in Tasks, SyncRecord(w) PROVE Good
  <2>1. pc[w] = "sync" /\ todo[w] # {} /\ AtControl(w)
    BY <1>14 DEF SyncRecord, ControlOK
  <2>2. w \in Polls
    BY <2>1, Kinds DEF AtControl, Handling
  <2>3. todo[w] \subseteq CsvRefs
    BY <2>1, <2>2 DEF AtControl
  <2> DEFINE r == Min(todo[w])
  <2>4. r \in CsvRefs
    BY <2>1, <2>3, MinOfNats DEF PaymentsAssumption
  <2>5. /\ todo' = [todo EXCEPT ![w] = @ \ {r}]
        /\ cur' = [cur EXCEPT ![w] = r]
        /\ tgt' = [tgt EXCEPT ![w] = RecordTxn[r]]
        /\ loaded' = [loaded EXCEPT ![w] = ViewTxn(w, RecordTxn[r])]
        /\ pc' = [pc EXCEPT ![w] = IF RecordTxn[r] \in known THEN "record" ELSE "sync"]
        /\ UNCHANGED <<dbVars, rowVars, mine, confirming, aborts>>
    BY <1>14 DEF SyncRecord, Goto
  <2> HIDE DEF r
  <2>6. r \in Refs /\ RecordTxn[r] \in Txns
    BY <2>4 DEF PaymentsAssumption, Refs
  <2>7. TypeOK' /\ PaidOK'
    BY <1>0, <2>5, <2>6 DEF TypeOK, PaidOK, dbVars, rowVars
  <2> DEFINE l == IF RecordTxn[r] \in known THEN "record" ELSE "sync"
  <2>8. Moves(w, l) /\ pc'[w] = l /\ cur'[w] = r /\ tgt'[w] = RecordTxn[r]
    BY <2>5 DEF Moves, TypeOK, ControlOK, Labels, Handling
  <2>9. AtControl(w)'
    <3>1. todo'[w] \subseteq CsvRefs
      BY <2>3, <2>5 DEF TypeOK
    <3> QED
      BY <2>2, <2>4, <2>6, <2>8, <3>1, Kinds DEF AtControl, Handling
  <2> QED
    BY <2>7, <2>8, <2>9, ControlMove
<1>15. ASSUME NEW w \in Tasks, NEW r \in MpesaRefs, NextUnmatched(w, r) PROVE Good
  <2> DEFINE l == "match"
  <2>1. TypeOK' /\ PaidOK'
    BY <1>15, <1>0 DEF NextUnmatched, TypeOK, PaidOK, dbVars, rowVars, sessionVars, Refs
  <2>2. Moves(w, l) /\ pc'[w] = l
    BY <1>15 DEF NextUnmatched, Moves, Goto, sessionVars, TypeOK, ControlOK, Labels, Handling
  <2>3. AtControl(w)'
    BY <1>15, <2>2, Kinds, AtControl(w) DEF NextUnmatched, AtControl, Handling, sessionVars, TypeOK, ControlOK
  <2> QED
    BY <2>1, <2>2, <2>3, ControlMove
<1>16. ASSUME NEW w \in Tasks, ConfirmDuplicate(w) PROVE Good
  <2> DEFINE l == "done"
  <2>1. TypeOK' /\ PaidOK'
    BY <1>16, <1>0 DEF ConfirmDuplicate, TypeOK, PaidOK, dbVars, rowVars, sessionVars
  <2>2. Moves(w, l) /\ pc'[w] = l
    BY <1>16 DEF ConfirmDuplicate, Moves, Goto, sessionVars, TypeOK, ControlOK, Labels, Handling
  <2>3. AtControl(w)'
    BY <1>16, <2>2, Kinds, AtControl(w) DEF ConfirmDuplicate, AtControl, Handling, sessionVars, TypeOK, ControlOK
  <2> QED
    BY <2>1, <2>2, <2>3, ControlMove
<1>17. ASSUME NEW w \in Tasks, LoadForStatus(w) PROVE Good
  <2> DEFINE l == "update"
  <2>1. TypeOK' /\ PaidOK'
    BY <1>17, <1>0 DEF LoadForStatus, TypeOK, PaidOK, dbVars, rowVars, sessionVars
  <2>2. Moves(w, l) /\ pc'[w] = l
    BY <1>17 DEF LoadForStatus, Moves, Goto, sessionVars, TypeOK, ControlOK, Labels, Handling
  <2>3. AtControl(w)'
    BY <1>17, <2>2, Kinds, AtControl(w) DEF LoadForStatus, AtControl, Handling, sessionVars, TypeOK, ControlOK
  <2> QED
    BY <2>1, <2>2, <2>3, ControlMove
<1>18. ASSUME NEW w \in Tasks, UpdateStatus(w) PROVE Good
  <2> DEFINE t == tgt[w]
  <2>1. pc[w] = "update" /\ AtControl(w) /\ t \in Txns
    BY <1>18 DEF UpdateStatus, ControlOK, AtControl
  <2>2. PICK new \in VALID_TRANSITIONS[loaded[w].status] :
          UpdateTxn(w, t, [status |-> new,
                           paid |-> IF new = "PAID" THEN Due[t] ELSE loaded[w].paid])
    BY <1>18 DEF UpdateStatus
  <2> DEFINE changed == [status |-> new, paid |-> IF new = "PAID" THEN Due[t] ELSE loaded[w].paid]
  <2>3. loaded[w].status \in TransactionStatus /\ loaded[w].paid \in Nat /\ Due[t] \in Nat
    BY <2>1 DEF TypeOK, Transaction, PaymentsAssumption
  <2>4. new \in TransactionStatus
    BY <2>3 DEF VALID_TRANSITIONS, TransactionStatus
  <2>5. /\ changed \in Transaction
        /\ changed.paid <= Due[t] \/ changed.paid = loaded[w].paid
    BY <2>3, <2>4 DEF Transaction
  <2>6. /\ image' \in [Txns -> Transaction]
        /\ \A u \in Txns : image'[u].paid <= Due[u]
        /\ lock' \in [Txns \cup MpesaRefs -> Tasks \cup {NoTask}]
    <3>1. UpdateTxn(w, t, changed)
      BY <2>2
    <3> HIDE DEF changed, t
    <3> QED
      BY <2>1, <2>5, <3>1, UpdateTxnType
  <2>7. TypeOK' /\ PaidOK'
    BY <1>18, <2>6 DEF UpdateStatus, TypeOK, PaidOK, dbVars, sessionVars
  <2>8. Moves(w, "commit") /\ pc'[w] = "commit"
    BY <1>18 DEF UpdateStatus, sessionVars, Moves, Goto, ControlOK, Labels
  <2>9. AtControl(w)'
    BY <2>1, <2>8, Kinds DEF AtControl, Handling
  <2> QED
    BY <2>7, <2>8, <2>9, ControlMove
<1>19. ASSUME NEW t \in Txns, CreateTransaction(t) PROVE Good
  BY <1>19 DEF CreateTransaction, rowVars, sessionVars, TypeOK, PaidOK, ControlOK, AtControl
<1>20. ASSUME UNCHANGED vars PROVE Good
  BY <1>20 DEF vars, dbVars, rowVars, sessionVars, TypeOK, PaidOK, ControlOK, AtControl
<1> HIDE DEF Good
<1>21. ASSUME NEW w \in Tasks, ServiceStep(w) PROVE Good
  BY <1>1, <1>3, <1>5, <1>6, <1>7, <1>8, <1>9, <1>10, <1>11, <1>21
     DEF ServiceStep, CommitTask, FailTask, RejectDuplicateRef
<1>22. ASSUME NEW w \in Tasks, PollStep(w) PROVE Good
  BY <1>1, <1>12, <1>13, <1>14, <1>15, <1>22 DEF PollStep, EndPoll
<1>23. ASSUME NEW w \in Tasks, TaskStep(w) PROVE Good
  BY <1>3, <1>16, <1>17, <1>18, <1>21, <1>22, <1>23
     DEF TaskStep, ConfirmStep, ConfirmFails, StaffStep, RejectStatus, DeadlockVictim
<1>24. Good
  BY <1>4, <1>19, <1>20, <1>23 DEF Next
<1> QED
  BY <1>24 DEF Good

-----------------------------------------------------------------------------
(* Sessions do not disturb each other.                                     *)

\* What a step of w leaves to the others: their own variables, their locks, the
\* rows under them; it commits M-Pesa rows that it has locked itself.
Alone(w) ==
    /\ \A v \in Tasks \ {w} :
        /\ pc'[v] = pc[v] /\ todo'[v] = todo[v] /\ cur'[v] = cur[v] /\ tgt'[v] = tgt[v]
        /\ mine'[v] = mine[v] /\ confirming'[v] = confirming[v]
        /\ \A r \in MpesaRefs :
            /\ lock'[r] = v <=> lock[r] = v
            /\ lock[r] = v => mpesaImage'[r] = mpesaImage[r]
    /\ \A r \in MpesaRefs : mpesa'[r] = mpesa[r] \/ (lock[r] = w /\ w \in Services \cup Polls)

\* What a session relies on survives the steps of others.
LEMMA OthersKeep ==
  ASSUME PaymentsAssumption, PollsApart, SessionsOK,
         NEW w \in Tasks, Alone(w), NEW v \in Tasks \ {w}
  PROVE  SessionOK(v)'
<1>1. /\ pc'[v] = pc[v] /\ todo'[v] = todo[v] /\ cur'[v] = cur[v] /\ tgt'[v] = tgt[v]
      /\ mine'[v] = mine[v] /\ confirming'[v] = confirming[v]
  BY DEF Alone
<1>2. ASSUME NEW r \in MpesaRefs
      PROVE  /\ lock'[r] = v <=> lock[r] = v
             /\ Untouched(v, r)' <=> Untouched(v, r)
             /\ Noted(v, r)' <=> Noted(v, r)
             /\ Complete(v, r)' <=> Complete(v, r)
  BY <1>1 DEF Alone, Untouched, Noted, Complete, Of, Record
<1>3. ASSUME NEW r \in MpesaRefs, lock[r] = v PROVE mpesa'[r] = mpesa[r]
  BY <1>3 DEF Alone
\* The poll's selection: a service holds only rows that were not there before, and
\* no other poll holds any while this one is at work.
<1>4. ASSUME v \in Polls, Active(v), NEW r \in MpesaRefs, mpesa[r] = NoTxn
      PROVE  mpesa'[r] = mpesa[r]
  <2>1. w \in Polls => lock[r] # w
    BY <1>4 DEF PollsApart, OneAtATime, SessionsOK, SessionOK, PollOK
  <2>2. w \in Services /\ lock[r] = w => mpesa[r] = NoRow
    BY DEF SessionsOK, SessionOK, CreditorOK, Before
  <2> QED
    BY <1>4, <2>1, <2>2 DEF Alone, PaymentsAssumption
<1>5. ASSUME v \in Services PROVE CreditorOK(v)' /\ ServiceOK(v)'
  <2>1. CreditorOK(v) /\ ServiceOK(v)
    BY <1>5 DEF SessionsOK, SessionOK
  <2>2. ServiceOK(v)'
    BY <1>1, <1>2, <1>5, <2>1 DEF ServiceOK, PaymentsAssumption
  <2>3. ASSUME NEW r \in MpesaRefs, pc[v] \in Handling, cur[v] = r PROVE mpesa'[r] = mpesa[r]
    BY <1>3, <2>1, <2>3 DEF ServiceOK
  <2>4. CreditorOK(v)'
    BY <1>1, <1>2, <1>3, <2>1, <2>3 DEF CreditorOK, Before
  <2> QED
    BY <2>2, <2>4
<1>6. ASSUME v \in Polls PROVE CreditorOK(v)' /\ PollOK(v)'
  <2>1. CreditorOK(v) /\ PollOK(v) /\ Before(v) = NoTxn
    BY <1>6, Kinds DEF SessionsOK, SessionOK, Before
  <2>2. PollOK(v)'
    BY <1>1, <1>2, <1>4, <1>6, <2>1 DEF PollOK, Active, FirstPart
  <2>3. Active(v) \/ pc[v] \notin Handling
    BY DEF Active, Handling
  <2>4. CreditorOK(v)'
    BY <1>1, <1>2, <1>3, <1>4, <1>6, <2>1, <2>3 DEF CreditorOK, Before
  <2> QED
    BY <2>2, <2>4
<1>7. ASSUME v \in Staff PROVE StaffOK(v)'
  BY <1>1, <1>2, <1>7 DEF SessionsOK, SessionOK, StaffOK
<1> QED
  BY <1>5, <1>6, <1>7 DEF SessionOK



-----------------------------------------------------------------------------
(* Each step keeps what the session relies on.                             *)

\* A session that has ended holds nothing.
LEMMA EndedSession ==
  ASSUME TypeOK, ControlOK, NEW w \in Tasks, Free(w), Forget(w)
  PROVE  SessionOK(w)'
<1>1. /\ pc'[w] = "done" /\ mine'[w] = {} /\ confirming'[w] = {} /\ todo'[w] = {}
      /\ \A r \in MpesaRefs : lock'[r] # w
  BY PaymentsAssumption DEF Free, Forget, Goto, TypeOK, ControlOK
<1>2. \A r \in MpesaRefs : Untouched(w, r)'
  BY <1>1 DEF Untouched, Of
<1> QED
  BY <1>1, <1>2
     DEF SessionOK, CreditorOK, ServiceOK, PollOK, Active, FirstPart, StaffOK, Handling

\* A commit touches only rows that its session has locked.
LEMMA CommitAlone ==
  ASSUME TypeOK, ControlOK, SessionsOK, NEW w \in Tasks, Commit(w),
         w \notin MpesaTasks \cup Confirms
  PROVE  Alone(w)
<1>1. \A r \in MpesaRefs : lock[r] = w => w \in Services \cup Polls
  BY DEF SessionsOK, SessionOK, StaffOK, Tasks, Services
<1>2. \A r \in MpesaRefs : mpesa'[r] = IF lock[r] = w THEN mpesaImage[r] ELSE mpesa[r]
  BY DEF Commit, ViewMpesa
<1>3. \A r \in MpesaRefs : lock'[r] = IF lock[r] = w THEN NoTask ELSE lock[r]
  BY DEF Commit, Free, TypeOK
<1>4. \A v \in Tasks \ {w} :
        /\ pc'[v] = pc[v] /\ todo'[v] = todo[v] /\ cur'[v] = cur[v] /\ tgt'[v] = tgt[v]
        /\ mine'[v] = mine[v] /\ confirming'[v] = confirming[v]
  BY DEF Commit, Forget, Goto, TypeOK, ControlOK
<1>5. UNCHANGED mpesaImage
  BY DEF Commit
<1> QED
  BY <1>1, <1>2, <1>3, <1>4, <1>5, PaymentsAssumption DEF Alone

\* So does a rollback.
LEMMA RollBackAlone ==
  ASSUME TypeOK, ControlOK, NEW w \in Tasks, RollBack(w)
  PROVE  Alone(w)
<1>1. \A r \in MpesaRefs : mpesa'[r] = mpesa[r]
  BY DEF RollBack, dbVars
<1>2. \A r \in MpesaRefs : mpesaImage'[r] = IF lock[r] = w THEN mpesa[r] ELSE mpesaImage[r]
  BY DEF RollBack
<1>3. \A r \in MpesaRefs : lock'[r] = IF lock[r] = w THEN NoTask ELSE lock[r]
  BY DEF RollBack, Free, TypeOK
<1>4. \A v \in Tasks \ {w} :
        /\ pc'[v] = pc[v] /\ todo'[v] = todo[v] /\ cur'[v] = cur[v] /\ tgt'[v] = tgt[v]
        /\ mine'[v] = mine[v] /\ confirming'[v] = confirming[v]
  BY DEF RollBack, Forget, Goto, TypeOK, ControlOK
<1> QED
  BY <1>1, <1>2, <1>3, <1>4, PaymentsAssumption DEF Alone

\* Each step keeps what every session relies on.
LEMMA SessionStep ==
  ASSUME PaymentsAssumption, PollsApart, CreditInvariant, [Next]_vars
  PROVE  SessionsOK'
<1> USE DEF CreditInvariant
<1>0. ASSUME NEW w \in Tasks, Alone(w), SessionOK(w)' PROVE SessionsOK'
  BY <1>0, OthersKeep DEF SessionsOK
<1>1. ASSUME NEW w \in Tasks, Commit(w), w \notin MpesaTasks \cup Confirms PROVE SessionsOK'
  BY <1>0, <1>1, CommitAlone, EndedSession DEF Commit
<1>2. ASSUME NEW w \in Tasks, RollBack(w) PROVE SessionsOK'
  BY <1>0, <1>2, RollBackAlone, EndedSession DEF RollBack
<1>3. ASSUME NEW w \in Tasks, StartService(w) PROVE SessionsOK'
  <2>1. Alone(w)
    BY <1>3 DEF StartService, Alone, Goto, dbVars, rowVars, sessionVars, TypeOK, ControlOK
  <2>2. /\ w \in Services /\ pc[w] = "start" /\ pc'[w] \in {"done", "insert"}
        /\ UNCHANGED <<mpesa, mpesaImage, lock, mine, confirming>>
    BY <1>3 DEF StartService, Goto, ControlOK, dbVars, rowVars, sessionVars
  <2>3. CreditorOK(w) /\ ServiceOK(w)
    BY <2>2 DEF SessionsOK, SessionOK
  <2>4. CreditorOK(w)' /\ ServiceOK(w)'
    BY <2>2, <2>3 DEF CreditorOK, ServiceOK, Untouched, Complete, Handling, Before
  <2>9. SessionOK(w)'
    BY <2>2, <2>4, Kinds DEF SessionOK
  <2> QED
    BY <1>0, <2>1, <2>9
<1>4. ASSUME NEW w \in Tasks, InsertMpesa(w) PROVE SessionsOK'
  <2>1. Alone(w)
    BY <1>4 DEF InsertMpesa, Alone, Goto, dbVars, rowVars, sessionVars, TypeOK, ControlOK, Take, MayWrite, PaymentsAssumption
  <2> DEFINE r == Item[w]
  <2>2. pc[w] = "insert" /\ w \in Services /\ r \in MpesaRefs
    BY <1>4, Kinds DEF InsertMpesa, ControlOK, AtControl, Handling, PaymentsAssumption
  <2>3. CreditorOK(w) /\ ServiceOK(w)
    BY <2>2 DEF SessionsOK, SessionOK
  <2>4. /\ mpesa[r] = NoRow /\ pc'[w] = "match" /\ cur'[w] = r
        /\ lock' = [lock EXCEPT ![r] = w]
        /\ mpesaImage' = [mpesaImage EXCEPT ![r] = NoTxn]
        /\ UNCHANGED <<mpesa, mine, confirming>>
    BY <1>4 DEF InsertMpesa, DuplicateRef, Take, Goto, ControlOK, TypeOK, dbVars
  <2>5. \A x \in MpesaRefs : Untouched(w, x)'
    BY <2>2, <2>3, <2>4 DEF ServiceOK, Untouched, TypeOK
  <2>6. \A x \in MpesaRefs : lock'[x] = w => x = r
    BY <2>2, <2>3, <2>4 DEF ServiceOK, TypeOK, Handling
  <2>7. CreditorOK(w)' /\ ServiceOK(w)'
    BY <2>2, <2>4, <2>5, <2>6 DEF CreditorOK, ServiceOK, Handling, Before, TypeOK
  <2>9. SessionOK(w)'
    BY <2>2, <2>7, Kinds DEF SessionOK
  <2> QED
    BY <1>0, <2>1, <2>9
<1>5. ASSUME NEW w \in Tasks, FindMatch(w) PROVE SessionsOK'
  <2>1. Alone(w)
    BY <1>5 DEF FindMatch, Alone, Goto, dbVars, rowVars, sessionVars, TypeOK, ControlOK
  <2>2. /\ pc[w] = "match" /\ pc'[w] \in {"check", NextItem(w)} /\ cur'[w] = cur[w]
        /\ UNCHANGED <<mpesa, mpesaImage, lock, mine, confirming, todo>>
    BY <1>5 DEF FindMatch, Goto, ControlOK, dbVars, rowVars
  <2>3. \A x \in MpesaRefs : /\ Untouched(w, x)' <=> Untouched(w, x)
                             /\ Complete(w, x)' <=> Complete(w, x)
    BY <2>2 DEF Untouched, Complete
  <2>4. AtControl(w)
    BY DEF ControlOK
  <2>5. ASSUME w \in Services PROVE CreditorOK(w)' /\ ServiceOK(w)'
    BY <2>2, <2>3, <2>5, Kinds
       DEF SessionsOK, SessionOK, CreditorOK, ServiceOK, Handling, Before, NextItem
  <2>6. ASSUME w \in Polls PROVE CreditorOK(w)' /\ PollOK(w)'
    BY <2>2, <2>3, <2>4, <2>6, Kinds
       DEF SessionsOK, SessionOK, CreditorOK, PollOK, Active, FirstPart, Handling, Before, NextItem, AtControl
  <2>7. w \notin Staff
    BY <2>2, <2>4 DEF AtControl
  <2>9. SessionOK(w)'
    BY <2>5, <2>6, <2>7 DEF SessionOK
  <2> QED
    BY <1>0, <2>1, <2>9
<1>6. ASSUME NEW w \in Tasks, CheckExisting(w) PROVE SessionsOK'
  <2>1. Alone(w)
    BY <1>6 DEF CheckExisting, Alone, Goto, dbVars, rowVars, sessionVars, TypeOK, ControlOK
  <2>2. /\ pc[w] = "check" /\ pc'[w] = IF Recorded(w) THEN "link" ELSE "record"
        /\ UNCHANGED <<mpesa, mpesaImage, lock, mine, confirming, todo, cur>>
    BY <1>6 DEF CheckExisting, Goto, ControlOK, dbVars, rowVars, sessionVars
  <2>3. \A x \in MpesaRefs : /\ Untouched(w, x)' <=> Untouched(w, x)
                             /\ Complete(w, x)' <=> Complete(w, x)
    BY <2>2 DEF Untouched, Complete
  <2>4. AtControl(w) /\ w \notin Staff /\ cur[w] \in MpesaRefs \ CsvRefs
    BY <2>2 DEF ControlOK, AtControl, PaymentsAssumption
  <2>5. ASSUME w \in Services \cup Polls PROVE pc'[w] = "record"
    <3>1. CreditorOK(w)
      BY <2>5 DEF SessionsOK, SessionOK
    <3>2. Untouched(w, cur[w])
      BY <2>2, <2>4, <3>1 DEF CreditorOK, Handling
    <3>3. Of(payments, cur[w]) = {} /\ Of(mine[w], cur[w]) = {}
      BY <2>2, <2>4, <2>5, <3>2, InHand DEF Handling, Untouched
    <3>4. ~Recorded(w)
      BY <3>3 DEF Recorded, ViewPayments, Of
    <3> QED
      BY <2>2, <3>4
  <2>6. ASSUME w \in Services PROVE CreditorOK(w)' /\ ServiceOK(w)'
    BY <2>2, <2>3, <2>5, <2>6
       DEF SessionsOK, SessionOK, CreditorOK, ServiceOK, Handling, Before
  <2>7. ASSUME w \in Polls PROVE CreditorOK(w)' /\ PollOK(w)'
    BY <2>2, <2>3, <2>4, <2>5, <2>7, Kinds
       DEF SessionsOK, SessionOK, CreditorOK, PollOK, Active, FirstPart, Handling, Before
  <2>9. SessionOK(w)'
    BY <2>4, <2>6, <2>7 DEF SessionOK
  <2> QED
    BY <1>0, <2>1, <2>9
<1>7. ASSUME NEW w \in Tasks, RecordPayment(w) PROVE SessionsOK'
  <2>1. Alone(w)
    BY <1>7 DEF RecordPayment, Alone, Goto, dbVars, rowVars, sessionVars, TypeOK, ControlOK, AtControl, UpdateTxn, Take, PaymentsAssumption
  <2> DEFINE t == tgt[w]
             r == cur[w]
             p == [txn |-> t, ref |-> r, by |-> w]
  <2>2. /\ pc[w] = "record" /\ pc'[w] = IF r \in CsvRefs THEN "sync" ELSE "link"
        /\ mine'[w] = mine[w] \cup {p}
        /\ UNCHANGED <<mpesa, mpesaImage, confirming, todo, cur, tgt>>
    BY <1>7 DEF RecordPayment, Goto, ControlOK, TypeOK, dbVars
  <2>3. AtControl(w) /\ w \notin Staff /\ t \in Txns /\ r \in Refs
    BY <2>2 DEF ControlOK, AtControl
  <2>4. \A x \in MpesaRefs : lock'[x] = lock[x]
    BY <1>7, <2>3 DEF RecordPayment, UpdateTxn, Take, TypeOK, PaymentsAssumption
  <2>5. ASSUME NEW x \in MpesaRefs, x # r
        PROVE  /\ Untouched(w, x)' <=> Untouched(w, x)
               /\ Complete(w, x)' <=> Complete(w, x)
    BY <2>2, <2>4, <2>5 DEF Untouched, Complete, Of, Record
  <2>6. r \in MpesaRefs /\ Untouched(w, r) => Noted(w, r)'
    BY <2>2, <2>4 DEF Untouched, Noted, Of, Record
  <2>7. ASSUME w \in Services PROVE CreditorOK(w)' /\ ServiceOK(w)'
    <3>1. r \in MpesaRefs /\ pc'[w] = "link"
      BY <2>2, <2>3, <2>7, Kinds DEF AtControl, Refs
    <3> QED
      BY <2>2, <2>3, <2>4, <2>5, <2>6, <2>7, <3>1
         DEF SessionsOK, SessionOK, CreditorOK, ServiceOK, Handling, Before
  <2>8. ASSUME w \in Polls PROVE CreditorOK(w)' /\ PollOK(w)'
    <3>1. CASE r \in CsvRefs
      <4>1. r \notin MpesaRefs
        BY <3>1 DEF PaymentsAssumption
      <4> QED
        BY <2>2, <2>4, <2>5, <2>8, <3>1, <4>1
           DEF SessionsOK, SessionOK, CreditorOK, PollOK, Active, FirstPart, Handling, Before
    <3>2. CASE r \in MpesaRefs \ CsvRefs
      BY <2>2, <2>4, <2>5, <2>6, <2>8, <3>2, Kinds
         DEF SessionsOK, SessionOK, CreditorOK, PollOK, Active, FirstPart, Handling, Before
    <3> QED
      BY <2>3, <3>1, <3>2 DEF Refs
  <2>9. SessionOK(w)'
    BY <2>3, <2>7, <2>8 DEF SessionOK
  <2> QED
    BY <1>0, <2>1, <2>9
<1>8. ASSUME NEW w \in Tasks, Link(w) PROVE SessionsOK'
  <2>1. Alone(w)
    BY <1>8 DEF Link, Alone, Goto, dbVars, rowVars, sessionVars, TypeOK, ControlOK, Take, MayWrite, AtControl, PaymentsAssumption
  <2> DEFINE r == cur[w]
  <2>2. pc[w] = "link" /\ AtControl(w) /\ w \notin Staff /\ r \in MpesaRefs /\ tgt[w] \in Txns
    BY <1>8 DEF Link, ControlOK, AtControl
  <2>3. /\ lock' = [lock EXCEPT ![r] = w]
        /\ mpesaImage' = [mpesaImage EXCEPT ![r] = tgt[w]]
        /\ confirming' = [confirming EXCEPT ![w] = IF r \in confirmed THEN @ ELSE @ \cup {r}]
        /\ UNCHANGED <<mpesa, mine, todo, cur, tgt>>
        /\ pc'[w] = IF r \in confirmed /\ w \notin Polls THEN "fail" ELSE NextItem(w)
    BY <1>8 DEF Link, Take, Goto, ControlOK, dbVars
  <2>4. ASSUME NEW x \in MpesaRefs, x # r
        PROVE  /\ Untouched(w, x)' <=> Untouched(w, x)
               /\ Complete(w, x)' <=> Complete(w, x)
    BY <2>2, <2>3, <2>4 DEF Untouched, Complete, TypeOK
  <2>5. ASSUME w \in Services \cup Polls
        PROVE  Complete(w, r)' /\ pc'[w] = NextItem(w) /\ mpesa[r] = Before(w)
    <3>1. Noted(w, r) /\ mpesa[r] = Before(w)
      BY <2>2, <2>5 DEF SessionsOK, SessionOK, CreditorOK, Handling
    <3>2. r \notin confirmed
      BY <2>2, <2>5, InHand DEF Handling
    <3> QED
      BY <2>2, <2>3, <3>1, <3>2 DEF Noted, Complete, TypeOK
  <2>6. \A x \in MpesaRefs : lock'[x] = w <=> (x = r \/ lock[x] = w)
    BY <2>2, <2>3 DEF TypeOK
  <2>7. ASSUME w \in Services PROVE CreditorOK(w)' /\ ServiceOK(w)'
    <3>1. pc'[w] = "commit"
      BY <2>5, <2>7, Kinds DEF NextItem
    <3>2. CreditorOK(w) /\ ServiceOK(w)
      BY <2>7 DEF SessionsOK, SessionOK
    <3>3. CreditorOK(w)'
      BY <2>2, <2>3, <2>4, <2>5, <2>6, <2>7, <3>1, <3>2 DEF CreditorOK, Handling, Before
    <3>4. ServiceOK(w)'
      BY <2>2, <2>3, <2>6, <3>1, <3>2 DEF ServiceOK, Handling
    <3> QED
      BY <3>3, <3>4
  <2>8. ASSUME w \in Polls PROVE CreditorOK(w)' /\ PollOK(w)'
    <3>1. pc'[w] = "matching"
      BY <2>5, <2>8 DEF NextItem
    <3>2. CreditorOK(w) /\ PollOK(w)
      BY <2>8 DEF SessionsOK, SessionOK
    <3>3. CreditorOK(w)'
      BY <2>2, <2>3, <2>4, <2>5, <2>6, <2>8, <3>1, <3>2 DEF CreditorOK, Handling, Before
    <3>4. PollOK(w)'
      BY <2>2, <2>3, <2>4, <3>1, <3>2 DEF PollOK, Active, FirstPart, Handling
    <3> QED
      BY <3>3, <3>4
  <2>9. SessionOK(w)'
    BY <2>2, <2>7, <2>8 DEF SessionOK
  <2> QED
    BY <1>0, <2>1, <2>9
<1>9. ASSUME NEW w \in Tasks, StartMpesaTask(w) PROVE SessionsOK'
  <2>1. Alone(w)
    BY <1>9 DEF StartMpesaTask, Alone, Goto, dbVars, rowVars, sessionVars, TypeOK, ControlOK
  <2>9. SessionOK(w)'
    BY <1>9, Kinds DEF StartMpesaTask, SessionOK
  <2> QED
    BY <1>0, <2>1, <2>9
<1>10. ASSUME NEW w \in Tasks, StartPoll(w) PROVE SessionsOK'
  <2>1. Alone(w)
    BY <1>10 DEF StartPoll, Alone, Goto, dbVars, rowVars, sessionVars, TypeOK, ControlOK
  <2>2. /\ w \in Polls /\ pc[w] = "start" /\ pc'[w] \in {"fail", "sync"}
        /\ todo'[w] = SyncPayments
        /\ UNCHANGED <<mpesa, mpesaImage, lock, mine, confirming, cur>>
    BY <1>10 DEF StartPoll, Goto, ControlOK, TypeOK, dbVars, rowVars
  <2>3. CreditorOK(w) /\ PollOK(w)
    BY <2>2 DEF SessionsOK, SessionOK
  <2>4. SyncPayments \subseteq CsvRefs /\ SyncPayments \cap MpesaRefs = {}
    BY DEF SyncPayments, PaymentsAssumption
  <2>5. CreditorOK(w)' /\ PollOK(w)'
    BY <2>2, <2>3, <2>4 DEF CreditorOK, PollOK, Active, FirstPart, Untouched, Complete, Handling, Before
  <2>9. SessionOK(w)'
    BY <2>2, <2>5, Kinds DEF SessionOK
  <2> QED
    BY <1>0, <2>1, <2>9
<1>11. ASSUME NEW w \in Tasks, SelectUnmatched(w) PROVE SessionsOK'
  <2>1. Alone(w)
    BY <1>11 DEF SelectUnmatched, Alone, Goto, dbVars, rowVars, sessionVars, TypeOK, ControlOK
  <2>2. w \in Polls /\ pc[w] = "sync"
    BY <1>11, Kinds DEF SelectUnmatched, ControlOK, AtControl, Handling
  <2>3. /\ pc'[w] = "matching" /\ todo'[w] = {r \in MpesaRefs : mpesa[r] = NoTxn}
        /\ UNCHANGED <<mpesa, mpesaImage, lock, mine, confirming, cur>>
    BY <1>11 DEF SelectUnmatched, Goto, ControlOK, TypeOK, dbVars, rowVars
  <2>4. CreditorOK(w) /\ PollOK(w)
    BY <2>2 DEF SessionsOK, SessionOK
  <2>5. CreditorOK(w)' /\ PollOK(w)'
    BY <2>2, <2>3, <2>4 DEF CreditorOK, PollOK, Active, FirstPart, Untouched, Complete, Handling, Before
  <2>9. SessionOK(w)'
    BY <2>2, <2>5, Kinds DEF SessionOK
  <2> QED
    BY <1>0, <2>1, <2>9
<1>12. ASSUME NEW w \in Tasks, SyncRecord(w) PROVE SessionsOK'
  <2>1. Alone(w)
    BY <1>12 DEF SyncRecord, Alone, Goto, dbVars, rowVars, sessionVars, TypeOK, ControlOK
  <2> DEFINE r == Min(todo[w])
  <2>2. w \in Polls /\ pc[w] = "sync"
    BY <1>12, Kinds DEF SyncRecord, ControlOK, AtControl, Handling
  <2>3. CreditorOK(w) /\ PollOK(w)
    BY <2>2 DEF SessionsOK, SessionOK
  <2>4. r \in CsvRefs /\ r \notin MpesaRefs
    <3>1. todo[w] # {} /\ todo[w] \subseteq CsvRefs
      BY <1>12, <2>2 DEF SyncRecord, ControlOK, AtControl, FirstPart
    <3> QED
      BY <3>1, MinOfNats DEF PaymentsAssumption
  <2>5. /\ pc'[w] \in {"record", "sync"} /\ cur'[w] = r /\ todo'[w] = todo[w] \ {r}
        /\ UNCHANGED <<mpesa, mpesaImage, lock, mine, confirming>>
    BY <1>12 DEF SyncRecord, Goto, ControlOK, TypeOK, dbVars, rowVars
  <2> HIDE DEF r
  <2>6. CreditorOK(w)' /\ PollOK(w)'
    BY <2>2, <2>3, <2>4, <2>5 DEF CreditorOK, PollOK, Active, FirstPart, Untouched, Complete, Handling, Before
  <2>9. SessionOK(w)'
    BY <2>2, <2>6, Kinds DEF SessionOK
  <2> QED
    BY <1>0, <2>1, <2>9
<1>13. ASSUME NEW w \in Tasks, NEW r \in MpesaRefs, NextUnmatched(w, r) PROVE SessionsOK'
  <2>1. Alone(w)
    BY <1>13 DEF NextUnmatched, Alone, Goto, dbVars, rowVars, sessionVars, TypeOK, ControlOK
  <2>2. w \in Polls /\ pc[w] = "matching" /\ r \in todo[w]
    BY <1>13, Kinds DEF NextUnmatched, ControlOK, AtControl, Handling
  <2>3. /\ pc'[w] = "match" /\ cur'[w] = r /\ todo'[w] = todo[w] \ {r}
        /\ UNCHANGED <<mpesa, mpesaImage, lock, mine, confirming>>
    BY <1>13 DEF NextUnmatched, Goto, ControlOK, TypeOK, dbVars, rowVars
  <2>4. CreditorOK(w) /\ PollOK(w)
    BY <2>2 DEF SessionsOK, SessionOK
  <2>5. Untouched(w, r) /\ mpesa[r] = Before(w)
    BY <2>2, <2>4, Kinds DEF PollOK, Before
  <2>6. CreditorOK(w)' /\ PollOK(w)'
    BY <2>2, <2>3, <2>4, <2>5 DEF CreditorOK, PollOK, Active, FirstPart, Untouched, Complete, Handling, Before
  <2>9. SessionOK(w)'
    BY <2>2, <2>6, Kinds DEF SessionOK
  <2> QED
    BY <1>0, <2>1, <2>9
<1>14. ASSUME NEW w \in Tasks, ConfirmDuplicate(w) PROVE SessionsOK'
  <2>1. Alone(w)
    BY <1>14 DEF ConfirmDuplicate, Alone, Goto, dbVars, rowVars, sessionVars, TypeOK, ControlOK
  <2>9. SessionOK(w)'
    BY <1>14, Kinds DEF ConfirmDuplicate, SessionOK
  <2> QED
    BY <1>0, <2>1, <2>9
<1>15. ASSUME NEW w \in Tasks, LoadForStatus(w) PROVE SessionsOK'
  <2>1. Alone(w)
    BY <1>15 DEF LoadForStatus, Alone, Goto, dbVars, rowVars, sessionVars, TypeOK, ControlOK
  <2>9. SessionOK(w)'
    BY <1>15, Kinds DEF LoadForStatus, SessionOK, SessionsOK, StaffOK, rowVars
  <2> QED
    BY <1>0, <2>1, <2>9
<1>16. ASSUME NEW w \in Tasks, UpdateStatus(w) PROVE SessionsOK'
  <2>1. Alone(w)
    BY <1>16 DEF UpdateStatus, Alone, Goto, dbVars, rowVars, sessionVars, TypeOK, ControlOK, AtControl, UpdateTxn, Take, PaymentsAssumption
  <2>2. w \in Staff /\ tgt[w] \in Txns
    BY <1>16, Kinds DEF UpdateStatus, ControlOK, AtControl, Handling
  <2>3. \A x \in MpesaRefs : lock'[x] = lock[x]
    BY <1>16, <2>2 DEF UpdateStatus, UpdateTxn, Take, TypeOK, PaymentsAssumption
  <2>9. SessionOK(w)'
    BY <1>16, <2>2, <2>3, Kinds DEF UpdateStatus, SessionOK, SessionsOK, StaffOK, sessionVars
  <2> QED
    BY <1>0, <2>1, <2>9
<1>17. ASSUME UNCHANGED <<mpesa, rowVars, sessionVars, pc>> PROVE SessionsOK'
  <2>1. ASSUME NEW w \in Tasks, NEW r \in MpesaRefs
        PROVE  /\ Untouched(w, r)' <=> Untouched(w, r)
               /\ Noted(w, r)' <=> Noted(w, r)
               /\ Complete(w, r)' <=> Complete(w, r)
    BY <1>17 DEF rowVars, sessionVars, Untouched, Noted, Complete
  <2>2. ASSUME NEW w \in Tasks PROVE SessionOK(w)'
    <3>1. SessionOK(w)
      BY DEF SessionsOK
    <3>2. /\ CreditorOK(w) => CreditorOK(w)'
          /\ ServiceOK(w) => ServiceOK(w)'
          /\ PollOK(w) => PollOK(w)'
          /\ StaffOK(w) => StaffOK(w)'
      BY <1>17, <2>1
         DEF rowVars, sessionVars, CreditorOK, ServiceOK, PollOK, Active, FirstPart, StaffOK, Before
    <3> QED
      BY <3>1, <3>2 DEF SessionOK
  <2> QED
    BY <2>2 DEF SessionsOK
<1>18. ASSUME NEW t \in Txns, CreateTransaction(t) \/ UNCHANGED vars PROVE SessionsOK'
  BY <1>17, <1>18 DEF CreateTransaction, vars, dbVars
<1>19. ASSUME NEW w \in Tasks, EndPoll(w) PROVE SessionsOK'
  <2>1. w \notin MpesaTasks \cup Confirms
    BY <1>19 DEF EndPoll, ControlOK, AtControl, Handling
  <2> QED
    BY <1>1, <1>19, <2>1 DEF EndPoll
<1>20. ASSUME NEW w \in Tasks, CommitTask(w) PROVE SessionsOK'
  <2>1. w \notin MpesaTasks \cup Confirms
    BY <1>20 DEF CommitTask, ControlOK, AtControl, Handling
  <2> QED
    BY <1>1, <1>20, <2>1 DEF CommitTask
<1>21. ASSUME NEW w \in Tasks, ServiceStep(w) PROVE SessionsOK'
  BY <1>2, <1>3, <1>4, <1>5, <1>6, <1>7, <1>8, <1>9, <1>20, <1>21
     DEF ServiceStep, FailTask, RejectDuplicateRef
<1>22. ASSUME NEW w \in Tasks, PollStep(w) PROVE SessionsOK'
  BY <1>10, <1>11, <1>12, <1>13, <1>19, <1>22 DEF PollStep
<1>23. ASSUME NEW w \in Tasks, TaskStep(w) PROVE SessionsOK'
  BY <1>2, <1>14, <1>15, <1>16, <1>21, <1>22, <1>23
     DEF TaskStep, ConfirmStep, ConfirmFails, StaffStep, RejectStatus, DeadlockVictim
<1> QED
  BY <1>2, <1>17, <1>18, <1>23 DEF Next, Abort, vars, dbVars

-----------------------------------------------------------------------------
(* What is committed.                                                      *)

\* A commit credits the payments the session has completed, and no other.
LEMMA CommitCredit ==
  ASSUME PaymentsAssumption, CreditInvariant, NEW w \in Tasks, Commit(w),
         pc[w] \in {"commit", "matching"}, w \notin MpesaTasks,
         NEW r \in MpesaRefs
  PROVE  IF mpesa'[r] \in Txns
         THEN /\ r \in confirmed'
              /\ \E v \in Tasks : Of(payments', r) = {Record(v, mpesa'[r], r)}
              /\ Of(payments, r) \in {Of(payments', r), {}}
         ELSE r \notin confirmed' /\ Of(payments', r) = {} /\ Of(payments, r) = {}
<1> USE DEF CreditInvariant
<1>1. /\ mpesa'[r] = IF lock[r] = w THEN mpesaImage[r] ELSE mpesa[r]
      /\ payments' = payments \cup mine[w] /\ confirmed' = confirmed \cup confirming[w]
  BY DEF Commit, ViewMpesa, ViewPayments
<1>2. Of(payments', r) = Of(payments, r) \cup Of(mine[w], r)
  BY <1>1 DEF Of
<1>3. IF mpesa[r] \in Txns
      THEN r \in confirmed /\ \E v \in Tasks : Of(payments, r) = {Record(v, mpesa[r], r)}
      ELSE r \notin confirmed /\ Of(payments, r) = {}
  BY DEF CreditOK
<1>4. CASE w \in Services \cup Polls
  <2>1. CreditorOK(w)
    BY <1>4 DEF SessionsOK, SessionOK
  <2>2. Untouched(w, r) \/ Complete(w, r)
    BY <2>1 DEF CreditorOK
  <2>3. lock[r] = w => mpesa[r] \notin Txns
    BY <2>1 DEF CreditorOK, Before, PaymentsAssumption
  <2>4. CASE Untouched(w, r)
    <3>1. Of(payments', r) = Of(payments, r) /\ (r \in confirmed' <=> r \in confirmed)
      BY <1>1, <1>2, <2>4 DEF Untouched
    <3>2. lock[r] = w => mpesa'[r] \notin Txns
      BY <1>1, <2>4 DEF Untouched, PaymentsAssumption
    <3> QED
      BY <1>1, <1>3, <2>3, <3>1, <3>2
  <2>5. CASE Complete(w, r)
    <3>1. mpesa'[r] \in Txns /\ r \in confirmed'
      BY <1>1, <2>5 DEF Complete
    <3>2. Of(payments, r) = {}
      BY <1>3, <2>3, <2>5 DEF Complete
    <3>3. Of(payments', r) = {Record(w, mpesa'[r], r)}
      BY <1>1, <1>2, <2>5, <3>2 DEF Complete
    <3> QED
      BY <3>1, <3>2, <3>3
  <2> QED
    BY <2>2, <2>4, <2>5
<1>5. CASE w \in Staff
  <2>1. mine[w] = {} /\ confirming[w] = {} /\ lock[r] # w
    BY <1>5 DEF SessionsOK, SessionOK, StaffOK
  <2>2. Of(payments', r) = Of(payments, r)
    BY <1>2, <2>1 DEF Of
  <2> QED
    BY <1>1, <1>3, <2>1, <2>2
<1>6. w \notin Confirms
  BY DEF ControlOK, AtControl
<1> QED
  BY <1>4, <1>5, <1>6, Kinds

\* Nothing is credited outside a commit.
LEMMA CreditStep ==
  ASSUME PaymentsAssumption, CreditInvariant, [Next]_vars
  PROVE  /\ CreditOK'
         /\ \A r \in MpesaRefs : \/ Of(payments', r) = Of(payments, r)
                                 \/ /\ Of(payments, r) = {}
                                    /\ \E w \in Tasks, t \in Txns : Of(payments', r) = {Record(w, t, r)}
<1> DEFINE Good == /\ CreditOK'
                   /\ \A r \in MpesaRefs :
                        \/ Of(payments', r) = Of(payments, r)
                        \/ /\ Of(payments, r) = {}
                           /\ \E w \in Tasks, t \in Txns : Of(payments', r) = {Record(w, t, r)}
<1>1. ASSUME UNCHANGED <<mpesa, payments, confirmed>> PROVE Good
  BY <1>1 DEF CreditInvariant, CreditOK
<1>2. ASSUME NEW w \in Tasks, Commit(w), pc[w] \in {"commit", "matching"}, w \notin MpesaTasks
      PROVE  Good
  BY <1>2, CommitCredit DEF CreditOK
<1> HIDE DEF Good
<1>3. ASSUME NEW w \in Tasks, ServiceStep(w) PROVE Good
  BY <1>1, <1>2, <1>3
     DEF ServiceStep, StartService, InsertMpesa, RejectDuplicateRef, FindMatch, CheckExisting,
         RecordPayment, Link, CommitTask, FailTask, StartMpesaTask, RollBack, dbVars
<1>4. ASSUME NEW w \in Tasks, PollStep(w) PROVE Good
  <2>1. pc[w] = "matching" => w \notin MpesaTasks
    BY DEF CreditInvariant, ControlOK, AtControl, Handling
  <2> QED
    BY <1>1, <1>2, <1>4, <2>1
       DEF PollStep, StartPoll, SelectUnmatched, EndPoll, SyncRecord, NextUnmatched, dbVars
<1>5. ASSUME NEW w \in Tasks, TaskStep(w) PROVE Good
  BY <1>1, <1>3, <1>4, <1>5
     DEF TaskStep, ConfirmStep, ConfirmDuplicate, ConfirmFails, StaffStep, LoadForStatus,
         UpdateStatus, RejectStatus, DeadlockVictim, RollBack, dbVars
<1>6. Good
  BY <1>1, <1>5 DEF Next, Abort, CreateTransaction, RollBack, dbVars, vars
<1> QED
  BY <1>6 DEF Good

-----------------------------------------------------------------------------
(* Where the money shown comes from: what sets of payments bring.          *)

\* What payments bring, as a sum of SumProofs.
LEMMA BroughtIsSum ==
  ASSUME NEW S, NEW t
  PROVE  Brought(S, t) = SumOf(AmountOf, {p \in S : p.txn = t})
  BY DEF Brought, SumOf

\* More payments bring no less.
LEMMA BroughtGrows ==
  ASSUME PaymentsAssumption, NEW T \in SUBSET Payment, IsFiniteSet(T), NEW S \in SUBSET T, NEW t
  PROVE  /\ Brought(S, t) \in Nat /\ Brought(T, t) \in Nat
         /\ Brought(S, t) <= Brought(T, t)
<1> DEFINE part == {p \in S : p.txn = t}
           whole == {p \in T : p.txn = t}
<1>1. IsFiniteSet(whole) /\ IsFiniteSet(part) /\ part \in SUBSET whole
  BY FS_Subset
<1>2. \A p \in whole : AmountOf[p] \in Nat
  BY DEF AmountOf, Payment, PaymentsAssumption
<1>3. Brought(S, t) = SumOf(AmountOf, part) /\ Brought(T, t) = SumOf(AmountOf, whole)
  BY BroughtIsSum
<1> HIDE DEF part, whole
<1>4. SumOf(AmountOf, whole) \in Nat /\ SumOf(AmountOf, part) \in Nat
  BY <1>1, <1>2, SumType
<1>5. SumOf(AmountOf, part) <= SumOf(AmountOf, whole)
  BY <1>1, <1>2, SumOfPart
<1> QED
  BY <1>3, <1>4, <1>5

\* A payment adds its amount, once.
LEMMA BroughtByOne ==
  ASSUME PaymentsAssumption, NEW S \in SUBSET Payment, IsFiniteSet(S),
         NEW p \in Payment, p \notin S, NEW t, p.txn = t
  PROVE  Brought(S \cup {p}, t) = Brought(S, t) + Amount[p.ref]
<1> DEFINE part == {q \in S : q.txn = t}
<1>1. {q \in S \cup {p} : q.txn = t} = part \cup {p}
  OBVIOUS
<1>2. IsFiniteSet(part) /\ p \notin part
  BY FS_Subset
<1>3. \A q \in part \cup {p} : AmountOf[q] \in Nat
  BY DEF AmountOf, Payment, PaymentsAssumption
<1>4. Brought(S, t) = SumOf(AmountOf, part) /\ Brought(S \cup {p}, t) = SumOf(AmountOf, part \cup {p})
  BY <1>1, BroughtIsSum
<1>5. AmountOf[p] = Amount[p.ref]
  BY DEF AmountOf
<1> HIDE DEF part
<1>6. SumOf(AmountOf, part \cup {p}) = SumOf(AmountOf, part) + AmountOf[p]
  BY <1>2, <1>3, SumWith
<1> QED
  BY <1>4, <1>5, <1>6

-----------------------------------------------------------------------------
(* Where the money shown comes from: sessions.                             *)

\* A step of w leaves the others what they have in hand.
OwnStep(w) ==
    \A v \in Tasks \ {w} :
        /\ pc'[v] = pc[v] /\ todo'[v] = todo[v] /\ cur'[v] = cur[v] /\ mine'[v] = mine[v]
        /\ tgt'[v] = tgt[v] /\ loaded'[v] = loaded[v]

\* A step of one session leaves the others with what they have recorded.
LEMMA FreshMove ==
  ASSUME NEW apart \in BOOLEAN, MoneyInvariant(apart), NEW w \in Tasks, OwnStep(w), FreshOK(w)',
         UNCHANGED payments, pc[w] # "done" \/ pc'[w] = "done"
  PROVE  (\A v \in Tasks : FreshOK(v)') /\ CommittedOK'
<1>1. ASSUME NEW v \in Tasks \ {w} PROVE FreshOK(v)'
  <2>1. FreshOK(v)
    BY DEF MoneyInvariant
  <2> QED
    BY <2>1 DEF OwnStep, FreshOK, FirstPart
<1>2. \A p \in payments : p.by \in Tasks
  BY DEF MoneyInvariant, TypeOK, Payment
<1>3. CommittedOK'
  BY <1>2 DEF MoneyInvariant, CommittedOK, OwnStep
<1> QED
  BY <1>1, <1>3

\* A session that ends has nothing left to record.
LEMMA ForgetFresh ==
  ASSUME TypeOK, ControlOK, NEW w \in Tasks, Forget(w)
  PROVE  FreshOK(w)' /\ OwnStep(w) /\ pc'[w] = "done"
<1>1. pc'[w] = "done" /\ mine'[w] = {} /\ todo'[w] = {}
  BY DEF Forget, Goto, TypeOK, ControlOK
<1>2. FreshOK(w)'
  BY <1>1, FS_EmptySet DEF FreshOK, Handling, FirstPart
<1>3. OwnStep(w)
  BY DEF OwnStep, Forget, Goto, TypeOK, ControlOK
<1> QED
  BY <1>1, <1>2, <1>3

\* Only a commit adds payments, those of a session that ends.
LEMMA CommitFresh ==
  ASSUME NEW apart \in BOOLEAN, MoneyInvariant(apart), NEW w \in Tasks, Commit(w)
  PROVE  (\A v \in Tasks : FreshOK(v)') /\ CommittedOK'
<1> USE DEF MoneyInvariant
<1>1. FreshOK(w)' /\ OwnStep(w) /\ pc'[w] = "done"
  BY ForgetFresh DEF Commit
<1>2. ASSUME NEW v \in Tasks \ {w} PROVE FreshOK(v)'
  <2>1. FreshOK(v)
    OBVIOUS
  <2> QED
    BY <1>1, <2>1 DEF OwnStep, FreshOK, FirstPart
<1>3. payments' = payments \cup mine[w]
  BY DEF Commit, ViewPayments
<1>4. IsFiniteSet(payments) /\ IsFiniteSet(mine[w]) /\ \A p \in mine[w] : p.by = w
  BY DEF CommittedOK, FreshOK
<1>5. IsFiniteSet(payments')
  BY <1>3, <1>4, FS_Union
<1>6. \A p \in payments : p.by \in Tasks /\ pc[p.by] = "done"
  BY DEF TypeOK, Payment, CommittedOK
<1>7. \A p \in payments' : pc'[p.by] = "done"
  BY <1>1, <1>3, <1>4, <1>6 DEF OwnStep
<1> QED
  BY <1>1, <1>2, <1>5, <1>7 DEF CommittedOK

\* Each step records what was not recorded, and commits when it ends.
LEMMA FreshStep ==
  ASSUME NEW apart \in BOOLEAN, PaymentsAssumption, MoneyInvariant(apart), [Next]_vars
  PROVE  (\A w \in Tasks : FreshOK(w)') /\ CommittedOK'
<1> DEFINE Good == (\A v \in Tasks : FreshOK(v)') /\ CommittedOK'
<1> USE DEF MoneyInvariant
<1>1. ASSUME NEW w \in Tasks, Commit(w) PROVE Good
  BY <1>1, CommitFresh
<1>2. ASSUME NEW w \in Tasks, RollBack(w) PROVE Good
  <2>1. UNCHANGED payments
    BY <1>2 DEF RollBack, dbVars
  <2> QED
    BY <1>2, <2>1, ForgetFresh, FreshMove DEF RollBack
<1>3. ASSUME NEW w \in Tasks, OwnStep(w), UNCHANGED payments, pc[w] # "done",
             mine'[w] = mine[w], todo'[w] \subseteq todo[w],
             pc'[w] # "start",
             w \notin Polls /\ pc'[w] \in {"insert", "match", "check", "record"} =>
                 pc[w] \in {"start", "insert", "match", "check"},
             pc'[w] \in Handling =>
                 /\ cur'[w] \notin todo'[w]
                 /\ pc'[w] # "link" => \A p \in mine[w] : p.ref # cur'[w],
             FirstPart(w)' => FirstPart(w)
      PROVE  Good
  <2>1. FreshOK(w)
    OBVIOUS
  <2>2. FreshOK(w)'
    BY <1>3, <2>1 DEF FreshOK
  <2> QED
    BY <1>3, <2>2, FreshMove
<1>4. ASSUME NEW w \in Tasks, StartService(w) PROVE Good
  <2>1. OwnStep(w) /\ UNCHANGED <<payments, mine, todo, cur>>
    BY <1>4 DEF StartService, OwnStep, Goto, dbVars, sessionVars, ControlOK
  <2>2. pc[w] = "start" /\ pc'[w] \in {"done", "insert"}
    BY <1>4 DEF StartService, Goto, ControlOK
  <2> QED
    BY <2>1, <2>2, <1>3 DEF Handling, FirstPart
<1>5. ASSUME NEW w \in Tasks, InsertMpesa(w) PROVE Good
  <2>1. OwnStep(w) /\ UNCHANGED <<payments, mine, todo>>
    BY <1>5 DEF InsertMpesa, OwnStep, Goto, dbVars, TypeOK, ControlOK
  <2>2. pc[w] = "insert" /\ pc'[w] = "match" /\ cur'[w] = Item[w]
    BY <1>5 DEF InsertMpesa, Goto, TypeOK, ControlOK
  <2>3. w \in Services /\ todo[w] = {} /\ mine[w] = {}
    BY <2>2, Kinds DEF ControlOK, AtControl, FreshOK, Handling, Services
  <2> QED
    BY <2>1, <2>2, <2>3, <1>3 DEF Handling, FirstPart
<1>6. ASSUME NEW w \in Tasks, FindMatch(w) PROVE Good
  <2>1. OwnStep(w) /\ UNCHANGED <<payments, mine, todo, cur>>
    BY <1>6 DEF FindMatch, OwnStep, Goto, dbVars, TypeOK, ControlOK
  <2>2. pc[w] = "match" /\ pc'[w] \in {"check", NextItem(w)}
    BY <1>6 DEF FindMatch, Goto, ControlOK
  <2>3. FreshOK(w)
    OBVIOUS
  <2> QED
    BY <2>1, <2>2, <2>3, <1>3 DEF FreshOK, Handling, FirstPart, NextItem
<1>7. ASSUME NEW w \in Tasks, CheckExisting(w) PROVE Good
  <2>1. OwnStep(w) /\ UNCHANGED <<payments, mine, todo, cur>>
    BY <1>7 DEF CheckExisting, OwnStep, Goto, dbVars, sessionVars, ControlOK
  <2>2. pc[w] = "check" /\ pc'[w] \in {"link", "record"}
    BY <1>7 DEF CheckExisting, Goto, ControlOK
  <2>3. FreshOK(w) /\ cur[w] \notin CsvRefs
    BY <2>2 DEF ControlOK, AtControl, PaymentsAssumption
  <2> QED
    BY <2>1, <2>2, <2>3, <1>3 DEF FreshOK, Handling, FirstPart
<1>8. ASSUME NEW w \in Tasks, RecordPayment(w) PROVE Good
  <2> DEFINE p == [txn |-> tgt[w], ref |-> cur[w], by |-> w]
  <2>1. OwnStep(w) /\ UNCHANGED <<payments, todo, cur>> /\ mine'[w] = mine[w] \cup {p}
    BY <1>8 DEF RecordPayment, OwnStep, Goto, dbVars, TypeOK, ControlOK
  <2>2. pc[w] = "record" /\ pc'[w] = IF cur[w] \in CsvRefs THEN "sync" ELSE "link"
    BY <1>8 DEF RecordPayment, Goto, ControlOK
  <2>3. FreshOK(w) /\ AtControl(w)
    BY DEF ControlOK
  <2>4. IsFiniteSet(mine'[w])
    <3>1. IsFiniteSet(mine[w])
      BY <2>3 DEF FreshOK
    <3> HIDE DEF p
    <3>2. IsFiniteSet(mine[w] \cup {p})
      BY <3>1, FS_AddElement
    <3> QED
      BY <2>1, <3>2
  <2>5. \A q \in mine'[w] : q.by = w /\ q.ref \notin todo[w] /\ (FirstPart(w)' => q.ref \in CsvRefs)
    BY <2>1, <2>2, <2>3 DEF FreshOK, Handling, FirstPart
  <2>6. w \notin Polls => pc'[w] = "link"
    BY <2>2, <2>3 DEF AtControl
  <2>7. FreshOK(w)'
    BY <2>1, <2>2, <2>3, <2>4, <2>5, <2>6 DEF FreshOK, Handling
  <2> QED
    BY <2>1, <2>2, <2>7, FreshMove
<1>9. ASSUME NEW w \in Tasks, Link(w) PROVE Good
  <2>1. OwnStep(w) /\ UNCHANGED <<payments, mine, todo, cur>>
    BY <1>9 DEF Link, OwnStep, Goto, dbVars, TypeOK, ControlOK
  <2>2. pc[w] = "link" /\ pc'[w] \in {"fail", "matching", "commit"}
    BY <1>9 DEF Link, Goto, ControlOK, NextItem
  <2> QED
    BY <2>1, <2>2, <1>3 DEF Handling, FirstPart
<1>10. ASSUME NEW w \in Tasks, StartMpesaTask(w) PROVE Good
  <2>1. OwnStep(w) /\ UNCHANGED <<payments, mine, todo>>
    BY <1>10 DEF StartMpesaTask, OwnStep, Goto, dbVars, TypeOK, ControlOK
  <2>2. pc[w] = "start" /\ pc'[w] \in {"match", "done"}
    BY <1>10 DEF StartMpesaTask, Goto, ControlOK
  <2>3. mine[w] = {} /\ todo[w] = {} /\ w \notin Polls
    BY <1>10, <2>2, Kinds DEF StartMpesaTask, FreshOK
  <2> QED
    BY <2>1, <2>2, <2>3, <1>3 DEF Handling, FirstPart
<1>11. ASSUME NEW w \in Tasks, StartPoll(w) PROVE Good
  <2>1. OwnStep(w) /\ UNCHANGED <<payments, mine>>
    BY <1>11 DEF StartPoll, OwnStep, Goto, dbVars, TypeOK, ControlOK
  <2>2. pc[w] = "start" /\ pc'[w] \in {"fail", "sync"} /\ mine[w] = {} /\ w \in Polls
    BY <1>11 DEF StartPoll, Goto, ControlOK, FreshOK
  <2>3. FreshOK(w)'
    BY <2>1, <2>2, FS_EmptySet DEF FreshOK, Handling
  <2> QED
    BY <2>1, <2>2, <2>3, FreshMove
<1>12. ASSUME NEW w \in Tasks, SelectUnmatched(w) PROVE Good
  <2>1. OwnStep(w) /\ UNCHANGED <<payments, mine>>
    BY <1>12 DEF SelectUnmatched, OwnStep, Goto, dbVars, TypeOK, ControlOK
  <2>2. /\ pc[w] = "sync" /\ pc'[w] = "matching"
        /\ todo'[w] \subseteq MpesaRefs
    BY <1>12 DEF SelectUnmatched, Goto, ControlOK, TypeOK
  <2>3. FreshOK(w) /\ w \in Polls
    BY <2>2, Kinds DEF ControlOK, AtControl, Handling
  <2>4. \A p \in mine[w] : p.ref \notin MpesaRefs
    BY <2>2, <2>3 DEF FreshOK, FirstPart, PaymentsAssumption
  <2>5. FreshOK(w)'
    BY <2>1, <2>2, <2>3, <2>4 DEF FreshOK, Handling, FirstPart
  <2> QED
    BY <2>1, <2>2, <2>5, FreshMove
<1>13. ASSUME NEW w \in Tasks, SyncRecord(w) PROVE Good
  <2> DEFINE r == Min(todo[w])
  <2>1. OwnStep(w) /\ UNCHANGED <<payments, mine>>
    BY <1>13 DEF SyncRecord, OwnStep, Goto, dbVars, TypeOK, ControlOK
  <2>2. /\ pc[w] = "sync" /\ pc'[w] \in {"record", "sync"}
        /\ todo'[w] = todo[w] \ {r} /\ cur'[w] = r /\ todo[w] # {}
    BY <1>13 DEF SyncRecord, Goto, ControlOK, TypeOK
  <2>3. FreshOK(w) /\ w \in Polls
    BY <2>2, Kinds DEF ControlOK, AtControl, Handling
  <2>4. todo[w] \subseteq CsvRefs
    BY <2>2, <2>3 DEF ControlOK, AtControl, FirstPart
  <2>5. r \in todo[w]
    BY <2>2, <2>4, MinOfNats DEF PaymentsAssumption
  <2> HIDE DEF r
  <2>6. \A p \in mine[w] : p.ref # cur'[w]
    BY <2>2, <2>3, <2>5 DEF FreshOK
  <2>7. FirstPart(w)
    BY <2>2 DEF FirstPart
  <2> QED
    BY <2>1, <2>2, <2>3, <2>6, <2>7, <1>3 DEF Handling
<1>14. ASSUME NEW w \in Tasks, NEW r \in MpesaRefs, NextUnmatched(w, r) PROVE Good
  <2>1. OwnStep(w) /\ UNCHANGED <<payments, mine>>
    BY <1>14 DEF NextUnmatched, OwnStep, Goto, dbVars, TypeOK, ControlOK
  <2>2. /\ pc[w] = "matching" /\ pc'[w] = "match"
        /\ todo'[w] = todo[w] \ {r} /\ cur'[w] = r /\ r \in todo[w]
    BY <1>14 DEF NextUnmatched, Goto, ControlOK, TypeOK
  <2>3. FreshOK(w) /\ w \in Polls
    BY <2>2, Kinds DEF ControlOK, AtControl, Handling
  <2>4. \A p \in mine[w] : p.ref # r
    BY <2>2, <2>3 DEF FreshOK
  <2> QED
    BY <2>1, <2>2, <2>3, <2>4, <1>3 DEF Handling, FirstPart
<1>15. ASSUME NEW w \in Tasks, ConfirmDuplicate(w) PROVE Good
  <2>1. OwnStep(w) /\ UNCHANGED <<payments, mine, todo>> /\ pc[w] = "start" /\ pc'[w] = "done"
    BY <1>15 DEF ConfirmDuplicate, OwnStep, Goto, dbVars, sessionVars, ControlOK
  <2> QED
    BY <2>1, <1>3 DEF Handling, FirstPart
<1>16. ASSUME NEW w \in Tasks, LoadForStatus(w) PROVE Good
  <2>1. OwnStep(w) /\ UNCHANGED <<payments, mine, todo>> /\ pc[w] = "start" /\ pc'[w] = "update"
    BY <1>16 DEF LoadForStatus, OwnStep, Goto, dbVars, TypeOK, ControlOK
  <2> QED
    BY <2>1, <1>3 DEF Handling, FirstPart
<1>17. ASSUME NEW w \in Tasks, UpdateStatus(w) PROVE Good
  <2>1. OwnStep(w) /\ UNCHANGED <<payments, mine, todo>> /\ pc[w] = "update" /\ pc'[w] = "commit"
    BY <1>17 DEF UpdateStatus, OwnStep, Goto, dbVars, sessionVars, ControlOK
  <2> QED
    BY <2>1, <1>3 DEF Handling, FirstPart
<1>18. ASSUME UNCHANGED <<payments, pc, mine, todo, cur>> PROVE Good
  BY <1>18 DEF FreshOK, FirstPart, CommittedOK
<1> HIDE DEF Good
<1>19. ASSUME NEW w \in Tasks, ServiceStep(w) PROVE Good
  BY <1>1, <1>2, <1>4, <1>5, <1>6, <1>7, <1>8, <1>9, <1>10, <1>19
     DEF ServiceStep, CommitTask, FailTask, RejectDuplicateRef
<1>20. ASSUME NEW w \in Tasks, PollStep(w) PROVE Good
  BY <1>1, <1>11, <1>12, <1>13, <1>14, <1>20 DEF PollStep, EndPoll
<1>21. ASSUME NEW w \in Tasks, TaskStep(w) PROVE Good
  BY <1>2, <1>15, <1>16, <1>17, <1>19, <1>20, <1>21
     DEF TaskStep, ConfirmStep, ConfirmFails, StaffStep, RejectStatus, DeadlockVictim
<1>22. Good
  BY <1>2, <1>18, <1>21 DEF Next, Abort, CreateTransaction, vars, dbVars, sessionVars
<1> QED
  BY <1>22 DEF Good

-----------------------------------------------------------------------------
(* Where the money shown comes from: rows.                                 *)

\* Covered, of the state after the step.
MarkedNext(apart, t, row) ==
    /\ \E w \in Staff : pc'[w] \notin {"start", "update"}
    /\ row.paid = Due[t]
    /\ apart => row.status = "PAID"

CoveredNext(apart, t, row, S) == row.paid <= Brought(S, t) \/ MarkedNext(apart, t, row)

\* Staff that has got past its update does not come back to it.
StaffGoesOn ==
    \A w \in Staff : pc[w] \notin {"start", "update"} => pc'[w] \notin {"start", "update"}

\* More payments cover what fewer did.
LEMMA CoveredStays ==
  ASSUME NEW apart \in BOOLEAN, PaymentsAssumption, StaffGoesOn, NEW t, NEW row, row.paid \in Nat,
         NEW T \in SUBSET Payment, IsFiniteSet(T), NEW S \in SUBSET T,
         Covered(apart, t, row, S)
  PROVE  CoveredNext(apart, t, row, T)
<1>1. Marked(apart, t, row) => MarkedNext(apart, t, row)
  BY DEF Marked, MarkedNext, StaffGoesOn
<1>2. Brought(S, t) \in Nat /\ Brought(T, t) \in Nat /\ Brought(S, t) <= Brought(T, t)
  BY BroughtGrows
<1> QED
  BY <1>1, <1>2 DEF Covered, CoveredNext

\* CoveredOK of the next state, spelt out.
LEMMA CoveredAfter ==
  ASSUME NEW apart \in BOOLEAN, \A t \in Txns : CoveredNext(apart, t, txn'[t], payments'),
         \A t \in Txns, w \in Tasks :
            lock'[t] = w => CoveredNext(apart, t, image'[t], payments' \cup mine'[w]),
         \A w \in Tasks : pc'[w] \in {"check", "record"} =>
            CoveredNext(apart, tgt'[w], loaded'[w], payments' \cup mine'[w])
  PROVE  CoveredOK(apart)'
  BY DEF CoveredOK, Covered, Marked, CoveredNext, MarkedNext, ViewPayments

\* What a session sees of the payments.
LEMMA Views ==
  ASSUME NEW apart \in BOOLEAN, MoneyInvariant(apart), NEW w \in Tasks
  PROVE  /\ ViewPayments(w) \in SUBSET Payment /\ IsFiniteSet(ViewPayments(w))
         /\ payments \in SUBSET ViewPayments(w)
<1>1. IsFiniteSet(payments) /\ IsFiniteSet(mine[w])
  BY DEF MoneyInvariant, FreshOK, CommittedOK
<1>2. IsFiniteSet(payments \cup mine[w])
  BY <1>1, FS_Union
<1> QED
  BY <1>2 DEF ViewPayments, MoneyInvariant, TypeOK

\* What a session sees of a row is covered by what it sees of the payments.
LEMMA ViewCovered ==
  ASSUME NEW apart \in BOOLEAN, PaymentsAssumption, MoneyInvariant(apart), NEW w \in Tasks, NEW t \in Txns
  PROVE  Covered(apart, t, ViewTxn(w, t), ViewPayments(w))
<1>1. CASE lock[t] = w
  BY <1>1 DEF ViewTxn, MoneyInvariant, CoveredOK
<1>2. CASE lock[t] # w
  <2>1. Covered(apart, t, txn[t], payments) /\ txn[t].paid \in Nat
    BY DEF MoneyInvariant, CoveredOK, TypeOK, Transaction
  <2>2. /\ Brought(payments, t) \in Nat /\ Brought(ViewPayments(w), t) \in Nat
        /\ Brought(payments, t) <= Brought(ViewPayments(w), t)
    BY Views, BroughtGrows
  <2> QED
    BY <1>2, <2>1, <2>2 DEF ViewTxn, Covered
<1> QED
  BY <1>1, <1>2

\* A step of w: the committed rows and those under the locks of others stay as
\* they were, no payment goes, and what w itself holds is covered.
LEMMA CoveredMove ==
  ASSUME NEW apart \in BOOLEAN, PaymentsAssumption, MoneyInvariant(apart), TypeOK',
         \A v \in Tasks : FreshOK(v)', CommittedOK', StaffGoesOn,
         NEW w \in Tasks, OwnStep(w), payments \subseteq payments',
         \A t \in Txns : txn'[t] = txn[t] \/ CoveredNext(apart, t, txn'[t], payments'),
         \A t \in Txns, v \in Tasks \ {w} :
            lock'[t] = v => lock[t] = v /\ image'[t] = image[t],
         \A t \in Txns :
            lock'[t] = w => CoveredNext(apart, t, image'[t], payments' \cup mine'[w]),
         pc'[w] \in {"check", "record"} =>
            CoveredNext(apart, tgt'[w], loaded'[w], payments' \cup mine'[w])
  PROVE  CoveredOK(apart)'
<1>1. /\ IsFiniteSet(payments') /\ payments' \in SUBSET Payment
      /\ \A v \in Tasks : IsFiniteSet(mine'[v]) /\ mine'[v] \in SUBSET Payment
  BY DEF CommittedOK, FreshOK, TypeOK
<1>2. \A v \in Tasks : IsFiniteSet(payments' \cup mine'[v])
  BY <1>1, FS_Union
<1>3. ASSUME NEW t \in Txns PROVE CoveredNext(apart, t, txn'[t], payments')
  <2>1. Covered(apart, t, txn[t], payments) /\ txn[t].paid \in Nat
    BY DEF MoneyInvariant, CoveredOK, TypeOK, Transaction
  <2>2. CoveredNext(apart, t, txn[t], payments')
    BY <1>1, <2>1, CoveredStays
  <2> QED
    BY <2>2
<1>4. ASSUME NEW t \in Txns, NEW v \in Tasks, lock'[t] = v
      PROVE  CoveredNext(apart, t, image'[t], payments' \cup mine'[v])
  <2>1. CASE v = w
    BY <1>4, <2>1
  <2>2. CASE v # w
    <3>1. lock[t] = v /\ image'[t] = image[t] /\ mine'[v] = mine[v]
      BY <1>4, <2>2 DEF OwnStep
    <3>2. Covered(apart, t, image[t], payments \cup mine[v]) /\ image[t].paid \in Nat
      <4>1. image[t] \in Transaction
        BY DEF MoneyInvariant, TypeOK
      <4>2. Covered(apart, t, image[t], ViewPayments(v))
        BY <3>1 DEF MoneyInvariant, CoveredOK
      <4> QED
        BY <4>1, <4>2 DEF ViewPayments, Transaction
    <3>3. /\ payments' \cup mine'[v] \in SUBSET Payment
          /\ payments \cup mine[v] \in SUBSET (payments' \cup mine'[v])
      BY <1>1, <3>1
    <3>4. CoveredNext(apart, t, image[t], payments' \cup mine'[v])
      BY <1>2, <3>2, <3>3, CoveredStays
    <3> QED
      BY <3>1, <3>4
  <2> QED
    BY <2>1, <2>2
<1>5. ASSUME NEW v \in Tasks, pc'[v] \in {"check", "record"}
      PROVE  CoveredNext(apart, tgt'[v], loaded'[v], payments' \cup mine'[v])
  <2>1. CASE v = w
    BY <1>5, <2>1
  <2>2. CASE v # w
    <3>1. /\ pc[v] \in {"check", "record"} /\ mine'[v] = mine[v]
          /\ tgt'[v] = tgt[v] /\ loaded'[v] = loaded[v]
      BY <1>5, <2>2 DEF OwnStep
    <3>2. Covered(apart, tgt[v], loaded[v], payments \cup mine[v]) /\ loaded[v].paid \in Nat
      BY <3>1 DEF MoneyInvariant, CoveredOK, ViewPayments, TypeOK, Transaction
    <3>3. /\ payments' \cup mine'[v] \in SUBSET Payment
          /\ payments \cup mine[v] \in SUBSET (payments' \cup mine'[v])
      BY <1>1, <3>1
    <3>4. CoveredNext(apart, tgt[v], loaded[v], payments' \cup mine'[v])
      BY <1>2, <3>2, <3>3, CoveredStays
    <3> QED
      BY <3>1, <3>4
  <2> QED
    BY <2>1, <2>2
<1> QED
  BY <1>3, <1>4, <1>5, CoveredAfter

\* A step that writes no row of a transaction and no payment, and may load one.
Reads(w) ==
    /\ OwnStep(w) /\ UNCHANGED <<txn, payments, image>> /\ mine'[w] = mine[w]
    /\ \A t \in Txns : lock'[t] = lock[t]
    /\ pc'[w] \in {"check", "record"} =>
          \/ pc[w] = "check" /\ tgt'[w] = tgt[w] /\ loaded'[w] = loaded[w]
          \/ tgt'[w] \in Txns /\ loaded'[w] = ViewTxn(w, tgt'[w])

\* Loading a row that is covered gives a copy that is covered.
LEMMA ReadsCovered ==
  ASSUME NEW apart \in BOOLEAN, PaymentsAssumption, MoneyInvariant(apart), TypeOK',
         \A v \in Tasks : FreshOK(v)', CommittedOK', StaffGoesOn,
         NEW w \in Tasks, Reads(w)
  PROVE  CoveredOK(apart)'
<1>1. /\ ViewPayments(w) \in SUBSET Payment /\ IsFiniteSet(ViewPayments(w))
      /\ ViewPayments(w) = payments' \cup mine'[w]
  BY Views DEF ViewPayments, Reads
<1>2. ASSUME NEW t \in Txns, lock'[t] = w
      PROVE  CoveredNext(apart, t, image'[t], payments' \cup mine'[w])
  <2>1. image'[t] = image[t] /\ lock[t] = w
    BY <1>2 DEF Reads
  <2>2. image[t] \in Transaction
    BY DEF MoneyInvariant, TypeOK
  <2>3. Covered(apart, t, image[t], ViewPayments(w)) /\ image[t].paid \in Nat
    BY <2>1, <2>2 DEF MoneyInvariant, CoveredOK, Transaction
  <2>4. CoveredNext(apart, t, image[t], ViewPayments(w))
    BY <1>1, <2>3, CoveredStays
  <2> QED
    BY <1>1, <2>1, <2>4
<1>3. ASSUME pc'[w] \in {"check", "record"}
      PROVE  CoveredNext(apart, tgt'[w], loaded'[w], payments' \cup mine'[w])
  <2>1. PICK t \in Txns \cup {NoTxn} : t = tgt'[w]
    BY DEF TypeOK
  <2>2. PICK row \in Transaction : row = loaded'[w]
    BY DEF TypeOK
  <2>3. Covered(apart, t, row, ViewPayments(w))
    <3>1. CASE pc[w] = "check" /\ tgt'[w] = tgt[w] /\ loaded'[w] = loaded[w]
      BY <2>1, <2>2, <3>1 DEF MoneyInvariant, CoveredOK
    <3>2. CASE tgt'[w] \in Txns /\ loaded'[w] = ViewTxn(w, tgt'[w])
      BY <2>1, <2>2, <3>2, ViewCovered
    <3> QED
      BY <1>3, <3>1, <3>2 DEF Reads
  <2>4. CoveredNext(apart, t, row, ViewPayments(w))
    BY <1>1, <2>3, CoveredStays DEF Transaction
  <2> QED
    BY <1>1, <2>1, <2>2, <2>4
<1>4. /\ OwnStep(w) /\ payments \subseteq payments' /\ \A t \in Txns : txn'[t] = txn[t]
      /\ \A t \in Txns, v \in Tasks \ {w} : lock'[t] = v => lock[t] = v /\ image'[t] = image[t]
  BY DEF Reads
<1> QED
  BY <1>2, <1>3, <1>4, CoveredMove

\* A session that ends has committed what it held, or gives it up.
LEMMA CommitCovered ==
  ASSUME NEW apart \in BOOLEAN, PaymentsAssumption, MoneyInvariant(apart), TypeOK',
         \A v \in Tasks : FreshOK(v)', CommittedOK', StaffGoesOn,
         NEW w \in Tasks, Commit(w)
  PROVE  CoveredOK(apart)'
<1> USE DEF MoneyInvariant
<1>1. FreshOK(w)' /\ OwnStep(w) /\ pc'[w] = "done"
  BY ForgetFresh DEF Commit
<1>2. /\ payments' = ViewPayments(w) /\ payments' \in SUBSET Payment /\ IsFiniteSet(payments')
      /\ payments \subseteq payments'
  BY Views DEF Commit
<1>3. ASSUME NEW t \in Txns PROVE CoveredNext(apart, t, txn'[t], payments')
  <2>1. PICK row \in Transaction : row = ViewTxn(w, t)
    BY DEF ViewTxn, TypeOK
  <2>2. Covered(apart, t, row, ViewPayments(w)) /\ row.paid \in Nat
    BY <2>1, ViewCovered DEF Transaction
  <2>3. CoveredNext(apart, t, row, ViewPayments(w))
    BY <1>2, <2>2, CoveredStays
  <2>4. txn'[t] = row
    BY <2>1 DEF Commit
  <2> QED
    BY <1>2, <2>3, <2>4
<1>4. \A t \in Txns : lock'[t] # w /\ \A v \in Tasks : lock'[t] = v => lock[t] = v
  BY PaymentsAssumption DEF Commit, Free, TypeOK
<1>5. UNCHANGED image
  BY DEF Commit
<1> QED
  BY <1>1, <1>2, <1>3, <1>4, <1>5, CoveredMove

\* A rollback leaves the committed rows.
LEMMA RollBackCovered ==
  ASSUME NEW apart \in BOOLEAN, PaymentsAssumption, MoneyInvariant(apart), TypeOK',
         \A v \in Tasks : FreshOK(v)', CommittedOK', StaffGoesOn,
         NEW w \in Tasks, RollBack(w)
  PROVE  CoveredOK(apart)'
<1> USE DEF MoneyInvariant
<1>1. FreshOK(w)' /\ OwnStep(w) /\ pc'[w] = "done"
  BY ForgetFresh DEF RollBack
<1>2. UNCHANGED <<txn, payments>>
  BY DEF RollBack, dbVars
<1>3. \A t \in Txns : lock'[t] # w /\ \A v \in Tasks : lock'[t] = v => lock[t] = v
  BY PaymentsAssumption DEF RollBack, Free, TypeOK
<1>4. \A t \in Txns : lock[t] # w => image'[t] = image[t]
  BY DEF RollBack
<1> QED
  BY <1>1, <1>2, <1>3, <1>4, CoveredMove

\* record_payment adds its amount to a value its payments cover, whatever the
\* UPDATE keeps of the columns of others.
LEMMA RecordedRow ==
  ASSUME NEW apart \in BOOLEAN, PaymentsAssumption, MoneyInvariant(apart), StaffGoesOn,
         NEW w \in Tasks, NEW t \in Txns, NEW a \in Nat \ {0}, NEW S, NEW T,
         Covered(apart, t, loaded[w], S), Covered(apart, t, ViewTxn(w, t), S),
         Brought(S, t) \in Nat, Brought(T, t) = Brought(S, t) + a
  PROVE  CoveredNext(apart, t, Written(w, t, PaidWith(t, loaded[w], a)), T)
<1>1. PICK old \in Transaction : old = loaded[w]
  BY DEF MoneyInvariant, TypeOK
<1>2. PICK view \in Transaction : view = ViewTxn(w, t) /\ view.paid <= Due[t]
  BY DEF MoneyInvariant, TypeOK, PaidOK, ViewTxn
<1> DEFINE new == PaidWith(t, old, a)
           row == [status |-> IF new.status # old.status THEN new.status ELSE view.status,
                   paid   |-> IF new.paid # old.paid THEN new.paid ELSE view.paid]
<1>3. Written(w, t, PaidWith(t, loaded[w], a)) = row
  BY <1>1, <1>2 DEF Written
<1>4. /\ old.paid \in Nat /\ view.paid \in Nat /\ Due[t] \in Nat /\ Brought(S, t) \in Nat
      /\ row.paid = IF new.paid # old.paid THEN new.paid ELSE view.paid
      /\ row.status = IF new.status # old.status THEN new.status ELSE view.status
      /\ new.paid = IF old.paid + a >= Due[t] THEN Due[t] ELSE old.paid + a
      /\ old.paid + a >= Due[t] => new.status = "PAID"
  BY DEF PaidWith, Transaction, PaymentsAssumption
<1> HIDE DEF new, row
<1>5. CASE old.paid <= Brought(S, t)
  <2>1. row.paid <= Brought(T, t)
    BY <1>2, <1>4, <1>5
  <2> QED
    BY <1>3, <2>1 DEF CoveredNext
<1>6. CASE Marked(apart, t, old)
  <2>1. old.paid = Due[t] /\ (apart => old.status = "PAID")
    BY <1>6 DEF Marked
  <2>2. row.paid = view.paid /\ new.status = "PAID"
    BY <1>4, <2>1
  <2>3. CASE view.paid <= Brought(S, t)
    <3>1. row.paid <= Brought(T, t)
      BY <1>4, <2>2, <2>3
    <3> QED
      BY <1>3, <3>1 DEF CoveredNext
  <2>4. CASE Marked(apart, t, view)
    <3>1. row.paid = Due[t] /\ (apart => row.status = "PAID")
      BY <1>4, <2>1, <2>2, <2>4 DEF Marked
    <3> QED
      BY <1>3, <1>6, <3>1 DEF CoveredNext, Marked, MarkedNext, StaffGoesOn
  <2> QED
    BY <1>2, <2>3, <2>4 DEF Covered
<1> QED
  BY <1>1, <1>5, <1>6 DEF Covered

\* record_payment keeps rows covered: its payment is a new one.
LEMMA RecordCovered ==
  ASSUME NEW apart \in BOOLEAN, PaymentsAssumption, MoneyInvariant(apart), TypeOK',
         \A v \in Tasks : FreshOK(v)', CommittedOK', StaffGoesOn,
         NEW w \in Tasks, RecordPayment(w)
  PROVE  CoveredOK(apart)'
<1> USE DEF MoneyInvariant
<1>1. PICK t, r, p : t = tgt[w] /\ r = cur[w] /\ p = [txn |-> t, ref |-> r, by |-> w]
  OBVIOUS
<1>2. pc[w] = "record" /\ t \in Txns /\ r \in Refs /\ p \in Payment
  BY <1>1 DEF RecordPayment, ControlOK, AtControl, Payment
<1>3. p \notin ViewPayments(w)
  <2>1. p \notin mine[w]
    BY <1>1, <1>2 DEF FreshOK, Handling
  <2>2. p \notin payments
    BY <1>1, <1>2 DEF CommittedOK
  <2> QED
    BY <2>1, <2>2 DEF ViewPayments
<1>4. /\ OwnStep(w) /\ UNCHANGED <<txn, payments>>
      /\ mine'[w] = mine[w] \cup {p}
      /\ pc'[w] \notin {"check", "record"}
      /\ image' = [image EXCEPT ![t] = Written(w, t, PaidWith(t, loaded[w], Amount[r]))]
      /\ lock' = [lock EXCEPT ![t] = w] /\ MayWrite(w, t)
  BY <1>1 DEF RecordPayment, UpdateTxn, Take, OwnStep, Goto, dbVars, TypeOK, ControlOK
<1> DEFINE S == ViewPayments(w)
           T == S \cup {p}
<1>5. S \in SUBSET Payment /\ IsFiniteSet(S) /\ T = payments' \cup mine'[w]
  BY <1>4, Views DEF ViewPayments
<1>6. T \in SUBSET Payment /\ IsFiniteSet(T)
  BY <1>2, <1>5, FS_AddElement
<1>7. Covered(apart, t, loaded[w], S) /\ Covered(apart, t, ViewTxn(w, t), S)
  BY <1>1, <1>2, ViewCovered DEF CoveredOK
<1>8. Brought(S, t) \in Nat /\ Brought(T, t) = Brought(S, t) + Amount[r]
  <2>1. p.txn = t /\ p.ref = r /\ p \notin S
    BY <1>1, <1>3
  <2> HIDE DEF S
  <2> QED
    BY <1>2, <1>5, <2>1, BroughtGrows, BroughtByOne
<1>9. Amount[r] \in Nat \ {0}
  BY <1>2 DEF PaymentsAssumption
<1> HIDE DEF S, T
<1>10. CoveredNext(apart, t, Written(w, t, PaidWith(t, loaded[w], Amount[r])), T)
  BY <1>2, <1>7, <1>8, <1>9, RecordedRow
<1>11. ASSUME NEW u \in Txns, lock'[u] = w PROVE CoveredNext(apart, u, image'[u], T)
  <2>1. CASE u = t
    BY <1>4, <1>10, <2>1 DEF TypeOK
  <2>2. CASE u # t
    <3>1. lock[u] = w /\ image'[u] = image[u]
      BY <1>4, <1>11, <2>2 DEF TypeOK
    <3>2. image[u] \in Transaction
      BY DEF TypeOK
    <3>3. Covered(apart, u, image[u], S) /\ image[u].paid \in Nat
      BY <3>1, <3>2 DEF CoveredOK, S, Transaction
    <3>4. S \in SUBSET T
      BY DEF T
    <3>5. CoveredNext(apart, u, image[u], T)
      BY <1>6, <3>3, <3>4, CoveredStays
    <3> QED
      BY <3>1, <3>5
  <2> QED
    BY <2>1, <2>2
<1>12. \A u \in Txns, v \in Tasks \ {w} : lock'[u] = v => lock[u] = v /\ image'[u] = image[u]
  BY <1>4 DEF TypeOK
<1>13. \A u \in Txns : lock'[u] = w => CoveredNext(apart, u, image'[u], payments' \cup mine'[w])
  BY <1>5, <1>11
<1>14. payments \subseteq payments' /\ \A u \in Txns : txn'[u] = txn[u]
  BY <1>4
<1>15. OwnStep(w) /\ pc'[w] \notin {"check", "record"}
  BY <1>4
<1> QED
  BY <1>12, <1>13, <1>14, <1>15, CoveredMove

\* update_status and mark_paid leave a row that is covered or marked: staff that
\* works apart has looked at what is still there.
LEMMA StatusRow ==
  ASSUME NEW apart \in BOOLEAN, PaymentsAssumption, MoneyInvariant(apart), StaffGoesOn,
         NEW w \in Staff, pc[w] = "update", pc'[w] = "commit", NEW t \in Txns,
         t = tgt[w], NEW new \in VALID_TRANSITIONS[loaded[w].status],
         NEW S, S = ViewPayments(w), Covered(apart, t, ViewTxn(w, t), S)
  PROVE  CoveredNext(apart, t, Written(w, t, [status |-> new,
                                       paid |-> IF new = "PAID" THEN Due[t] ELSE loaded[w].paid]), S)
<1>1. PICK old \in Transaction : old = loaded[w]
  BY DEF MoneyInvariant, TypeOK, Tasks
<1>2. PICK view : view = ViewTxn(w, t)
  OBVIOUS
<1> DEFINE paid == IF new = "PAID" THEN Due[t] ELSE old.paid
           row == [status |-> IF new # old.status THEN new ELSE view.status,
                   paid   |-> IF paid # old.paid THEN paid ELSE view.paid]
<1>3. Written(w, t, [status |-> new, paid |-> IF new = "PAID" THEN Due[t] ELSE loaded[w].paid]) = row
  BY <1>1, <1>2 DEF Written
<1>4. new # old.status
  BY <1>1 DEF VALID_TRANSITIONS, Transaction, TransactionStatus
<1>5. row.status = new /\ row.paid = IF paid # old.paid THEN paid ELSE view.paid
  BY <1>4
<1> HIDE DEF row
<1>6. ASSUME row.paid = Due[t], apart => new = "PAID" PROVE CoveredNext(apart, t, row, S)
  BY <1>5, <1>6 DEF CoveredNext, MarkedNext
<1>7. CASE row.paid # view.paid
  BY <1>3, <1>5, <1>6, <1>7
<1>8. CASE row.paid = view.paid /\ view.paid <= Brought(S, t)
  BY <1>3, <1>8 DEF CoveredNext
<1>9. CASE row.paid = view.paid /\ Marked(apart, t, view) /\ ~(view.paid <= Brought(S, t))
  <2>1. view.paid = Due[t]
    BY <1>9 DEF Marked
  <2>2. ~apart
    <3>1. old.status # "PAID"
      BY <1>1 DEF VALID_TRANSITIONS, Transaction, TransactionStatus
    <3>2. apart => txn[t].paid <= Brought(payments, t)
      BY <1>1, <3>1 DEF MoneyInvariant, LookedOK, Received
    <3>3. w \in Tasks /\ lock[t] # w
      BY DEF Tasks, MoneyInvariant, MarkingOK
    <3>4. view = txn[t] /\ txn[t].paid \in Nat
      BY <1>2, <3>3 DEF ViewTxn, MoneyInvariant, TypeOK, Transaction
    <3>5. /\ Brought(payments, t) \in Nat /\ Brought(S, t) \in Nat
          /\ Brought(payments, t) <= Brought(S, t)
      BY <3>3, Views, BroughtGrows
    <3> QED
      BY <1>9, <3>2, <3>4, <3>5
  <2> QED
    BY <1>3, <1>6, <1>9, <2>1, <2>2
<1> QED
  BY <1>2, <1>7, <1>8, <1>9 DEF Covered

\* update_status keeps rows covered or marked.
LEMMA StatusCovered ==
  ASSUME NEW apart \in BOOLEAN, PaymentsAssumption, MoneyInvariant(apart), TypeOK',
         \A v \in Tasks : FreshOK(v)', CommittedOK', StaffGoesOn,
         NEW w \in Tasks, UpdateStatus(w)
  PROVE  CoveredOK(apart)'
<1>0. image \in [Txns -> Transaction]
  BY DEF MoneyInvariant, TypeOK
<1> USE DEF MoneyInvariant
<1>1. PICK t : t = tgt[w]
  OBVIOUS
<1>2. /\ pc[w] = "update" /\ pc'[w] = "commit" /\ w \in Staff /\ t \in Txns
  BY <1>1, Kinds DEF UpdateStatus, Goto, ControlOK, AtControl, Handling
<1>3. PICK new \in VALID_TRANSITIONS[loaded[w].status] :
        UpdateTxn(w, t, [status |-> new,
                         paid |-> IF new = "PAID" THEN Due[t] ELSE loaded[w].paid])
  BY <1>1 DEF UpdateStatus
<1>4. PICK row : /\ row = Written(w, t, [status |-> new,
                               paid |-> IF new = "PAID" THEN Due[t] ELSE loaded[w].paid])
                 /\ CoveredNext(apart, t, row, ViewPayments(w))
  BY <1>1, <1>2, ViewCovered, StatusRow
<1>5. image' = [image EXCEPT ![t] = row] /\ lock' = [lock EXCEPT ![t] = w]
  BY <1>3, <1>4 DEF UpdateTxn, Take
<1>6. OwnStep(w) /\ UNCHANGED <<txn, payments, mine>>
  BY DEF UpdateStatus, OwnStep, Goto, dbVars, sessionVars, ControlOK
<1>7. ViewPayments(w) = payments' \cup mine'[w]
  BY <1>6 DEF ViewPayments
<1>8. ASSUME NEW u \in Txns, lock'[u] = w PROVE CoveredNext(apart, u, image'[u], payments' \cup mine'[w])
  <2>1. CASE u = t
    BY <1>4, <1>5, <1>7, <2>1 DEF TypeOK
  <2>2. CASE u # t
    <3>1. lock[u] = w /\ image'[u] = image[u]
      BY <1>5, <1>8, <2>2 DEF TypeOK
    <3>2. image[u] \in Transaction
      BY <1>0
    <3>3. Covered(apart, u, image[u], ViewPayments(w)) /\ image[u].paid \in Nat
      BY <3>1, <3>2 DEF CoveredOK, Transaction
    <3>4. CoveredNext(apart, u, image[u], ViewPayments(w))
      BY <3>3, Views, CoveredStays
    <3> QED
      BY <1>7, <3>1, <3>4
  <2> QED
    BY <2>1, <2>2
<1>9. \A u \in Txns, v \in Tasks \ {w} : lock'[u] = v => lock[u] = v /\ image'[u] = image[u]
  BY <1>5 DEF TypeOK
<1> QED
  BY <1>2, <1>6, <1>8, <1>9, CoveredMove

\* Staff takes no other step once it has updated, but to end.
LEMMA StaffStepOn ==
  ASSUME PaymentsAssumption, TypeOK, ControlOK, [Next]_vars
  PROVE  StaffGoesOn
<1> SUFFICES ASSUME NEW v \in Staff, pc[v] \notin {"start", "update"}
             PROVE  pc'[v] \notin {"start", "update"}
  BY DEF StaffGoesOn
<1>1. v \in Tasks
  BY DEF Tasks
<1>2. ASSUME NEW w \in Tasks, NEW l \in Labels \ {"start", "update"}, pc' = [pc EXCEPT ![w] = l]
      PROVE  pc'[v] \notin {"start", "update"}
  BY <1>1, <1>2 DEF ControlOK
<1>3. ASSUME NEW w \in Tasks, Forget(w) PROVE pc'[v] \notin {"start", "update"}
  BY <1>2, <1>3 DEF Forget, Goto, Labels
<1>4. ASSUME UNCHANGED pc PROVE pc'[v] \notin {"start", "update"}
  BY <1>4
<1>5. ASSUME NEW w \in Tasks, ServiceStep(w) PROVE pc'[v] \notin {"start", "update"}
  BY <1>2, <1>3, <1>5
     DEF ServiceStep, StartService, InsertMpesa, RejectDuplicateRef, FindMatch, CheckExisting,
         RecordPayment, Link, CommitTask, FailTask, StartMpesaTask, RollBack, Commit, Goto,
         NextItem, Labels, Handling
<1>6. ASSUME NEW w \in Tasks, PollStep(w) PROVE pc'[v] \notin {"start", "update"}
  BY <1>2, <1>3, <1>6
     DEF PollStep, StartPoll, SelectUnmatched, EndPoll, SyncRecord, NextUnmatched, Commit, Goto,
         Labels, Handling
<1>7. ASSUME NEW w \in Tasks, TaskStep(w) PROVE pc'[v] \notin {"start", "update"}
  <2>1. CASE LoadForStatus(w)
    <3>1. v # w
      BY <2>1 DEF LoadForStatus
    <3> QED
      BY <1>1, <2>1, <3>1 DEF LoadForStatus, Goto, ControlOK
  <2> QED
    BY <1>2, <1>3, <1>5, <1>6, <1>7, <2>1
       DEF TaskStep, ConfirmStep, ConfirmDuplicate, ConfirmFails, StaffStep, UpdateStatus,
           RejectStatus, DeadlockVictim, RollBack, Goto, Labels
<1> QED
  BY <1>3, <1>4, <1>7 DEF Next, Abort, CreateTransaction, RollBack, vars

\* Each step ends its session, writes a transaction, or reads.
LEMMA StepKinds ==
  ASSUME PaymentsAssumption, TypeOK, ControlOK, NEW w \in Tasks, TaskStep(w)
  PROVE  \/ Commit(w) \/ RollBack(w) \/ RecordPayment(w) \/ UpdateStatus(w)
         \/ Reads(w) /\ (w \in Staff => LoadForStatus(w))
<1>1. ASSUME StartService(w) PROVE Reads(w)
  BY <1>1 DEF StartService, Reads, OwnStep, Goto, dbVars, rowVars, sessionVars, ControlOK
<1>2. ASSUME InsertMpesa(w) PROVE Reads(w)
  <2>1. pc[w] = "insert" /\ w \in Services
    BY <1>2, Kinds DEF InsertMpesa, ControlOK, AtControl, Handling
  <2>2. Item[w] \in MpesaRefs /\ Item[w] \notin Txns
    BY <2>1 DEF PaymentsAssumption
  <2> QED
    BY <1>2, <2>2 DEF InsertMpesa, Reads, OwnStep, Goto, Take, dbVars, TypeOK, ControlOK
<1>3. ASSUME FindMatch(w) PROVE Reads(w)
  <2>1. PICK t :
          /\ tgt' = [tgt EXCEPT ![w] = IF t \in known THEN t ELSE NoTxn]
          /\ loaded' = [loaded EXCEPT ![w] = IF t \in known THEN ViewTxn(w, t) ELSE NewTransaction]
          /\ pc' = [pc EXCEPT ![w] = IF t \in known THEN "check" ELSE NextItem(w)]
          /\ UNCHANGED <<dbVars, rowVars, mine, confirming, todo, cur, aborts>>
    BY <1>3 DEF FindMatch, Goto
  <2>2. OwnStep(w) /\ UNCHANGED <<txn, payments, image, lock, mine>>
    BY <2>1 DEF OwnStep, dbVars, rowVars, TypeOK, ControlOK
  <2>3. pc'[w] \in {"check", "record"} => tgt'[w] \in Txns /\ loaded'[w] = ViewTxn(w, tgt'[w])
    <3>1. /\ t \in known => tgt'[w] = t /\ loaded'[w] = ViewTxn(w, t)
          /\ pc'[w] \in {"check", "record"} => t \in known
          /\ known \subseteq Txns
      BY <2>1 DEF NextItem, TypeOK, ControlOK
    <3> SUFFICES ASSUME pc'[w] \in {"check", "record"}
                 PROVE  tgt'[w] \in Txns /\ loaded'[w] = ViewTxn(w, tgt'[w])
      OBVIOUS
    <3>2. t \in Txns /\ tgt'[w] = t /\ loaded'[w] = ViewTxn(w, t)
      BY <3>1
    <3> QED
      BY <3>2
  <2> QED
    BY <2>2, <2>3 DEF Reads
<1>4. ASSUME CheckExisting(w) PROVE Reads(w)
  BY <1>4 DEF CheckExisting, Reads, OwnStep, Goto, dbVars, rowVars, sessionVars, ControlOK
<1>5. ASSUME Link(w) PROVE Reads(w)
  <2>1. cur[w] \in MpesaRefs /\ cur[w] \notin Txns
    BY <1>5 DEF Link, ControlOK, AtControl, PaymentsAssumption
  <2> QED
    BY <1>5, <2>1 DEF Link, Reads, OwnStep, Goto, Take, NextItem, dbVars, TypeOK, ControlOK
<1>6. ASSUME StartMpesaTask(w) PROVE Reads(w)
  BY <1>6 DEF StartMpesaTask, Reads, OwnStep, Goto, dbVars, rowVars, TypeOK, ControlOK
<1>7. ASSUME StartPoll(w) PROVE Reads(w)
  BY <1>7 DEF StartPoll, Reads, OwnStep, Goto, dbVars, rowVars, TypeOK, ControlOK
<1>8. ASSUME SelectUnmatched(w) PROVE Reads(w)
  BY <1>8 DEF SelectUnmatched, Reads, OwnStep, Goto, dbVars, rowVars, TypeOK, ControlOK
<1>9. ASSUME SyncRecord(w) PROVE Reads(w)
  <2>1. PICK t :
          /\ tgt' = [tgt EXCEPT ![w] = t]
          /\ loaded' = [loaded EXCEPT ![w] = ViewTxn(w, t)]
          /\ pc' = [pc EXCEPT ![w] = IF t \in known THEN "record" ELSE "sync"]
    BY <1>9 DEF SyncRecord, Goto
  <2>2. OwnStep(w) /\ UNCHANGED <<txn, payments, image, lock, mine>>
    BY <1>9, <2>1 DEF SyncRecord, OwnStep, dbVars, rowVars, TypeOK, ControlOK
  <2>3. pc'[w] \in {"check", "record"} => tgt'[w] \in Txns /\ loaded'[w] = ViewTxn(w, tgt'[w])
    <3>1. /\ tgt'[w] = t /\ loaded'[w] = ViewTxn(w, t)
          /\ pc'[w] \in {"check", "record"} => t \in known
          /\ known \subseteq Txns
      BY <2>1 DEF TypeOK, ControlOK
    <3> QED
      BY <3>1
  <2> QED
    BY <2>2, <2>3 DEF Reads
<1>10. ASSUME NEW r \in MpesaRefs, NextUnmatched(w, r) PROVE Reads(w)
  BY <1>10 DEF NextUnmatched, Reads, OwnStep, Goto, dbVars, rowVars, TypeOK, ControlOK
<1>11. ASSUME ConfirmDuplicate(w) PROVE Reads(w)
  BY <1>11 DEF ConfirmDuplicate, Reads, OwnStep, Goto, dbVars, rowVars, sessionVars, ControlOK
<1>12. ASSUME LoadForStatus(w) PROVE Reads(w)
  BY <1>12 DEF LoadForStatus, Reads, OwnStep, Goto, dbVars, rowVars, TypeOK, ControlOK
<1>13. ASSUME w \in Staff
       PROVE  Commit(w) \/ RollBack(w) \/ UpdateStatus(w) \/ LoadForStatus(w)
  <2>1. pc[w] \in {"start", "update", "commit", "done"}
    BY <1>13 DEF ControlOK, AtControl
  <2>2. w \notin Services \cup Confirms \cup Polls \cup MpesaTasks
    BY <1>13, Kinds
  <2>3. ~ServiceStep(w) \/ Commit(w) \/ RollBack(w)
    BY <2>1, <2>2
       DEF ServiceStep, StartService, InsertMpesa, RejectDuplicateRef, FindMatch, CheckExisting,
           RecordPayment, Link, CommitTask, FailTask, StartMpesaTask
  <2>4. ~PollStep(w)
    BY <2>1, <2>2 DEF PollStep, StartPoll, SyncRecord, SelectUnmatched, NextUnmatched, EndPoll
  <2> QED
    BY <2>2, <2>3, <2>4
       DEF TaskStep, ConfirmStep, ConfirmDuplicate, ConfirmFails, StaffStep, RejectStatus,
           DeadlockVictim
<1>14. ServiceStep(w) => Reads(w) \/ Commit(w) \/ RollBack(w) \/ RecordPayment(w)
  BY <1>1, <1>2, <1>3, <1>4, <1>5, <1>6
     DEF ServiceStep, CommitTask, FailTask, RejectDuplicateRef
<1>15. PollStep(w) => Reads(w) \/ Commit(w)
  BY <1>7, <1>8, <1>9, <1>10 DEF PollStep, EndPoll
<1>16. Reads(w) \/ Commit(w) \/ RollBack(w) \/ RecordPayment(w) \/ UpdateStatus(w)
  BY <1>11, <1>12, <1>14, <1>15
     DEF TaskStep, ConfirmStep, ConfirmFails, StaffStep, RejectStatus, DeadlockVictim
<1> QED
  BY <1>12, <1>13, <1>16

\* Each step keeps every row covered.
LEMMA CoveredStep ==
  ASSUME NEW apart \in BOOLEAN, PaymentsAssumption, MoneyInvariant(apart), [Next]_vars, TypeOK',
         \A v \in Tasks : FreshOK(v)', CommittedOK'
  PROVE  CoveredOK(apart)'
<1> USE DEF MoneyInvariant
<1>0. StaffGoesOn
  BY StaffStepOn
<1>1. ASSUME NEW w \in Tasks, Commit(w) PROVE CoveredOK(apart)'
  BY <1>0, <1>1, CommitCovered
<1>2. ASSUME NEW w \in Tasks, RollBack(w) PROVE CoveredOK(apart)'
  BY <1>0, <1>2, RollBackCovered
<1>3. ASSUME NEW w \in Tasks, Reads(w) PROVE CoveredOK(apart)'
  BY <1>0, <1>3, ReadsCovered
<1>4. ASSUME NEW w \in Tasks, RecordPayment(w) PROVE CoveredOK(apart)'
  BY <1>0, <1>4, RecordCovered
<1>5. ASSUME NEW w \in Tasks, UpdateStatus(w) PROVE CoveredOK(apart)'
  BY <1>0, <1>5, StatusCovered
<1>6. ASSUME UNCHANGED <<txn, payments, image, lock, mine, pc, tgt, loaded>> PROVE CoveredOK(apart)'
  BY <1>6 DEF CoveredOK, Covered, Marked, ViewPayments
<1>7. ASSUME NEW w \in Tasks, TaskStep(w) PROVE CoveredOK(apart)'
  BY <1>1, <1>2, <1>3, <1>4, <1>5, <1>7, StepKinds
<1> QED
  BY <1>2, <1>6, <1>7 DEF Next, Abort, CreateTransaction, vars, dbVars, rowVars, sessionVars

-----------------------------------------------------------------------------
(* Where the money shown comes from: who marks it, and what they looked at. *)

\* What MarkingOK asks of session w and transaction t, of the state after the step.
MarkingNext(w, t) ==
    IF w \in Staff THEN pc'[w] = "commit"
    ELSE \/ image'[t].paid <= Brought(payments' \cup mine'[w], t)
         \/ image'[t].paid = txn'[t].paid

\* A step of w keeps what others hold, and what is committed under their locks.
LEMMA MarkingMove ==
  ASSUME NEW apart \in BOOLEAN, PaymentsAssumption, MoneyInvariant(apart), TypeOK',
         \A v \in Tasks : FreshOK(v)', CommittedOK',
         NEW w \in Tasks, OwnStep(w), payments \subseteq payments',
         \A t \in Txns, v \in Tasks \ {w} : lock'[t] = v =>
            lock[t] = v /\ image'[t] = image[t] /\ txn'[t] = txn[t],
         \A t \in Txns : lock'[t] = w => MarkingNext(w, t)
  PROVE  MarkingOK'
<1>1. /\ IsFiniteSet(payments') /\ payments' \in SUBSET Payment
      /\ \A v \in Tasks : IsFiniteSet(mine'[v]) /\ mine'[v] \in SUBSET Payment
  BY DEF CommittedOK, FreshOK, TypeOK
<1>2. \A v \in Tasks : IsFiniteSet(payments' \cup mine'[v])
  BY <1>1, FS_Union
<1>3. ASSUME NEW t \in Txns, NEW v \in Tasks \ {w}, lock'[t] = v PROVE MarkingNext(v, t)
  <2>1. /\ lock[t] = v /\ image'[t] = image[t] /\ txn'[t] = txn[t]
        /\ pc'[v] = pc[v] /\ mine'[v] = mine[v]
    BY <1>3 DEF OwnStep
  <2>2. IF v \in Staff THEN pc[v] = "commit"
        ELSE image[t].paid <= Brought(payments \cup mine[v], t) \/ image[t].paid = txn[t].paid
    BY <2>1 DEF MoneyInvariant, MarkingOK, ViewPayments
  <2>3. /\ payments' \cup mine'[v] \in SUBSET Payment
        /\ payments \cup mine[v] \in SUBSET (payments' \cup mine'[v])
    BY <1>1, <2>1
  <2>4. /\ Brought(payments \cup mine[v], t) \in Nat
        /\ Brought(payments' \cup mine'[v], t) \in Nat
        /\ Brought(payments \cup mine[v], t) <= Brought(payments' \cup mine'[v], t)
    <3>1. IsFiniteSet(payments' \cup mine'[v])
      BY <1>2
    <3> QED
      BY <2>3, <3>1, BroughtGrows
  <2>5. image[t].paid \in Nat
    BY DEF MoneyInvariant, TypeOK, Transaction
  <2> QED
    BY <2>1, <2>2, <2>4, <2>5 DEF MarkingNext
<1>4. \A t \in Txns, v \in Tasks : lock'[t] = v => MarkingNext(v, t)
  BY <1>3
<1> QED
  BY <1>4 DEF MarkingOK, MarkingNext, ViewPayments

\* record_payment: the amount it computes is covered, or the row keeps the one
\* it had, for a copy that shows the full amount is not changed.
LEMMA RecordedAmount ==
  ASSUME NEW apart \in BOOLEAN, PaymentsAssumption, MoneyInvariant(apart),
         NEW w \in Tasks, NEW t \in Txns, NEW a \in Nat \ {0}, NEW S, NEW T,
         Covered(apart, t, loaded[w], S),
         Brought(S, t) \in Nat, Brought(T, t) = Brought(S, t) + a
  PROVE  LET row == Written(w, t, PaidWith(t, loaded[w], a))
         IN  row.paid <= Brought(T, t) \/ row.paid = ViewTxn(w, t).paid
<1>1. PICK old \in Transaction : old = loaded[w]
  BY DEF MoneyInvariant, TypeOK
<1>2. PICK view : view = ViewTxn(w, t)
  OBVIOUS
<1> DEFINE new == PaidWith(t, old, a)
<1>3. Written(w, t, new).paid = IF new.paid # old.paid THEN new.paid ELSE view.paid
  BY <1>1, <1>2 DEF Written
<1>4. /\ old.paid \in Nat /\ Due[t] \in Nat
      /\ new.paid = IF old.paid + a >= Due[t] THEN Due[t] ELSE old.paid + a
  BY DEF PaidWith, Transaction, PaymentsAssumption
<1> HIDE DEF new
<1>5. CASE old.paid <= Brought(S, t)
  <2>1. new.paid <= Brought(T, t)
    BY <1>4, <1>5
  <2> QED
    BY <1>1, <1>2, <1>3, <2>1 DEF new
<1>6. CASE old.paid = Due[t]
  <2>1. new.paid = old.paid
    BY <1>4, <1>6
  <2> QED
    BY <1>1, <1>2, <1>3, <2>1 DEF new
<1> QED
  BY <1>1, <1>5, <1>6 DEF Covered, Marked

LEMMA RecordMarking ==
  ASSUME NEW apart \in BOOLEAN, PaymentsAssumption, MoneyInvariant(apart), TypeOK',
         \A v \in Tasks : FreshOK(v)', CommittedOK',
         NEW w \in Tasks, RecordPayment(w)
  PROVE  MarkingOK'
<1> USE DEF MoneyInvariant
<1>1. PICK t, r, p : t = tgt[w] /\ r = cur[w] /\ p = [txn |-> t, ref |-> r, by |-> w]
  OBVIOUS
<1>2. pc[w] = "record" /\ t \in Txns /\ r \in Refs /\ p \in Payment /\ w \notin Staff
  BY <1>1 DEF RecordPayment, ControlOK, AtControl, Payment
<1>3. p \notin ViewPayments(w)
  <2>1. p \notin mine[w]
    BY <1>1, <1>2 DEF FreshOK, Handling
  <2>2. p \notin payments
    BY <1>1, <1>2 DEF CommittedOK
  <2> QED
    BY <2>1, <2>2 DEF ViewPayments
<1>4. /\ OwnStep(w) /\ UNCHANGED <<txn, payments>>
      /\ mine'[w] = mine[w] \cup {p}
      /\ image' = [image EXCEPT ![t] = Written(w, t, PaidWith(t, loaded[w], Amount[r]))]
      /\ lock' = [lock EXCEPT ![t] = w] /\ MayWrite(w, t)
  BY <1>1 DEF RecordPayment, UpdateTxn, Take, OwnStep, Goto, dbVars, TypeOK, ControlOK
<1> DEFINE S == ViewPayments(w)
           T == S \cup {p}
<1>5. S \in SUBSET Payment /\ IsFiniteSet(S) /\ T = payments' \cup mine'[w]
  BY <1>4, Views DEF ViewPayments
<1>6. T \in SUBSET Payment /\ IsFiniteSet(T) /\ S \in SUBSET T
  BY <1>2, <1>5, FS_AddElement
<1>7. Covered(apart, t, loaded[w], S)
  BY <1>1, <1>2 DEF CoveredOK
<1>8. Brought(S, t) \in Nat /\ Brought(T, t) = Brought(S, t) + Amount[r]
  <2>1. p.txn = t /\ p.ref = r /\ p \notin S
    BY <1>1, <1>3
  <2> HIDE DEF S
  <2> QED
    BY <1>2, <1>5, <2>1, BroughtGrows, BroughtByOne
<1>9. Amount[r] \in Nat \ {0}
  BY <1>2 DEF PaymentsAssumption
<1>10. \A u \in Txns : /\ Brought(S, u) \in Nat /\ Brought(T, u) \in Nat
                       /\ Brought(S, u) <= Brought(T, u)
  <2> HIDE DEF S, T
  <2> QED
    BY <1>6, BroughtGrows
\* What the session had in hand before is covered, or what was committed.
<1>11. ASSUME NEW u \in Txns, lock[u] \in {NoTask, w}
       PROVE  \/ ViewTxn(w, u).paid <= Brought(S, u)
              \/ ViewTxn(w, u).paid = txn[u].paid
  BY <1>2, <1>11 DEF MarkingOK, ViewTxn
<1>12. image'[t].paid <= Brought(T, t) \/ image'[t].paid = ViewTxn(w, t).paid
  <2> HIDE DEF S, T
  <2>1. LET row == Written(w, t, PaidWith(t, loaded[w], Amount[r]))
        IN  row.paid <= Brought(T, t) \/ row.paid = ViewTxn(w, t).paid
    BY <1>2, <1>7, <1>8, <1>9, RecordedAmount
  <2> QED
    BY <1>2, <1>4, <2>1 DEF TypeOK
<1>13. \A u \in Txns : ViewTxn(w, u).paid \in Nat
  BY DEF ViewTxn, TypeOK, Transaction
<1> HIDE DEF S, T
<1>14. ASSUME NEW u \in Txns, lock'[u] = w PROVE MarkingNext(w, u)
  <2>1. CASE u = t
    <3>1. ViewTxn(w, t).paid <= Brought(S, t) \/ ViewTxn(w, t).paid = txn[t].paid
      BY <1>2, <1>4, <1>11 DEF MayWrite
    <3>2. image'[t].paid <= Brought(T, t) \/ image'[t].paid = txn[t].paid
      BY <1>2, <1>10, <1>12, <1>13, <3>1
    <3> QED
      BY <1>2, <1>4, <1>5, <2>1, <3>2 DEF MarkingNext
  <2>2. CASE u # t
    <3>1. lock[u] = w /\ image'[u] = image[u] /\ ViewTxn(w, u) = image[u]
      BY <1>4, <1>14, <2>2 DEF TypeOK, ViewTxn
    <3>2. image[u].paid <= Brought(S, u) \/ image[u].paid = txn[u].paid
      BY <1>11, <3>1
    <3>3. image'[u].paid <= Brought(T, u) \/ image'[u].paid = txn[u].paid
      BY <1>10, <1>13, <3>1, <3>2
    <3> QED
      BY <1>2, <1>4, <1>5, <3>3 DEF MarkingNext
  <2> QED
    BY <2>1, <2>2
<1>15. \A u \in Txns, v \in Tasks \ {w} :
          lock'[u] = v => lock[u] = v /\ image'[u] = image[u] /\ txn'[u] = txn[u]
  BY <1>4 DEF TypeOK
<1>16. OwnStep(w) /\ payments \subseteq payments' /\ \A u \in Txns : lock'[u] = w => MarkingNext(w, u)
  BY <1>4, <1>14
<1> QED
  BY <1>15, <1>16, MarkingMove

\* Each step keeps it.
LEMMA MarkingStep ==
  ASSUME NEW apart \in BOOLEAN, PaymentsAssumption, MoneyInvariant(apart), [Next]_vars, TypeOK',
         \A v \in Tasks : FreshOK(v)', CommittedOK'
  PROVE  MarkingOK'
<1> USE DEF MoneyInvariant
<1>1. ASSUME NEW w \in Tasks, Commit(w) PROVE MarkingOK'
  <2>1. OwnStep(w) /\ payments \subseteq payments'
    BY <1>1, ForgetFresh, Views DEF Commit
  <2>2. \A t \in Txns : lock'[t] # w /\ \A v \in Tasks : lock'[t] = v => lock[t] = v
    BY <1>1, PaymentsAssumption DEF Commit, Free, TypeOK
  <2>3. \A t \in Txns, v \in Tasks \ {w} :
          lock'[t] = v => lock[t] = v /\ image'[t] = image[t] /\ txn'[t] = txn[t]
    BY <1>1, <2>2 DEF Commit, ViewTxn
  <2> QED
    BY <2>1, <2>2, <2>3, MarkingMove
<1>2. ASSUME NEW w \in Tasks, RollBack(w) PROVE MarkingOK'
  <2>1. OwnStep(w) /\ UNCHANGED <<txn, payments>>
    BY <1>2, ForgetFresh DEF RollBack, dbVars
  <2>2. \A t \in Txns : lock'[t] # w /\ \A v \in Tasks : lock'[t] = v => lock[t] = v
    BY <1>2, PaymentsAssumption DEF RollBack, Free, TypeOK
  <2>3. \A t \in Txns, v \in Tasks \ {w} :
          lock'[t] = v => lock[t] = v /\ image'[t] = image[t] /\ txn'[t] = txn[t]
    BY <1>2, <2>1, <2>2 DEF RollBack
  <2> QED
    BY <2>1, <2>2, <2>3, MarkingMove
<1>3. ASSUME NEW w \in Tasks, Reads(w), w \in Staff => pc[w] # "commit" PROVE MarkingOK'
  <2>1. /\ OwnStep(w) /\ UNCHANGED <<txn, payments, image>> /\ mine'[w] = mine[w]
        /\ \A t \in Txns : lock'[t] = lock[t]
    BY <1>3 DEF Reads
  <2>2. ASSUME NEW t \in Txns, lock'[t] = w PROVE MarkingNext(w, t)
    BY <1>3, <2>1, <2>2 DEF MarkingOK, MarkingNext, ViewPayments
  <2>3. \A t \in Txns, v \in Tasks \ {w} :
          lock'[t] = v => lock[t] = v /\ image'[t] = image[t] /\ txn'[t] = txn[t]
    BY <2>1
  <2> QED
    BY <2>1, <2>2, <2>3, MarkingMove
<1>4. ASSUME NEW w \in Tasks, UpdateStatus(w) PROVE MarkingOK'
  <2>1. pc[w] = "update" /\ pc'[w] = "commit" /\ w \in Staff /\ tgt[w] \in Txns
    BY <1>4, Kinds DEF UpdateStatus, Goto, ControlOK, AtControl, Handling
  <2>2. OwnStep(w) /\ UNCHANGED <<txn, payments, mine>>
    BY <1>4 DEF UpdateStatus, OwnStep, Goto, dbVars, sessionVars, ControlOK
  <2>3. \A t \in Txns, v \in Tasks \ {w} :
          lock'[t] = v => lock[t] = v /\ image'[t] = image[t] /\ txn'[t] = txn[t]
    BY <1>4, <2>1, <2>2 DEF UpdateStatus, UpdateTxn, Take, TypeOK
  <2>4. \A t \in Txns : MarkingNext(w, t)
    BY <2>1 DEF MarkingNext
  <2> QED
    BY <2>2, <2>3, <2>4, MarkingMove
<1>5. ASSUME UNCHANGED <<txn, payments, image, lock, mine, pc>> PROVE MarkingOK'
  BY <1>5 DEF MarkingOK, ViewPayments
<1>6. ASSUME NEW w \in Tasks, RecordPayment(w) PROVE MarkingOK'
  BY <1>6, RecordMarking
<1>7. ASSUME NEW w \in Tasks, LoadForStatus(w) PROVE pc[w] # "commit"
  BY <1>7 DEF LoadForStatus
<1>8. ASSUME NEW w \in Tasks, TaskStep(w) PROVE MarkingOK'
  BY <1>1, <1>2, <1>3, <1>4, <1>6, <1>7, <1>8, StepKinds
<1> QED
  BY <1>2, <1>5, <1>8 DEF Next, Abort, CreateTransaction, vars, dbVars, rowVars, sessionVars

\* Nobody else marks a transaction between a member of staff's look and update:
\* other sessions commit what their payments brought or what was committed.
LEMMA LookedMove ==
  ASSUME PaymentsAssumption, MoneyInvariant(TRUE), TypeOK', CommittedOK',
         NEW w \in Tasks, OwnStep(w), payments \subseteq payments',
         w \in Staff => pc'[w] # "update",
         \A v \in Staff \ {w}, t \in Txns : pc[v] = "update" =>
            txn'[t].paid = txn[t].paid \/ txn'[t].paid <= Brought(payments', t)
  PROVE  LookedOK'
<1> USE DEF MoneyInvariant
<1> SUFFICES ASSUME NEW v \in Staff, pc'[v] = "update"
             PROVE  \/ loaded'[v].status = "PAID"
                    \/ txn'[tgt'[v]].paid <= Brought(payments', tgt'[v])
  BY DEF LookedOK, Received
<1>1. v # w /\ v \in Tasks
  BY DEF Tasks
<1>2. PICK t \in Txns : t = tgt[v]
  BY <1>1 DEF OwnStep, ControlOK, AtControl
<1>3. pc[v] = "update" /\ tgt'[v] = t /\ loaded'[v] = loaded[v]
  BY <1>1, <1>2 DEF OwnStep
<1>4. loaded[v].status = "PAID" \/ txn[t].paid <= Brought(payments, t)
  BY <1>2, <1>3 DEF LookedOK, Received
<1>5. /\ Brought(payments, t) \in Nat /\ Brought(payments', t) \in Nat
      /\ Brought(payments, t) <= Brought(payments', t)
  <2>1. payments' \in SUBSET Payment /\ IsFiniteSet(payments') /\ payments \in SUBSET payments'
    BY DEF TypeOK, CommittedOK
  <2> QED
    BY <2>1, BroughtGrows
<1>6. txn[t].paid \in Nat
  BY DEF TypeOK, Transaction
<1> QED
  BY <1>1, <1>3, <1>4, <1>5, <1>6

\* Each step keeps it, as long as members of staff work apart.
LEMMA LookedStep ==
  ASSUME PaymentsAssumption, MoneyInvariant(TRUE), StaffApart, [Next]_vars, TypeOK', CommittedOK'
  PROVE  LookedOK'
<1> USE DEF MoneyInvariant
<1>1. ASSUME NEW w \in Tasks, Commit(w) PROVE LookedOK'
  <2>1. OwnStep(w) /\ pc'[w] = "done" /\ payments' = ViewPayments(w) /\ payments \subseteq payments'
    BY <1>1, ForgetFresh, Views DEF Commit
  <2>2. ASSUME NEW v \in Staff \ {w}, NEW t \in Txns, pc[v] = "update"
        PROVE  txn'[t].paid = txn[t].paid \/ txn'[t].paid <= Brought(payments', t)
    <3>1. CASE lock[t] # w
      BY <1>1, <3>1 DEF Commit, ViewTxn
    <3>2. CASE lock[t] = w
      <4>1. w \notin Staff
        BY <2>2, <3>2 DEF StaffApart, OneAtATime, Active, MarkingOK
      <4>2. txn'[t] = image[t]
        BY <1>1, <3>2 DEF Commit, ViewTxn
      <4> QED
        BY <2>1, <3>2, <4>1, <4>2 DEF MarkingOK
    <3> QED
      BY <3>1, <3>2
  <2> QED
    BY <2>1, <2>2, LookedMove
<1>2. ASSUME NEW w \in Tasks, OwnStep(w), UNCHANGED <<txn, payments>>,
             w \in Staff => pc'[w] # "update"
      PROVE  LookedOK'
  BY <1>2, LookedMove
<1>3. ASSUME NEW w \in Tasks, RollBack(w) PROVE LookedOK'
  <2>1. OwnStep(w) /\ UNCHANGED <<txn, payments>> /\ pc'[w] # "update"
    BY <1>3, ForgetFresh DEF RollBack, dbVars
  <2> QED
    BY <1>2, <2>1
<1>4. ASSUME NEW w \in Tasks, RecordPayment(w) PROVE LookedOK'
  <2>1. w \notin Staff
    BY <1>4 DEF RecordPayment, ControlOK, AtControl
  <2>2. OwnStep(w) /\ UNCHANGED <<txn, payments>>
    BY <1>4 DEF RecordPayment, OwnStep, Goto, dbVars, TypeOK, ControlOK
  <2> QED
    BY <1>2, <2>1, <2>2
<1>5. ASSUME NEW w \in Tasks, UpdateStatus(w) PROVE LookedOK'
  <2>1. OwnStep(w) /\ UNCHANGED <<txn, payments>> /\ pc'[w] # "update"
    BY <1>5 DEF UpdateStatus, OwnStep, Goto, dbVars, sessionVars, ControlOK
  <2> QED
    BY <1>2, <2>1
<1>6. ASSUME NEW w \in Tasks, Reads(w), w \notin Staff PROVE LookedOK'
  BY <1>2, <1>6 DEF Reads
<1>7. ASSUME NEW w \in Tasks, LoadForStatus(w) PROVE LookedOK'
  <2>1. w \in Staff /\ OwnStep(w) /\ UNCHANGED <<txn, payments>>
    BY <1>7 DEF LoadForStatus, OwnStep, Goto, dbVars, TypeOK, ControlOK
  <2>2. ASSUME NEW v \in Staff, pc'[v] = "update", v # w
        PROVE  loaded'[v].status = "PAID" \/ txn'[tgt'[v]].paid <= Brought(payments', tgt'[v])
    BY <2>1, <2>2 DEF OwnStep, LookedOK, Received, Tasks
  <2>3. loaded'[w].status = "PAID" \/ txn'[tgt'[w]].paid <= Brought(payments', tgt'[w])
    <3>1. PICK t \in Txns : tgt'[w] = t /\ loaded'[w] = txn[t]
      BY <1>7 DEF LoadForStatus, TypeOK
    <3>2. Covered(TRUE, t, txn[t], payments)
      BY DEF CoveredOK
    <3> QED
      BY <2>1, <3>1, <3>2 DEF Covered, Marked
  <2> QED
    BY <2>2, <2>3 DEF LookedOK, Received
<1>8. ASSUME UNCHANGED <<txn, payments, pc, tgt, loaded>> PROVE LookedOK'
  BY <1>8 DEF LookedOK, Received
<1>9. ASSUME NEW w \in Tasks, TaskStep(w) PROVE LookedOK'
  BY <1>1, <1>3, <1>4, <1>5, <1>6, <1>7, <1>9, StepKinds
<1> QED
  BY <1>3, <1>8, <1>9 DEF Next, Abort, CreateTransaction, vars, dbVars, rowVars, sessionVars

-----------------------------------------------------------------------------
(* Theorems.                                                               *)

LEMMA InvariantInit == PaymentsAssumption /\ Init => CreditInvariant
<1> SUFFICES ASSUME PaymentsAssumption, Init PROVE CreditInvariant
  OBVIOUS
<1>1. NewTransaction \in Transaction /\ NewTransaction.paid = 0
  BY DEF NewTransaction, Transaction, TransactionStatus
<1>2. TypeOK /\ PaidOK
  BY <1>1 DEF Init, TypeOK, PaidOK, PaymentsAssumption, MpesaPayment, Payment
<1>3. pc \in [Tasks -> {"start", "done"}]
  BY DEF Init
<1>4. ControlOK
  <2>1. \A w \in Tasks : todo[w] = {}
    BY DEF Init
  <2> QED
    BY <1>3, <2>1 DEF ControlOK, AtControl, Labels, Handling
<1>5. \A w \in Tasks : \A r \in MpesaRefs : Untouched(w, r) /\ lock[r] # w
  BY DEF Init, Untouched, Of, PaymentsAssumption
<1>6. SessionsOK
  BY <1>3, <1>5
     DEF Init, SessionsOK, SessionOK, CreditorOK, ServiceOK, PollOK, Active, FirstPart, StaffOK, Handling
<1>7. CreditOK
  BY DEF Init, CreditOK, Of, PaymentsAssumption
<1> QED
  BY <1>2, <1>4, <1>6, <1>7 DEF CreditInvariant

LEMMA MoneyInit ==
  ASSUME NEW apart \in BOOLEAN, PaymentsAssumption, Init
  PROVE  MoneyInvariant(apart)
<1>1. TypeOK /\ PaidOK /\ ControlOK
  BY InvariantInit DEF CreditInvariant
<1>2. /\ payments = {} /\ \A w \in Tasks : mine[w] = {} /\ todo[w] = {}
      /\ pc \in [Tasks -> {"start", "done"}] /\ \A t \in Txns : txn[t].paid = 0 /\ lock[t] = NoTask
  BY DEF Init, NewTransaction
<1>3. CommittedOK /\ \A w \in Tasks : FreshOK(w)
  BY <1>2, FS_EmptySet DEF CommittedOK, FreshOK, Handling
<1>4. ASSUME NEW t \in Txns PROVE Covered(apart, t, txn[t], payments)
  <2>1. {} \in SUBSET Payment /\ IsFiniteSet({})
    BY FS_EmptySet
  <2>2. Brought({}, t) \in Nat
    BY <2>1, BroughtGrows
  <2>3. txn[t].paid <= Brought(payments, t)
    BY <1>2, <2>2
  <2> QED
    BY <2>3 DEF Covered
<1>5. CoveredOK(apart)
  BY <1>2, <1>4 DEF CoveredOK, PaymentsAssumption
<1>6. MarkingOK /\ LookedOK
  BY <1>2, PaymentsAssumption DEF MarkingOK, LookedOK, Tasks
<1> QED
  BY <1>1, <1>3, <1>5, <1>6 DEF MoneyInvariant

LEMMA MoneyStep ==
  ASSUME NEW apart \in BOOLEAN, PaymentsAssumption, MoneyInvariant(apart), [Next]_vars,
         apart => StaffApart
  PROVE  MoneyInvariant(apart)'
<1>1. TypeOK' /\ PaidOK' /\ ControlOK'
  BY TypeStep DEF MoneyInvariant
<1>2. (\A w \in Tasks : FreshOK(w)') /\ CommittedOK'
  BY FreshStep
<1>3. CoveredOK(apart)'
  BY <1>1, <1>2, CoveredStep
<1>4. MarkingOK'
  BY <1>1, <1>2, MarkingStep
<1>5. apart => LookedOK'
  BY <1>1, <1>2, LookedStep
<1> QED
  BY <1>1, <1>2, <1>3, <1>4, <1>5 DEF MoneyInvariant

LEMMA InvariantStep ==
  ASSUME PaymentsAssumption, PollsApart, CreditInvariant, [Next]_vars
  PROVE  CreditInvariant'
  BY TypeStep, SessionStep, CreditStep DEF CreditInvariant

\* No row shows more than the payments its session sees have brought, unless
\* staff marked it; the tasks may overlap in any way, polls and staff included.
THEOREM MoneyInvariantHolds == Spec => []MoneyInvariant(FALSE)
<1>1. MoneyInvariant(FALSE) /\ [Next]_vars => MoneyInvariant(FALSE)'
  BY MoneyStep, PaymentsAssumption
<1>2. Init => MoneyInvariant(FALSE)
  BY MoneyInit, PaymentsAssumption
<1> QED
  BY <1>1, <1>2, PTL DEF Spec

\* While members of staff do not overlap, a marked row is also PAID.
THEOREM MarkedInvariantHolds == Spec /\ []StaffApart => []MoneyInvariant(TRUE)
<1>1. MoneyInvariant(TRUE) /\ StaffApart /\ [Next]_vars => MoneyInvariant(TRUE)'
  BY MoneyStep, PaymentsAssumption
<1>2. Init => MoneyInvariant(TRUE)
  BY MoneyInit, PaymentsAssumption
<1> QED
  BY <1>1, <1>2, PTL DEF Spec

\* Each session has done nothing, all or a known part of the writes of every
\* M-Pesa payment, and relies only on rows that nobody else may change.
THEOREM CreditInvariantHolds == Spec /\ []PollsApart => []CreditInvariant
<1>1. CreditInvariant /\ PollsApart /\ [Next]_vars => CreditInvariant'
  BY InvariantStep, PaymentsAssumption
<1>2. Init => CreditInvariant
  BY InvariantInit, PaymentsAssumption
<1> QED
  BY <1>1, <1>2, PTL DEF Spec

\* Both invariants, that TLC checks as one.
THEOREM PaymentsInvariant == Spec /\ []PollsApart /\ []StaffApart => []InductiveInvariant
  BY MarkedInvariantHolds, CreditInvariantHolds, PTL DEF InductiveInvariant

\* A row that shows more than the committed payments brought is marked by hand.
LEMMA PaidMoreIsMarked ==
  ASSUME NEW apart \in BOOLEAN, MoneyInvariant(apart), PaymentsAssumption, NEW t \in Txns
  PROVE  /\ txn[t].paid <= Due[t]
         /\ txn[t].paid > Received(t) => Marked(apart, t, txn[t])
<1>1. IsFiniteSet(payments) /\ payments \in SUBSET Payment /\ txn[t] \in Transaction
  BY DEF MoneyInvariant, CommittedOK, TypeOK
<1>2. Brought(payments, t) \in Nat /\ txn[t].paid \in Nat
  BY <1>1, BroughtGrows DEF Transaction
<1>3. Covered(apart, t, txn[t], payments) /\ txn[t].paid <= Due[t]
  BY DEF MoneyInvariant, CoveredOK, PaidOK
<1> QED
  BY <1>2, <1>3 DEF Covered, Received

\* Members of staff who change transactions one after the other, however often: no
\* transaction shows money that was neither received nor marked, and a marked one
\* is PAID in full.
THEOREM MoneyIsNotInvented == Spec /\ []StaffApart => []NoMoneyInvented
<1>1. MoneyInvariant(TRUE) => NoMoneyInvented
  <2> SUFFICES ASSUME MoneyInvariant(TRUE), NEW t \in Txns
               PROVE  /\ txn[t].paid <= Due[t]
                      /\ txn[t].paid > Received(t) =>
                            Staff # {} /\ txn[t] = [status |-> "PAID", paid |-> Due[t]]
    BY DEF NoMoneyInvented
  <2>1. txn[t] \in Transaction
    BY DEF MoneyInvariant, TypeOK
  <2>2. Marked(TRUE, t, txn[t]) => Staff # {} /\ txn[t] = [status |-> "PAID", paid |-> Due[t]]
    BY <2>1 DEF Marked, Transaction
  <2> QED
    BY <2>2, PaidMoreIsMarked, PaymentsAssumption
<1> QED
  BY <1>1, MarkedInvariantHolds, PTL

\* However many members of staff there are, money that was not received shows
\* only where one of them marked a transaction, and then in full.
THEOREM MoneyIsCovered == Spec => []PaidIsCovered
<1>1. MoneyInvariant(FALSE) => PaidIsCovered
  BY PaidMoreIsMarked, PaymentsAssumption DEF PaidIsCovered, Marked
<1> QED
  BY <1>1, MoneyInvariantHolds, PTL

\* No M-Pesa payment is recorded twice or for two transactions, however many polls
\* follow each other.
THEOREM CreditIsUnique == Spec /\ []PollsApart => []CreditedOnce
<1>1. CreditInvariant => CreditedOnce
  <2> SUFFICES ASSUME CreditInvariant,
                      NEW p \in payments, NEW q \in payments, p.ref = q.ref, p.ref \in MpesaRefs
               PROVE  p = q
    BY DEF CreditedOnce
  <2>1. p \in Of(payments, p.ref) /\ q \in Of(payments, p.ref)
    BY DEF Of
  <2>2. \/ Of(payments, p.ref) = {}
        \/ \E w \in Tasks : Of(payments, p.ref) = {Record(w, mpesa[p.ref], p.ref)}
    BY DEF CreditInvariant, CreditOK
  <2> QED
    BY <2>1, <2>2
<1> QED
  BY <1>1, CreditInvariantHolds, PTL

\* The link, the payment record and the confirmation SMS of an M-Pesa payment
\* are committed together.
THEOREM CreditIsConfirmed == Spec /\ []PollsApart => []ConfirmedIffCredited
<1>1. CreditInvariant => ConfirmedIffCredited
  <2> SUFFICES ASSUME CreditInvariant, NEW r \in MpesaRefs
               PROVE  /\ r \in confirmed <=> mpesa[r] \in Txns
                      /\ r \in confirmed => \E p \in payments : p.ref = r /\ p.txn = mpesa[r]
    BY DEF ConfirmedIffCredited
  <2>1. \A w \in Tasks : Record(w, mpesa[r], r).ref = r /\ Record(w, mpesa[r], r).txn = mpesa[r]
    BY DEF Record
  <2> QED
    BY <2>1 DEF CreditInvariant, CreditOK, Of
<1> QED
  BY <1>1, CreditInvariantHolds, PTL

\* The credits follow the abstract ledger: nobody gets a payment that somebody
\* has, and nobody loses one.
THEOREM LedgerRefinement == Spec /\ []PollsApart => ImplementsLedger
<1>1. Credits = [r \in MpesaRefs |-> {p.txn : p \in Of(payments, r)}]
  BY DEF Credits, Of
<1>2. Init => TheLedger!LedgerInit
  BY <1>1 DEF Init, TheLedger!LedgerInit, Of
<1>3. CreditInvariant /\ PollsApart /\ [Next]_vars => [TheLedger!LedgerNext]_Credits
  <2> SUFFICES ASSUME CreditInvariant, PollsApart, [Next]_vars, NEW r \in MpesaRefs
               PROVE  \/ Credits'[r] = Credits[r]
                      \/ Credits[r] = {} /\ \E t \in Txns : Credits'[r] = {t}
    BY DEF TheLedger!LedgerNext
  <2>1. Credits' = [x \in MpesaRefs |-> {p.txn : p \in Of(payments', x)}]
    BY DEF Credits, Of
  <2>2. CASE Of(payments', r) = Of(payments, r)
    BY <1>1, <2>1, <2>2
  <2>3. ASSUME Of(payments, r) = {}, NEW w \in Tasks, NEW t \in Txns,
               Of(payments', r) = {Record(w, t, r)}
        PROVE  Credits[r] = {} /\ Credits'[r] = {t}
    <3>1. Record(w, t, r).txn = t
      BY DEF Record
    <3> QED
      BY <1>1, <2>1, <2>3, <3>1
  <2> QED
    BY <2>2, <2>3, CreditStep, PaymentsAssumption
<1> QED
  BY <1>2, <1>3, CreditInvariantHolds, PTL DEF Spec, ImplementsLedger, TheLedger!LedgerSpec
=============================================================================
