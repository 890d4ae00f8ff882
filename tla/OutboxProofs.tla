---------------------------- MODULE OutboxProofs ----------------------------
(***************************************************************************)
(* What TLAPS proves of Outbox, for every value of its constants.          *)
(***************************************************************************)
EXTENDS OutboxInvariants, FiniteSetTheorems, TLAPS

\* Assigning one column of a row leaves a row.
LEMMA RowAssign ==
  ASSUME NEW x \in Row, NEW st \in MessageStatus, NEW n \in Nat, NEW b \in BOOLEAN
  PROVE  /\ [x EXCEPT !.status = st] \in Row
         /\ [x EXCEPT !.retry_count = n] \in Row
         /\ [x EXCEPT !.provider_message_id = n] \in Row
         /\ [x EXCEPT !.sent_at = b] \in Row
BY DEF Row

\* Every status the code writes is a status.
LEMMA Statuses ==
  /\ {"PENDING", "SENDING", "SENT", "DELIVERED", "FAILED", "UNKNOWN_DELIVERY", "SUPPRESSED"}
       = MessageStatus
  /\ \A a \in SendAnswers : SendOutcome[a] \in MessageStatus
BY DEF MessageStatus, Lifecycle!MessageStatus, SendAnswers, SendOutcome

\* The row a sender writes after its call.
LEMMA TransitionedRow ==
  ASSUME TypeOK, NEW s \in Senders, NEW m \in Messages, resp[s] \in SendAnswers
  PROVE  /\ Transitioned(s, m) \in Row
         /\ Transitioned(s, m).status = SendOutcome[resp[s]]
         /\ Transitioned(s, m).retry_count = image[m].retry_count
<1> DEFINE at == image[m].sent_at \/ resp[s] = "ACCEPTED"
           id == IF resp[s] = "ACCEPTED" /\ calls[m] \in accepted[m] THEN calls[m]
                 ELSE image[m].provider_message_id
           x == [image[m] EXCEPT !.status = SendOutcome[resp[s]]]
           y == [x EXCEPT !.sent_at = at]
           z == [y EXCEPT !.provider_message_id = id]
<1>1. image[m] \in Row
  BY DEF TypeOK
<1>2. x \in Row
  BY <1>1, RowAssign, Statuses
<1>3. at \in BOOLEAN
  OBVIOUS
<1>4. y \in Row
  <2> HIDE DEF x, at
  <2> QED BY <1>2, <1>3 DEF Row
<1>5. id \in Nat
  BY <1>1 DEF TypeOK, Row
<1>6. z \in Row
  <2> HIDE DEF y, id
  <2> QED BY <1>4, <1>5 DEF Row
<1>7. x.sent_at = image[m].sent_at
  BY <1>1 DEF Row
<1>8. Transitioned(s, m) = z
  BY <1>1, <1>7 DEF Transitioned, Row
<1>9. z.status = SendOutcome[resp[s]] /\ z.retry_count = image[m].retry_count
  BY <1>1, <1>2, <1>4 DEF Row
<1> HIDE DEF z
<1> QED
  BY <1>6, <1>8, <1>9

\* The row the reconciliation writes.
LEMMA ReconciledRow ==
  ASSUME TypeOK, NEW r \in Reconcilers, NEW m \in Messages, resp[r] \in QueryAnswers
  PROVE  /\ Reconciled(r, m) \in Row
         /\ resp[r] = "not_found" => /\ Reconciled(r, m).status = "PENDING"
                                     /\ Reconciled(r, m).retry_count = seen[r][m] + 1
         /\ resp[r] # "not_found" => /\ Reconciled(r, m).retry_count = row[m].retry_count
                                     /\ row[m].status # "PENDING" => Reconciled(r, m).status # "PENDING"
<1>1. row[m] \in Row /\ seen[r][m] + 1 \in Nat
  BY DEF TypeOK
<1>2. CASE resp[r] = "not_found"
  BY <1>1, <1>2, Statuses DEF Reconciled, Row
<1>3. CASE resp[r] = "sent"
  BY <1>1, <1>3, Statuses DEF Reconciled, Row
<1>4. CASE resp[r] = "delivered"
  BY <1>1, <1>4, Statuses DEF Reconciled, Row
<1>5. CASE resp[r] = "failed"
  BY <1>1, <1>5, Statuses DEF Reconciled, Row
<1>6. CASE resp[r] = "unknown"
  BY <1>1, <1>6, Statuses DEF Reconciled, Row
<1> QED
  BY <1>2, <1>3, <1>4, <1>5, <1>6 DEF QueryAnswers

\* What an adapter may answer; but for Twilio's, "not_found" is the truth.
LEMMA QueryTruth ==
  ASSUME NEW m \in Messages
  PROVE  /\ QueryResults(m) \subseteq QueryAnswers
         /\ Adapter # "twilio" /\ "not_found" \in QueryResults(m) => accepted[m] = {}
<1>1. Truth(m) \subseteq QueryAnswers
  BY DEF Truth, QueryAnswers
<1>2. "not_found" \in Truth(m) => accepted[m] = {}
  BY DEF Truth
<1>3. {"unknown", "not_found"} \subseteq QueryAnswers
  BY DEF QueryAnswers
<1>4. CASE Adapter = "africas_talking"
  BY <1>3, <1>4 DEF QueryResults
<1>5. CASE Adapter = "twilio"
  BY <1>1, <1>3, <1>5 DEF QueryResults
<1>6. CASE Adapter = "contract"
  BY <1>1, <1>2, <1>3, <1>6 DEF QueryResults
<1> QED
  BY <1>4, <1>5, <1>6, OutboxAssumption DEF OutboxAssumption

\* The row a delivery report leaves.
LEMMA RecordedRow ==
  ASSUME TypeOK, SessionOK, NEW h \in Hooks, RecordReport(h)
  PROVE  LET m == report[h].msg IN
         /\ m \in Messages /\ lock[m] = NoProc
         /\ row' = [row EXCEPT ![m] = row'[m]]
         /\ image' = [image EXCEPT ![m] = row'[m]]
         /\ row'[m] \in Row
         /\ row'[m].retry_count = row[m].retry_count
         /\ row'[m].status \in {"SENT", "DELIVERED", "FAILED"} \/ row'[m] = row[m]
<1> DEFINE m == report[h].msg
           new == IF pc[h] = "setting"
                  THEN [row[m] EXCEPT !.status = status_map[report[h].status]] ELSE row[m]
<1>1. report[h] \in Report
  BY DEF RecordReport, SessionOK
<1>2. m \in Messages /\ row[m] \in Row /\ report[h].status \in {"Sent", "Delivered", "Failed"}
  BY <1>1 DEF Report, FinalReports, TypeOK
<1>3. status_map[report[h].status] \in {"SENT", "DELIVERED", "FAILED"}
  BY <1>2 DEF status_map
<1>4. new \in Row
  BY <1>2, <1>3, RowAssign, Statuses
<1>5. /\ new.retry_count = row[m].retry_count
      /\ new.status \in {"SENT", "DELIVERED", "FAILED"} \/ new = row[m]
  BY <1>2, <1>3 DEF Row
<1>6. row' = [row EXCEPT ![m] = new] /\ image' = [image EXCEPT ![m] = new] /\ lock[m] = NoProc
  BY DEF RecordReport
<1> HIDE DEF new
<1> QED
  BY <1>2, <1>4, <1>5, <1>6 DEF TypeOK

-----------------------------------------------------------------------------
\* Well-formedness, with what pc says of each session.
LEMMA TypeStep == TypeOK /\ SessionOK /\ [Next]_vars => TypeOK'
<1> SUFFICES ASSUME TypeOK, SessionOK, [Next]_vars PROVE TypeOK'
  OBVIOUS
<1> USE OutboxAssumption DEF TypeOK, Workers, Goto, Done, Forget
<1>1. ASSUME NEW s \in Senders, PollPending(s) PROVE TypeOK'
  BY <1>1 DEF PollPending, Pollable, providerVars, historyVars
<1>2. ASSUME NEW s \in Senders, NEW m \in Messages, NEW st \in MessageStatus, Settle(s, m, st)
      PROVE TypeOK'
  <2>1. [image[m] EXCEPT !.status = st] \in Row
    BY RowAssign
  <2>2. image' = [image EXCEPT ![m] = [image[m] EXCEPT !.status = st]]
    BY <1>2 DEF Settle
  <2> QED
    BY <1>2, <2>1, <2>2 DEF Settle, providerVars, historyVars
<1>3. ASSUME NEW s \in Senders, NEW m \in Messages, PassGates(s, m) PROVE TypeOK'
  <2>1. [image[m] EXCEPT !.status = "SENDING"] \in Row
    BY RowAssign, Statuses
  <2>2. image' = [image EXCEPT ![m] = [image[m] EXCEPT !.status = "SENDING"]]
    BY <1>3 DEF PassGates
  <2> QED
    BY <1>3, <2>1, <2>2 DEF PassGates, providerVars, historyVars
<1>4. ASSUME NEW s \in Senders, CallProvider(s) PROVE TypeOK'
  <2> DEFINE m == cur[s]
  <2>1. m \in Messages
    BY <1>4 DEF CallProvider, SessionOK
  <2>2. calls' = [calls EXCEPT ![m] = calls[m] + 1] /\ called' = called \cup {m}
    BY <1>4 DEF CallProvider
  <2>3. PICK isNewSms \in BOOLEAN :
          /\ accepted' = [accepted EXCEPT ![m] = IF isNewSms THEN @ \cup {calls[m] + 1} ELSE @]
          /\ \E a \in Answers(m, isNewSms) : resp' = [resp EXCEPT ![s] = a]
    BY <1>4 DEF CallProvider
  <2>4. accepted' \in [Messages -> SUBSET (Nat \ {0})]
    BY <2>1, <2>3
  <2>5. resp' \in [Workers -> SendAnswers \cup QueryAnswers \cup {"none"}]
    BY <2>3 DEF Answers, SendAnswers
  <2>6. calls' \in [Messages -> Nat] /\ called' \subseteq Messages
    BY <2>1, <2>2
  <2> QED
    BY <1>4, <2>4, <2>5, <2>6 DEF CallProvider
<1>5. ASSUME NEW s \in Senders, TransitionStatus(s) PROVE TypeOK'
  <2> DEFINE m == cur[s]
  <2>1. m \in Messages /\ resp[s] \in SendAnswers
    BY <1>5 DEF TransitionStatus, SessionOK
  <2>2. Transitioned(s, m) \in Row
    BY <2>1, TransitionedRow
  <2>3. image' = [image EXCEPT ![m] = Transitioned(s, m)]
    BY <1>5 DEF TransitionStatus
  <2>4. image' \in [Messages -> Row]
    BY <2>2, <2>3
  <2> QED
    BY <1>5, <2>4 DEF TransitionStatus, providerVars, historyVars
<1>6. ASSUME NEW s \in Senders, CommitBatch(s) PROVE TypeOK'
  BY <1>6 DEF CommitBatch, Commit, Release, Held, providerVars
<1>7. ASSUME NEW r \in Reconcilers, GetUnknownDeliveries(r) PROVE TypeOK'
  BY <1>7 DEF GetUnknownDeliveries, UnknownDeliveries, Row, providerVars, historyVars
<1>8. ASSUME NEW r \in Reconcilers, NEW m \in Messages, QueryDelivery(r, m) PROVE TypeOK'
  BY <1>8 DEF QueryDelivery, QueryResults, Truth, QueryAnswers, providerVars, historyVars
<1>9. ASSUME NEW r \in Reconcilers, ReconcileUnknownDelivery(r) PROVE TypeOK'
  <2> DEFINE m == cur[r]
  <2>1. m \in Messages /\ resp[r] \in QueryAnswers
    BY <1>9 DEF ReconcileUnknownDelivery, SessionOK
  <2>2. Reconciled(r, m) \in Row
    BY <2>1, ReconciledRow
  <2>3. image' \in [Messages -> Row] /\ lock' \in [Messages -> Workers \cup {NoProc}]
    BY <1>9, <2>1, <2>2 DEF ReconcileUnknownDelivery, Update
  <2> QED
    BY <1>9, <2>3 DEF ReconcileUnknownDelivery, providerVars, historyVars
<1>10. ASSUME NEW r \in Reconcilers, CommitReconciled(r) PROVE TypeOK'
  BY <1>10 DEF CommitReconciled, Commit, Release, Held, providerVars
<1>11. ASSUME NEW p \in Payers, SelectReminders(p) PROVE TypeOK'
  BY <1>11 DEF SelectReminders, providerVars, historyVars
<1>12. ASSUME NEW p \in Payers, NEW m \in Messages, SuppressReminder(p, m) PROVE TypeOK'
  <2>1. [row[m] EXCEPT !.status = "SUPPRESSED"] \in Row
    BY RowAssign, Statuses
  <2> QED
    BY <1>12, <2>1 DEF SuppressReminder, Update, providerVars, historyVars
<1>13. ASSUME NEW p \in Payers, CommitSuppressed(p) PROVE TypeOK'
  BY <1>13 DEF CommitSuppressed, Commit, Release, Held, providerVars
<1>14. ASSUME NEW h \in Hooks, ReceiveReport(h) PROVE TypeOK'
  BY <1>14 DEF ReceiveReport, Deliverable, Report, providerVars, historyVars
<1>15. ASSUME NEW h \in Hooks, RecordReport(h) PROVE TypeOK'
  <2>1. callbacks' \subseteq Report
    BY <1>15 DEF RecordReport, SessionOK
  <2> QED
    BY <1>15, <2>1, RecordedRow DEF RecordReport, providerVars, historyVars
<1>16. ASSUME NEW h \in Hooks, RejectDuplicateReport(h) PROVE TypeOK'
  BY <1>16 DEF RejectDuplicateReport, providerVars, historyVars
<1>17. ASSUME NEW w \in Workers, Abort(w) \/ RollBackSuppressed(w) PROVE TypeOK'
  <2>1. aborts' \in Nat /\ RollBack(w)
    BY <1>17 DEF Abort, RollBackSuppressed
  <2> QED
    BY <2>1 DEF RollBack, Release, Held, providerVars
<1>18. ASSUME NEW m \in Messages, NEW id \in accepted[m], EmitReport(m, id) PROVE TypeOK'
  BY <1>18 DEF EmitReport, Report, FinalReports, sessionVars, historyVars
<1>19. CASE UNCHANGED vars
  BY <1>19 DEF vars, sessionVars, providerVars, historyVars
<1> QED
  BY <1>1, <1>2, <1>3, <1>4, <1>5, <1>6, <1>7, <1>8, <1>9, <1>10, <1>11, <1>12, <1>13, <1>14,
     <1>15, <1>16, <1>17, <1>18, <1>19, Statuses
     DEF Next, SendStep, SettleStep, DropContact, Defer, FailBeforeCall, ReconcileStep, PayStep,
         HookStep, Provider

\* Each step keeps what sessions hold to what they have locked.
LEMMA SessionStep == TypeOK /\ SessionOK /\ [Next]_vars => SessionOK'
<1> SUFFICES ASSUME TypeOK, SessionOK, [Next]_vars PROVE SessionOK'
  OBVIOUS
<1> USE OutboxAssumption DEF TypeOK, SessionOK, Workers, Goto, Done, Forget
<1>1. ASSUME NEW s \in Senders, PollPending(s) PROVE SessionOK'
  BY <1>1 DEF PollPending
<1>2. ASSUME NEW s \in Senders, NEW m \in Messages, NEW st, Settle(s, m, st) PROVE SessionOK'
  <2>1. todo' = [todo EXCEPT ![s] = todo[s] \ {m}] /\ UNCHANGED <<pc, cur, resp, report>>
    BY <1>2 DEF Settle
  <2> QED
    BY <1>2, <2>1 DEF Settle
<1>3. ASSUME NEW s \in Senders, NEW m \in Messages, PassGates(s, m) PROVE SessionOK'
  BY <1>3 DEF PassGates
<1>4. ASSUME NEW s \in Senders, CallProvider(s) PROVE SessionOK'
  <2>1. PICK a \in SendAnswers : resp' = [resp EXCEPT ![s] = a]
    BY <1>4 DEF CallProvider, Answers, SendAnswers
  <2> QED
    BY <1>4, <2>1 DEF CallProvider
<1>5. ASSUME NEW s \in Senders, TransitionStatus(s) PROVE SessionOK'
  BY <1>5 DEF TransitionStatus
<1>6. ASSUME NEW s \in Senders, CommitBatch(s) PROVE SessionOK'
  BY <1>6 DEF CommitBatch
<1>7. ASSUME NEW r \in Reconcilers, GetUnknownDeliveries(r) PROVE SessionOK'
  BY <1>7 DEF GetUnknownDeliveries, UnknownDeliveries
<1>8. ASSUME NEW r \in Reconcilers, NEW m \in Messages, QueryDelivery(r, m) PROVE SessionOK'
  <2>1. PICK a \in QueryAnswers : resp' = [resp EXCEPT ![r] = a]
    BY <1>8, QueryTruth DEF QueryDelivery
  <2> QED
    BY <1>8, <2>1 DEF QueryDelivery
<1>9. ASSUME NEW r \in Reconcilers, ReconcileUnknownDelivery(r) PROVE SessionOK'
  BY <1>9 DEF ReconcileUnknownDelivery
<1>10. ASSUME NEW r \in Reconcilers, CommitReconciled(r) PROVE SessionOK'
  BY <1>10 DEF CommitReconciled
<1>11. ASSUME NEW p \in Payers, SelectReminders(p) PROVE SessionOK'
  BY <1>11 DEF SelectReminders
<1>12. ASSUME NEW p \in Payers, NEW m \in Messages, SuppressReminder(p, m) PROVE SessionOK'
  BY <1>12 DEF SuppressReminder
<1>13. ASSUME NEW p \in Payers, CommitSuppressed(p) PROVE SessionOK'
  BY <1>13 DEF CommitSuppressed
<1>14. ASSUME NEW h \in Hooks, ReceiveReport(h) PROVE SessionOK'
  <2>1. Deliverable \subseteq Report
    BY DEF Deliverable, Report
  <2>2. PICK rep \in Report : /\ report' = [report EXCEPT ![h] = rep]
                              /\ \E w \in {"keeping", "setting"} : pc' = [pc EXCEPT ![h] = w]
    BY <1>14, <2>1 DEF ReceiveReport
  <2> QED
    BY <1>14, <2>2 DEF ReceiveReport
<1>15. ASSUME NEW h \in Hooks, RecordReport(h) PROVE SessionOK'
  BY <1>15 DEF RecordReport
<1>16. ASSUME NEW h \in Hooks, RejectDuplicateReport(h) PROVE SessionOK'
  BY <1>16 DEF RejectDuplicateReport
<1>17. ASSUME NEW w \in Workers, RollBack(w) PROVE SessionOK'
  BY <1>17 DEF RollBack
<1>18. ASSUME NEW m \in Messages, NEW id \in accepted[m], EmitReport(m, id) PROVE SessionOK'
  BY <1>18 DEF EmitReport, sessionVars
<1>19. CASE UNCHANGED vars
  BY <1>19 DEF vars, sessionVars
<1> QED
  BY <1>1, <1>2, <1>3, <1>4, <1>5, <1>6, <1>7, <1>8, <1>9, <1>10, <1>11, <1>12, <1>13, <1>14,
     <1>15, <1>16, <1>17, <1>18, <1>19
     DEF Next, SendStep, SettleStep, DropContact, Defer, FailBeforeCall, ReconcileStep, PayStep,
         HookStep, Provider, Abort, RollBackSuppressed, Workers

LEMMA TypeInit == Init => TypeOK /\ SessionOK
BY OutboxAssumption
   DEF Init, TypeOK, SessionOK, Workers, Row, NewRow, NoReport, MessageStatus,
       Lifecycle!MessageStatus

\* Every reachable state is well formed, and pc tells what a session holds.
THEOREM TypeCorrect == Spec => [](TypeOK /\ SessionOK)
<1>1. TypeOK /\ SessionOK /\ [Next]_vars => (TypeOK /\ SessionOK)'
  BY TypeStep, SessionStep
<1> QED
  BY TypeInit, <1>1, PTL DEF Spec

-----------------------------------------------------------------------------
LEMMA RowsInit == Init => ClaimsOK /\ SelectionsOK
BY OutboxAssumption
   DEF Init, NewRow, ClaimsOK, SelectionsOK, FreeRow, SenderRow, ReconcilerRow, PayerRow, Workers

\* The row lock taken by the poll is kept until the batch commits or dies.
LEMMA ClaimsStep ==
  ASSUME TypeOK, SessionOK, ClaimsOK, [Next]_vars
  PROVE  ClaimsOK'
<1> USE OutboxAssumption
    DEF TypeOK, SessionOK, ClaimsOK, FreeRow, SenderRow, Workers, Goto, Done, Forget
<1>1. ASSUME NEW s \in Senders, PollPending(s) PROVE ClaimsOK'
  BY <1>1 DEF PollPending, Pollable, historyVars
<1>2. ASSUME NEW s \in Senders, NEW m \in Messages, NEW st \in MessageStatus, Settle(s, m, st)
      PROVE ClaimsOK'
  BY <1>2 DEF Settle, Row, historyVars
<1>3. ASSUME NEW s \in Senders, NEW m \in Messages, PassGates(s, m) PROVE ClaimsOK'
  BY <1>3 DEF PassGates, Row, historyVars
<1>4. ASSUME NEW s \in Senders, CallProvider(s) PROVE ClaimsOK'
  BY <1>4 DEF CallProvider
<1>5. ASSUME NEW s \in Senders, TransitionStatus(s) PROVE ClaimsOK'
  <2> DEFINE m == cur[s]
  <2>1. m \in Messages /\ resp[s] \in SendAnswers
    BY <1>5 DEF TransitionStatus
  <2>2. image' = [image EXCEPT ![m] = Transitioned(s, m)]
    BY <1>5 DEF TransitionStatus
  <2>3. /\ image'[m].status \in {"SENT", "UNKNOWN_DELIVERY", "FAILED"}
        /\ image'[m].retry_count = image[m].retry_count
    BY <2>1, <2>2, TransitionedRow DEF SendOutcome, SendAnswers
  <2>4. \A x \in Messages : x # m => image'[x] = image[x]
    BY <2>2
  <2>5. lock[m] = s
    BY <2>1
  <2> QED
    BY <1>5, <2>1, <2>3, <2>4, <2>5 DEF TransitionStatus, historyVars
<1>6. ASSUME NEW s \in Senders, CommitBatch(s) PROVE ClaimsOK'
  BY <1>6 DEF CommitBatch, Commit, Release, Held
<1>7. ASSUME NEW r \in Reconcilers, GetUnknownDeliveries(r) PROVE ClaimsOK'
  BY <1>7 DEF GetUnknownDeliveries, UnknownDeliveries, historyVars
<1>8. ASSUME NEW r \in Reconcilers, NEW m \in Messages, QueryDelivery(r, m) PROVE ClaimsOK'
  BY <1>8 DEF QueryDelivery, historyVars
<1>9. ASSUME NEW r \in Reconcilers, ReconcileUnknownDelivery(r) PROVE ClaimsOK'
  BY <1>9, ReconciledRow DEF ReconcileUnknownDelivery, Update, historyVars
<1>10. ASSUME NEW r \in Reconcilers, CommitReconciled(r) PROVE ClaimsOK'
  BY <1>10 DEF CommitReconciled, Commit, Release, Held
<1>11. ASSUME NEW p \in Payers, SelectReminders(p) PROVE ClaimsOK'
  BY <1>11 DEF SelectReminders, historyVars
<1>12. ASSUME NEW p \in Payers, NEW m \in Messages, SuppressReminder(p, m) PROVE ClaimsOK'
  BY <1>12 DEF SuppressReminder, Update, Row, historyVars
<1>13. ASSUME NEW p \in Payers, CommitSuppressed(p) PROVE ClaimsOK'
  BY <1>13 DEF CommitSuppressed, Commit, Release, Held
<1>14. ASSUME NEW h \in Hooks, ReceiveReport(h) PROVE ClaimsOK'
  BY <1>14 DEF ReceiveReport, historyVars
<1>15. ASSUME NEW h \in Hooks, RecordReport(h) PROVE ClaimsOK'
  <2> DEFINE m == report[h].msg
  <2>1. /\ m \in Messages /\ lock[m] = NoProc
        /\ \A x \in Messages : x # m => row'[x] = row[x] /\ image'[x] = image[x]
        /\ image'[m] = row'[m]
    BY <1>15, RecordedRow
  <2>2. /\ UNCHANGED <<lock, todo, cur, seen, called>>
        /\ \A w \in Workers \ {h} : pc'[w] = pc[w]
    BY <1>15 DEF RecordReport, historyVars
  <2> HIDE DEF m
  <2>3. \A x \in Messages : FreeRow(x)' /\ lock'[x] \notin Hooks
    BY <2>1, <2>2
  <2>4. \A x \in Messages, s \in Senders : SenderRow(s, x)'
    BY <2>1, <2>2
  <2> QED
    BY <2>3, <2>4
<1>16. ASSUME NEW h \in Hooks, RejectDuplicateReport(h) PROVE ClaimsOK'
  BY <1>16 DEF RejectDuplicateReport, historyVars
<1>17. ASSUME NEW w \in Workers, RollBack(w) PROVE ClaimsOK'
  BY <1>17 DEF RollBack, Release, Held
<1>18. ASSUME NEW m \in Messages, NEW id \in accepted[m], EmitReport(m, id) PROVE ClaimsOK'
  BY <1>18 DEF EmitReport, sessionVars, historyVars
<1>19. CASE UNCHANGED vars
  BY <1>19 DEF vars, sessionVars, historyVars
<1> QED
  BY <1>1, <1>2, <1>3, <1>4, <1>5, <1>6, <1>7, <1>8, <1>9, <1>10, <1>11, <1>12, <1>13, <1>14,
     <1>15, <1>16, <1>17, <1>18, <1>19, Statuses
     DEF Next, SendStep, SettleStep, DropContact, Defer, FailBeforeCall, ReconcileStep, PayStep,
         HookStep, Provider, Abort, RollBackSuppressed, Workers

\* No message is ever in the hands of two senders, whatever else runs.
THEOREM ClaimsAreExclusive == Spec => []ClaimExclusive
<1> DEFINE Inv == TypeOK /\ SessionOK /\ ClaimsOK
<1>1. Init => Inv
  BY RowsInit, TypeInit
<1>2. Inv /\ [Next]_vars => Inv'
  BY TypeStep, SessionStep, ClaimsStep
<1>3. Inv => ClaimExclusive
  <2> SUFFICES ASSUME Inv PROVE ClaimExclusive
    OBVIOUS
  <2>1. \A s \in Senders : \A m \in Claimed(s) : m \in Messages /\ lock[m] = s
    BY DEF TypeOK, ClaimsOK, SenderRow, Claimed, Workers
  <2> QED
    BY <2>1 DEF ClaimExclusive
<1> QED
  BY <1>1, <1>2, <1>3, PTL DEF Spec

-----------------------------------------------------------------------------
\* Beat starts the reconciliation every five minutes and a task is killed
\* after five: unless tasks pile up in the queue, there is one at a time.
OneReconciler == \A r1, r2 \in Reconcilers : r1 = r2

\* What one reconciliation selected stays as it was until it writes, but for
\* what a payment or a delivery report does to it.
LEMMA SelectionsStep ==
  ASSUME OneReconciler, TypeOK, SessionOK, ClaimsOK, SelectionsOK, [Next]_vars
  PROVE  SelectionsOK'
<1> USE OutboxAssumption
    DEF TypeOK, SessionOK, ClaimsOK, SelectionsOK, FreeRow, SenderRow, ReconcilerRow, PayerRow,
        Workers, Goto, Done, Forget
<1>1. ASSUME NEW s \in Senders, PollPending(s) PROVE SelectionsOK'
  BY <1>1 DEF PollPending, Pollable, historyVars
<1>2. ASSUME NEW s \in Senders, NEW m \in Messages, NEW st \in MessageStatus, Settle(s, m, st)
      PROVE SelectionsOK'
  BY <1>2 DEF Settle, Row, historyVars
<1>3. ASSUME NEW s \in Senders, NEW m \in Messages, PassGates(s, m) PROVE SelectionsOK'
  BY <1>3 DEF PassGates, Row, historyVars
<1>4. ASSUME NEW s \in Senders, CallProvider(s) PROVE SelectionsOK'
  BY <1>4 DEF CallProvider
<1>5. ASSUME NEW s \in Senders, TransitionStatus(s) PROVE SelectionsOK'
  <2> DEFINE m == cur[s]
  <2>1. m \in Messages /\ resp[s] \in SendAnswers
    BY <1>5 DEF TransitionStatus
  <2>2. image' = [image EXCEPT ![m] = Transitioned(s, m)]
    BY <1>5 DEF TransitionStatus
  <2>3. /\ image'[m].status \in {"SENT", "UNKNOWN_DELIVERY", "FAILED"}
        /\ image'[m].retry_count = image[m].retry_count
    BY <2>1, <2>2, TransitionedRow DEF SendOutcome, SendAnswers
  <2>4. \A x \in Messages : x # m => image'[x] = image[x]
    BY <2>2
  <2>5. lock[m] = s
    BY <2>1
  <2> QED
    BY <1>5, <2>1, <2>3, <2>4, <2>5 DEF TransitionStatus, historyVars
<1>6. ASSUME NEW s \in Senders, CommitBatch(s) PROVE SelectionsOK'
  BY <1>6 DEF CommitBatch, Commit, Release, Held
<1>7. ASSUME NEW r \in Reconcilers, GetUnknownDeliveries(r) PROVE SelectionsOK'
  BY <1>7 DEF GetUnknownDeliveries, UnknownDeliveries, historyVars
<1>8. ASSUME NEW r \in Reconcilers, NEW m \in Messages, QueryDelivery(r, m) PROVE SelectionsOK'
  BY <1>8 DEF QueryDelivery, historyVars
<1>9. ASSUME NEW r \in Reconcilers, ReconcileUnknownDelivery(r) PROVE SelectionsOK'
  BY <1>9, ReconciledRow DEF ReconcileUnknownDelivery, Update, historyVars
<1>10. ASSUME NEW r \in Reconcilers, CommitReconciled(r) PROVE SelectionsOK'
  BY <1>10 DEF CommitReconciled, Commit, Release, Held, OneReconciler
<1>11. ASSUME NEW p \in Payers, SelectReminders(p) PROVE SelectionsOK'
  BY <1>11 DEF SelectReminders, historyVars
<1>12. ASSUME NEW p \in Payers, NEW m \in Messages, SuppressReminder(p, m) PROVE SelectionsOK'
  BY <1>12 DEF SuppressReminder, Update, Row, historyVars
<1>13. ASSUME NEW p \in Payers, CommitSuppressed(p) PROVE SelectionsOK'
  BY <1>13 DEF CommitSuppressed, Commit, Release, Held
<1>14. ASSUME NEW h \in Hooks, ReceiveReport(h) PROVE SelectionsOK'
  BY <1>14 DEF ReceiveReport, historyVars
<1>15. ASSUME NEW h \in Hooks, RecordReport(h) PROVE SelectionsOK'
  <2> DEFINE m == report[h].msg
  <2>1. /\ m \in Messages /\ lock[m] = NoProc
        /\ \A x \in Messages : x # m => row'[x] = row[x] /\ image'[x] = image[x]
        /\ image'[m] = row'[m]
        /\ row'[m].retry_count = row[m].retry_count
        /\ row'[m].status \in {"SENT", "DELIVERED", "FAILED"} \/ row'[m] = row[m]
    BY <1>15, RecordedRow
  <2>2. /\ UNCHANGED <<lock, todo, cur, seen, called>>
        /\ \A w \in Workers \ {h} : pc'[w] = pc[w]
    BY <1>15 DEF RecordReport, historyVars
  <2> HIDE DEF m
  <2>3. \A x \in Messages : row'[x].status = "UNKNOWN_DELIVERY" => row'[x].retry_count < MaxRetries
    BY <2>1
  <2>4. \A x \in Messages, r \in Reconcilers : ReconcilerRow(r, x)'
    BY <2>1, <2>2
  <2>5. \A x \in Messages, p \in Payers : PayerRow(p, x)'
    BY <2>1, <2>2
  <2> QED
    BY <2>3, <2>4, <2>5
<1>16. ASSUME NEW h \in Hooks, RejectDuplicateReport(h) PROVE SelectionsOK'
  BY <1>16 DEF RejectDuplicateReport, historyVars
<1>17. ASSUME NEW w \in Workers, RollBack(w) PROVE SelectionsOK'
  BY <1>17 DEF RollBack, Release, Held
<1>18. ASSUME NEW m \in Messages, NEW id \in accepted[m], EmitReport(m, id) PROVE SelectionsOK'
  BY <1>18 DEF EmitReport, sessionVars, historyVars
<1>19. CASE UNCHANGED vars
  BY <1>19 DEF vars, sessionVars, historyVars
<1> QED
  BY <1>1, <1>2, <1>3, <1>4, <1>5, <1>6, <1>7, <1>8, <1>9, <1>10, <1>11, <1>12, <1>13, <1>14,
     <1>15, <1>16, <1>17, <1>18, <1>19, Statuses
     DEF Next, SendStep, SettleStep, DropContact, Defer, FailBeforeCall, ReconcileStep, PayStep,
         HookStep, Provider, Abort, RollBackSuppressed, Workers

-----------------------------------------------------------------------------
\* The account of provider calls.
LEMMA CallsStep ==
  ASSUME TypeOK, SessionOK, ClaimsOK, SelectionsOK, CallsOK, [Next]_vars
  PROVE  CallsOK'
<1> USE OutboxAssumption DEF TypeOK, CallsOK, Workers, Row
<1>1. ASSUME NEW s \in Senders, PollPending(s) PROVE CallsOK'
  BY <1>1 DEF PollPending, providerVars, historyVars
<1>2. ASSUME NEW s \in Senders, NEW m \in Messages, NEW st \in MessageStatus, Settle(s, m, st)
      PROVE CallsOK'
  BY <1>2 DEF Settle, providerVars, historyVars
<1>3. ASSUME NEW s \in Senders, NEW m \in Messages, PassGates(s, m) PROVE CallsOK'
  BY <1>3 DEF PassGates, providerVars, historyVars
<1>4. ASSUME NEW s \in Senders, CallProvider(s) PROVE CallsOK'
  BY <1>4 DEF CallProvider, SessionOK, ClaimsOK, SelectionsOK, SenderRow
<1>5. ASSUME NEW s \in Senders, TransitionStatus(s) PROVE CallsOK'
  BY <1>5 DEF TransitionStatus, providerVars, historyVars
<1>6. ASSUME NEW s \in Senders, CommitBatch(s) PROVE CallsOK'
  BY <1>6 DEF CommitBatch, Commit, Release, Held, providerVars, ClaimsOK, SenderRow
<1>7. ASSUME NEW r \in Reconcilers, GetUnknownDeliveries(r) PROVE CallsOK'
  BY <1>7 DEF GetUnknownDeliveries, UnknownDeliveries, providerVars, historyVars
<1>8. ASSUME NEW r \in Reconcilers, NEW m \in Messages, QueryDelivery(r, m) PROVE CallsOK'
  BY <1>8 DEF QueryDelivery, providerVars, historyVars
<1>9. ASSUME NEW r \in Reconcilers, ReconcileUnknownDelivery(r) PROVE CallsOK'
  BY <1>9 DEF ReconcileUnknownDelivery, providerVars, historyVars
<1>10. ASSUME NEW r \in Reconcilers, CommitReconciled(r) PROVE CallsOK'
  BY <1>10 DEF CommitReconciled, Commit, Release, Held, providerVars, SelectionsOK, ReconcilerRow
<1>11. ASSUME NEW p \in Payers, SelectReminders(p) PROVE CallsOK'
  BY <1>11 DEF SelectReminders, providerVars, historyVars
<1>12. ASSUME NEW p \in Payers, NEW m \in Messages, SuppressReminder(p, m) PROVE CallsOK'
  BY <1>12 DEF SuppressReminder, providerVars, historyVars
<1>13. ASSUME NEW p \in Payers, CommitSuppressed(p) PROVE CallsOK'
  BY <1>13 DEF CommitSuppressed, Commit, Release, Held, providerVars, SelectionsOK, PayerRow
<1>14. ASSUME NEW h \in Hooks, ReceiveReport(h) PROVE CallsOK'
  BY <1>14 DEF ReceiveReport, providerVars, historyVars
<1>15. ASSUME NEW h \in Hooks, RecordReport(h) PROVE CallsOK'
  <2>1. UNCHANGED <<calls, lost, called>>
    BY <1>15 DEF RecordReport, providerVars, historyVars
  <2> DEFINE m == report[h].msg
  <2>2. /\ m \in Messages
        /\ \A x \in Messages : x # m => row'[x] = row[x]
        /\ row'[m].retry_count = row[m].retry_count
        /\ row'[m].status \in {"SENT", "DELIVERED", "FAILED"} \/ row'[m] = row[m]
    BY <1>15, RecordedRow
  <2> HIDE DEF m
  <2>3. \A x \in Messages :
          /\ row'[x].retry_count = row[x].retry_count
          /\ row'[x].status = "PENDING" => row[x].status = "PENDING"
    BY <2>2
  <2> QED
    BY <2>1, <2>3
<1>16. ASSUME NEW h \in Hooks, RejectDuplicateReport(h) PROVE CallsOK'
  BY <1>16 DEF RejectDuplicateReport, providerVars, historyVars
<1>17. ASSUME NEW w \in Workers, RollBack(w) PROVE CallsOK'
  BY <1>17 DEF RollBack, Release, Held, providerVars
<1>18. ASSUME NEW m \in Messages, NEW id \in accepted[m], EmitReport(m, id) PROVE CallsOK'
  BY <1>18 DEF EmitReport, historyVars
<1>19. CASE UNCHANGED vars
  BY <1>19 DEF vars, providerVars, historyVars
<1> QED
  BY <1>1, <1>2, <1>3, <1>4, <1>5, <1>6, <1>7, <1>8, <1>9, <1>10, <1>11, <1>12, <1>13, <1>14,
     <1>15, <1>16, <1>17, <1>18, <1>19, Statuses
     DEF Next, SendStep, SettleStep, DropContact, Defer, FailBeforeCall, ReconcileStep, PayStep,
         HookStep, Provider, Abort, RollBackSuppressed, Workers

\* A reconciliation that does not overlap itself cannot make the outbox submit
\* a message more often than max_retries allows, crashes aside.
THEOREM RetryBudgetHolds == OneReconciler => (Spec => []RetryBudget)
<1> SUFFICES ASSUME OneReconciler PROVE Spec => []RetryBudget
  OBVIOUS
<1> DEFINE Inv == TypeOK /\ SessionOK /\ ClaimsOK /\ SelectionsOK /\ CallsOK
<1>1. Init => Inv
  <2>1. Init => CallsOK
    BY OutboxAssumption DEF Init, NewRow, CallsOK
  <2> QED
    BY <2>1, RowsInit, TypeInit
<1>2. Inv /\ [Next]_vars => Inv'
  BY TypeStep, SessionStep, ClaimsStep, SelectionsStep, CallsStep
<1>3. Inv => RetryBudget
  BY OutboxAssumption DEF CallsOK, RetryBudget, TypeOK
<1> QED
  BY <1>1, <1>2, <1>3, PTL DEF Spec

-----------------------------------------------------------------------------
\* The account of SMS.  A row a reconciliation has in hand is not PENDING, so
\* no sender calls for it between the query and the commit.
LEMMA SmsStep ==
  ASSUME Adapter # "twilio", TypeOK, SessionOK, ClaimsOK, SelectionsOK, SmsOK, [Next]_vars
  PROVE  SmsOK'
<1> USE OutboxAssumption DEF TypeOK, SmsOK, Workers, Goto, Done, Forget
<1>1. ASSUME NEW s \in Senders, PollPending(s) PROVE SmsOK'
  BY <1>1 DEF PollPending, Pollable, providerVars, historyVars
<1>2. ASSUME NEW s \in Senders, NEW m \in Messages, NEW st \in MessageStatus, Settle(s, m, st)
      PROVE SmsOK'
  BY <1>2 DEF Settle, Row, providerVars, historyVars, ClaimsOK, SenderRow
<1>3. ASSUME NEW s \in Senders, NEW m \in Messages, PassGates(s, m) PROVE SmsOK'
  BY <1>3 DEF PassGates, Row, providerVars, historyVars, ClaimsOK, SenderRow
<1>4. ASSUME NEW s \in Senders, CallProvider(s) PROVE SmsOK'
  <2> DEFINE m == cur[s]
  <2>1. /\ m \in Messages /\ lock[m] = s /\ m \notin called
        /\ row[m].status = "PENDING"
    BY <1>4 DEF CallProvider, SessionOK, ClaimsOK, SelectionsOK, SenderRow
  <2>0a. PICK isNewSms \in BOOLEAN :
          /\ accepted' = [accepted EXCEPT ![m] = IF isNewSms THEN @ \cup {calls[m] + 1} ELSE @]
          /\ \E a \in Answers(m, isNewSms) : resp' = [resp EXCEPT ![s] = a]
    BY <1>4 DEF CallProvider
  <2>0b. accepted' = accepted \/ accepted' = [accepted EXCEPT ![m] = @ \cup {calls[m] + 1}]
    BY <2>1, <2>0a
  <2>2. /\ UNCHANGED <<row, image, lock, cur, lost>>
        /\ called' = called \cup {m}
        /\ pc' = [pc EXCEPT ![s] = "answered"]
        /\ \E a : resp' = [resp EXCEPT ![s] = a]
        /\ \/ accepted' = accepted
           \/ accepted' = [accepted EXCEPT ![m] = @ \cup {calls[m] + 1}]
    BY <1>4, <2>0a, <2>0b DEF CallProvider
  <2>3. IsFiniteSet(accepted[m]) /\ Cardinality(accepted[m]) <= lost[m]
    BY <2>1
  <2>4. accepted'[m] \in {accepted[m], accepted[m] \cup {calls[m] + 1}}
    BY <2>1, <2>2
  <2>5. \A S, x : IsFiniteSet(S) =>
          /\ IsFiniteSet(S \cup {x}) /\ Cardinality(S) \in Nat
          /\ Cardinality(S \cup {x}) \in {Cardinality(S), Cardinality(S) + 1}
    BY FS_AddElement, FS_CardinalityType
  <2>6. IsFiniteSet(accepted'[m]) /\ Cardinality(accepted'[m]) <= lost[m] + 1
    <3>1. lost[m] \in Nat
      BY <2>1
    <3>2. CASE accepted'[m] = accepted[m]
      <4>1. Cardinality(accepted[m]) \in Nat
        BY <2>3, FS_CardinalityType
      <4> QED
        BY <2>3, <3>1, <3>2, <4>1
    <3>3. CASE accepted'[m] = accepted[m] \cup {calls[m] + 1}
      <4> DEFINE S == accepted[m]
                 x == calls[m] + 1
      <4>1. /\ IsFiniteSet(S \cup {x}) /\ Cardinality(S) \in Nat
            /\ Cardinality(S \cup {x}) \in {Cardinality(S), Cardinality(S) + 1}
        BY <2>3, <2>5
      <4> HIDE DEF x
      <4> QED
        BY <2>3, <3>1, <3>3, <4>1 DEF x
    <3> QED
      BY <2>4, <3>2, <3>3
  <2>7. \A x \in Messages : x # m => accepted'[x] = accepted[x]
    BY <2>2
  <2>8. \A r \in Reconcilers : /\ pc[r] = "queried" => cur[r] # m
                               /\ lock[m] # r
    BY <2>1 DEF SessionOK, ClaimsOK, SelectionsOK, ReconcilerRow
  <2>9. \A r \in Reconcilers : pc'[r] = pc[r] /\ resp'[r] = resp[r]
    BY <2>2
  <2> QED
    BY <2>1, <2>2, <2>6, <2>7, <2>8, <2>9
<1>5. ASSUME NEW s \in Senders, TransitionStatus(s) PROVE SmsOK'
  BY <1>5 DEF TransitionStatus, providerVars, historyVars, SessionOK, ClaimsOK, SelectionsOK, SenderRow
<1>6. ASSUME NEW s \in Senders, CommitBatch(s) PROVE SmsOK'
  BY <1>6 DEF CommitBatch, Commit, Release, Held, providerVars, ClaimsOK, SenderRow
<1>7. ASSUME NEW r \in Reconcilers, GetUnknownDeliveries(r) PROVE SmsOK'
  BY <1>7 DEF GetUnknownDeliveries, UnknownDeliveries, providerVars, historyVars
<1>8. ASSUME NEW r \in Reconcilers, NEW m \in Messages, QueryDelivery(r, m) PROVE SmsOK'
  <2>1. PICK a \in QueryResults(m) : resp' = [resp EXCEPT ![r] = a]
    BY <1>8 DEF QueryDelivery
  <2>2. a = "not_found" => accepted[m] = {}
    BY QueryTruth
  <2> QED
    BY <1>8, <2>1, <2>2 DEF QueryDelivery, providerVars, historyVars
<1>9. ASSUME NEW r \in Reconcilers, ReconcileUnknownDelivery(r) PROVE SmsOK'
  <2> DEFINE m == cur[r]
  <2>1. /\ m \in Messages /\ resp[r] \in QueryAnswers /\ row[m].status # "PENDING"
        /\ resp[r] = "not_found" => accepted[m] = {}
    BY <1>9 DEF ReconcileUnknownDelivery, SessionOK, ClaimsOK, SelectionsOK, ReconcilerRow
  <2>2. Reconciled(r, m).status = "PENDING" => accepted[m] = {}
    BY <2>1, ReconciledRow
  <2> QED
    BY <1>9, <2>1, <2>2 DEF ReconcileUnknownDelivery, Update, providerVars, historyVars
<1>10. ASSUME NEW r \in Reconcilers, CommitReconciled(r) PROVE SmsOK'
  <2>1. /\ UNCHANGED <<accepted, lost, cur, resp, image>>
        /\ pc' = [pc EXCEPT ![r] = "idle"]
        /\ called' = called \ {m \in Messages : lock[m] = r}
        /\ lock' = [m \in Messages |-> IF lock[m] = r THEN NoProc ELSE lock[m]]
    BY <1>10 DEF CommitReconciled, Commit, Release, Held, providerVars
  <2>2. row' = [m \in Messages |-> IF lock[m] = r THEN image[m] ELSE row[m]]
    BY <1>10 DEF CommitReconciled, Commit
  <2>3. \A m \in Messages : lock[m] = r /\ image[m].status = "PENDING" => Cardinality(accepted[m]) = 0
    BY FS_EmptySet
  <2>4. \A m \in Messages :
          row'[m].status = "PENDING" /\ m \notin called' => Cardinality(accepted[m]) <= lost[m]
    BY <2>1, <2>2, <2>3
  <2> QED
    BY <2>1, <2>4
<1>11. ASSUME NEW p \in Payers, SelectReminders(p) PROVE SmsOK'
  BY <1>11 DEF SelectReminders, providerVars, historyVars
<1>12. ASSUME NEW p \in Payers, NEW m \in Messages, SuppressReminder(p, m) PROVE SmsOK'
  BY <1>12 DEF SuppressReminder, Update, providerVars, historyVars
<1>13. ASSUME NEW p \in Payers, CommitSuppressed(p) PROVE SmsOK'
  BY <1>13 DEF CommitSuppressed, Commit, Release, Held, providerVars, SelectionsOK, PayerRow
<1>14. ASSUME NEW h \in Hooks, ReceiveReport(h) PROVE SmsOK'
  BY <1>14 DEF ReceiveReport, providerVars, historyVars
<1>15. ASSUME NEW h \in Hooks, RecordReport(h) PROVE SmsOK'
  <2>1. /\ UNCHANGED <<accepted, lost, called, lock, cur, resp>>
        /\ \A r \in Reconcilers : pc'[r] = pc[r]
    BY <1>15 DEF RecordReport, providerVars, historyVars
  <2>2. \A x \in Messages :
          /\ row'[x].status = "PENDING" => row[x].status = "PENDING"
          /\ lock[x] # NoProc => image'[x] = image[x]
    BY <1>15, RecordedRow
  <2> QED
    BY <2>1, <2>2
<1>16. ASSUME NEW h \in Hooks, RejectDuplicateReport(h) PROVE SmsOK'
  BY <1>16 DEF RejectDuplicateReport, providerVars, historyVars
<1>17. ASSUME NEW w \in Workers, RollBack(w) PROVE SmsOK'
  <2>1. /\ UNCHANGED <<row, accepted>>
        /\ called' = called \ {m \in Messages : lock[m] = w}
        /\ lock' = [m \in Messages |-> IF lock[m] = w THEN NoProc ELSE lock[m]]
        /\ pc' = [pc EXCEPT ![w] = "idle"]
        /\ \A r \in Workers \ {w} : cur'[r] = cur[r] /\ resp'[r] = resp[r]
    BY <1>17 DEF RollBack, Release, Held, providerVars
  <2>2. \A m \in Messages :
          /\ lock[m] # w => image'[m] = image[m]
          /\ lost'[m] = IF lock[m] = w /\ m \in called THEN lost[m] + 1 ELSE lost[m]
    BY <1>17 DEF RollBack
  <2>3. \A m \in Messages : Cardinality(accepted[m]) \in Nat
    BY FS_CardinalityType
  <2>4. \A m \in Messages :
          /\ Cardinality(accepted[m]) <= lost'[m] + 1
          /\ row[m].status = "PENDING" /\ m \notin called' => Cardinality(accepted[m]) <= lost'[m]
    BY <2>1, <2>2, <2>3
  <2> QED
    BY <2>1, <2>2, <2>4
<1>18. ASSUME NEW m \in Messages, NEW id \in accepted[m], EmitReport(m, id) PROVE SmsOK'
  BY <1>18 DEF EmitReport, sessionVars, historyVars
<1>19. CASE UNCHANGED vars
  BY <1>19 DEF vars, sessionVars, providerVars, historyVars
<1> QED
  BY <1>1, <1>2, <1>3, <1>4, <1>5, <1>6, <1>7, <1>8, <1>9, <1>10, <1>11, <1>12, <1>13, <1>14,
     <1>15, <1>16, <1>17, <1>18, <1>19, Statuses
     DEF Next, SendStep, SettleStep, DropContact, Defer, FailBeforeCall, ReconcileStep, PayStep,
         HookStep, Provider, Abort, RollBackSuppressed, Workers

\* With one reconciliation at a time and an adapter that says "not_found" only
\* of what the provider does not have, a customer gets a message twice only
\* when a session died after its call.
THEOREM NoDuplicatesWithoutCrash ==
  OneReconciler /\ Adapter # "twilio" => (Spec => []DuplicatesNeedACrash)
<1> SUFFICES ASSUME OneReconciler, Adapter # "twilio" PROVE Spec => []DuplicatesNeedACrash
  OBVIOUS
<1> DEFINE Inv == TypeOK /\ SessionOK /\ ClaimsOK /\ SelectionsOK /\ SmsOK
<1>1. Init => Inv
  <2>1. Init => SmsOK
    BY OutboxAssumption, FS_EmptySet DEF Init, SmsOK, Workers
  <2> QED
    BY <2>1, RowsInit, TypeInit
<1>2. Inv /\ [Next]_vars => Inv'
  BY TypeStep, SessionStep, ClaimsStep, SelectionsStep, SmsStep
<1>3. Inv => DuplicatesNeedACrash
  BY FS_CardinalityType DEF SmsOK, DuplicatesNeedACrash, TypeOK
<1> QED
  BY <1>1, <1>2, <1>3, PTL DEF Spec
=============================================================================
