------------------------ MODULE OutboxOutcomeProofs ------------------------
(***************************************************************************)
(* What TLAPS proves of the outcomes Outbox commits: a success is always   *)
(* one the provider had, and a known outcome never goes back to the        *)
(* outbox.                                                                 *)
(***************************************************************************)
EXTENDS OutboxProofs

\* The id and the status a sender writes after its call.
LEMMA TransitionedId ==
  ASSUME TypeOK, NEW s \in Senders, NEW m \in Messages, resp[s] \in SendAnswers
  PROVE  /\ Transitioned(s, m).status = SendOutcome[resp[s]]
         /\ Transitioned(s, m).provider_message_id # image[m].provider_message_id =>
               /\ resp[s] = "ACCEPTED"
               /\ Transitioned(s, m).provider_message_id \in accepted[m]
<1>1. image[m] \in Row
  BY DEF TypeOK
<1>2. Transitioned(s, m).provider_message_id =
        IF resp[s] = "ACCEPTED" /\ calls[m] \in accepted[m] THEN calls[m]
        ELSE image[m].provider_message_id
  BY <1>1 DEF Transitioned, Row
<1> QED
  BY <1>2, TransitionedRow

\* What the reconciliation writes of a row: never the id, and a success only
\* on the provider's word.
LEMMA ReconciledId ==
  ASSUME TypeOK, NEW r \in Reconcilers, NEW m \in Messages, resp[r] \in QueryAnswers
  PROVE  /\ Reconciled(r, m).provider_message_id = row[m].provider_message_id
         /\ \/ Reconciled(r, m).status = row[m].status
            \/ Reconciled(r, m).status \in {"PENDING", "FAILED"}
            \/ Reconciled(r, m).status = "SENT" /\ resp[r] = "sent"
            \/ Reconciled(r, m).status = "DELIVERED" /\ resp[r] = "delivered"
<1>1. row[m] \in Row
  BY DEF TypeOK
<1>2. CASE resp[r] = "not_found"
  BY <1>1, <1>2 DEF Reconciled, Row
<1>3. CASE resp[r] = "sent"
  BY <1>1, <1>3 DEF Reconciled, Row
<1>4. CASE resp[r] = "delivered"
  BY <1>1, <1>4 DEF Reconciled, Row
<1>5. CASE resp[r] = "failed"
  BY <1>1, <1>5 DEF Reconciled, Row
<1>6. CASE resp[r] = "unknown"
  BY <1>1, <1>6 DEF Reconciled, Row
<1> QED
  BY <1>2, <1>3, <1>4, <1>5, <1>6 DEF QueryAnswers

\* What a delivery report writes of its row.
LEMMA RecordedId ==
  ASSUME TypeOK, SessionOK, NEW h \in Hooks, RecordReport(h)
  PROVE  LET m == report[h].msg IN
         /\ row'[m].provider_message_id = row[m].provider_message_id
         /\ row'[m].status = "DELIVERED" =>
               row[m].status = "DELIVERED" \/ report[h].status = "Delivered"
<1> DEFINE m == report[h].msg
           new == IF pc[h] = "setting"
                  THEN [row[m] EXCEPT !.status = status_map[report[h].status]] ELSE row[m]
<1>1. report[h] \in Report
  BY DEF RecordReport, SessionOK
<1>2. m \in Messages /\ row[m] \in Row /\ report[h].status \in {"Sent", "Delivered", "Failed"}
  BY <1>1 DEF Report, FinalReports, TypeOK
<1>3. /\ new.provider_message_id = row[m].provider_message_id
      /\ new.status = row[m].status \/ new.status = status_map[report[h].status]
  BY <1>2 DEF Row
<1>4. status_map[report[h].status] = "DELIVERED" => report[h].status = "Delivered"
  BY <1>2 DEF status_map
<1>5. row' = [row EXCEPT ![m] = new]
  BY DEF RecordReport
<1>6. row'[m] = new
  BY <1>2, <1>5 DEF TypeOK
<1> HIDE DEF new
<1> QED
  BY <1>3, <1>4, <1>6

\* No adapter tells of a success the provider did not have.
LEMMA QuerySuccess ==
  ASSUME NEW m \in Messages, NEW a \in QueryResults(m)
  PROVE  /\ a \in {"sent", "delivered"} => accepted[m] # {}
         /\ a = "delivered" => \E rep \in reports : rep.msg = m /\ rep.status = "Delivered"
<1>1. a \in Truth(m) \/ a \in {"not_found", "unknown"}
  BY OutboxAssumption DEF QueryResults, OutboxAssumption
<1>2. CASE a \in Truth(m)
  BY <1>2 DEF Truth
<1> QED
  BY <1>1, <1>2

\* accepted and reports only grow, so what they back stays backed.
LEMMA BackedGrows ==
  ASSUME NEW m \in Messages, accepted[m] \subseteq accepted'[m], reports \subseteq reports',
         NEW r, RowBacked(r, m)
  PROVE  /\ r.status \in {"SENT", "DELIVERED"} => accepted'[m] # {}
         /\ r.provider_message_id # 0 => r.provider_message_id \in accepted'[m]
         /\ r.status = "DELIVERED" => \E rep \in reports' : rep.msg = m /\ rep.status = "Delivered"
BY DEF RowBacked

-----------------------------------------------------------------------------
\* Whatever a session holds or writes of a success is backed by the provider.
LEMMA BackedStep ==
  ASSUME TypeOK, SessionOK, BackedOK, [Next]_vars
  PROVE  BackedOK'
<1> USE OutboxAssumption
    DEF TypeOK, SessionOK, BackedOK, RowBacked, AnswerBacked, Workers, Goto, Done, Forget
<1>1. ASSUME NEW s \in Senders, PollPending(s) PROVE BackedOK'
  BY <1>1 DEF PollPending, providerVars
<1>2. ASSUME NEW s \in Senders, NEW m \in Messages, NEW st \in {"FAILED", "PENDING", "SENDING"},
             Settle(s, m, st)
      PROVE BackedOK'
  BY <1>2 DEF Settle, Row, providerVars
<1>3. ASSUME NEW s \in Senders, NEW m \in Messages, PassGates(s, m) PROVE BackedOK'
  <2>1. /\ image' = [image EXCEPT ![m] = [image[m] EXCEPT !.status = "SENDING"]]
        /\ UNCHANGED <<row, resp, report, accepted, reports>>
        /\ pc' = [pc EXCEPT ![s] = "claimed"]
        /\ cur' = [cur EXCEPT ![s] = m]
    BY <1>3 DEF PassGates, providerVars
  <2>2. RowBacked([image[m] EXCEPT !.status = "SENDING"], m)
    BY DEF Row
  <2>3. \A x \in Messages : RowBacked(image[x], x)'
    BY <2>1, <2>2
  <2>4. \A t \in Senders : pc'[t] = "answered" => AnswerBacked(t)'
    <3> TAKE t \in Senders
    <3> HAVE pc'[t] = "answered"
    <3>1. t # s
      BY <2>1
    <3>2. pc[t] = "answered" /\ cur'[t] = cur[t] /\ resp'[t] = resp[t]
      BY <2>1, <3>1
    <3> QED
      BY <2>1, <3>2
  <2>5. \A r \in Reconcilers : pc'[r] = "queried" => AnswerBacked(r)'
    <3> TAKE r \in Reconcilers
    <3> HAVE pc'[r] = "queried"
    <3>1. pc[r] = "queried" /\ cur'[r] = cur[r] /\ resp'[r] = resp[r]
      BY <2>1
    <3>2. AnswerBacked(r)
      BY <3>1
    <3> QED
      BY <2>1, <3>1, <3>2
  <2> QED
    BY <2>1, <2>3, <2>4, <2>5
<1>4. ASSUME NEW s \in Senders, CallProvider(s) PROVE BackedOK'
  <2> DEFINE m == cur[s]
  <2>1. m \in Messages /\ pc[s] = "claimed"
    BY <1>4 DEF CallProvider
  <2>0. PICK isNewSms \in BOOLEAN :
          /\ accepted' = [accepted EXCEPT ![m] = IF isNewSms THEN @ \cup {calls[m] + 1} ELSE @]
          /\ \E a \in Answers(m, isNewSms) : resp' = [resp EXCEPT ![s] = a]
    BY <1>4 DEF CallProvider
  <2>2. PICK a \in Answers(m, isNewSms) : resp' = [resp EXCEPT ![s] = a]
    BY <2>0
  <2>3a. accepted'[m] = IF isNewSms THEN accepted[m] \cup {calls[m] + 1} ELSE accepted[m]
    BY <2>0, <2>1
  <2>3d. isNewSms => calls[m] + 1 \in accepted'[m]
    BY <2>3a
  <2>3b. a = "ACCEPTED" => isNewSms \/ accepted[m] # {}
    BY DEF Answers
  <2>3c. a \in SendAnswers
    BY DEF Answers, SendAnswers
  <2>3. a \in SendAnswers /\ (a = "ACCEPTED" => accepted'[m] # {})
    <3>1. ~isNewSms => accepted'[m] = accepted[m]
      BY <2>3a
    <3> HIDE DEF m
    <3> QED BY <2>3b, <2>3c, <2>3d, <3>1
  <2>4. \A x \in Messages : accepted[x] \subseteq accepted'[x]
    BY <2>0, <2>1
  <2>5. /\ UNCHANGED <<row, image, cur, report, reports>>
        /\ pc' = [pc EXCEPT ![s] = "answered"]
    BY <1>4 DEF CallProvider
  <2>6. \A x \in Messages : RowBacked(row[x], x)' /\ RowBacked(image[x], x)'
    BY <2>4, <2>5
  <2>7. \A t \in Senders : pc'[t] = "answered" => AnswerBacked(t)'
    BY <2>1, <2>2, <2>3, <2>4, <2>5 DEF SendAnswers
  <2>8. \A r \in Reconcilers : pc'[r] = "queried" => AnswerBacked(r)'
    <3> TAKE r \in Reconcilers
    <3> HAVE pc'[r] = "queried"
    <3>1. pc[r] = "queried" /\ cur[r] \in Messages /\ resp'[r] = resp[r] /\ cur'[r] = cur[r]
      BY <2>2, <2>5
    <3>2. AnswerBacked(r) /\ accepted[cur[r]] \subseteq accepted'[cur[r]]
      BY <2>4, <3>1
    <3> QED
      BY <2>5, <3>1, <3>2
  <2>9. /\ \A h \in Hooks : pc'[h] # "idle" =>
              /\ report'[h].id \in accepted'[report'[h].msg]
              /\ report'[h].status = "Delivered" => report'[h] \in reports'
        /\ \A rep \in reports' : rep.id \in accepted'[rep.msg]
    BY <2>4, <2>5 DEF Report
  <2> QED
    BY <2>6, <2>7, <2>8, <2>9
<1>5. ASSUME NEW s \in Senders, TransitionStatus(s) PROVE BackedOK'
  <2> DEFINE m == cur[s]
  <2>1. m \in Messages /\ resp[s] \in SendAnswers /\ (resp[s] = "ACCEPTED" => accepted[m] # {})
    BY <1>5 DEF TransitionStatus
  <2>2. /\ Transitioned(s, m).status = SendOutcome[resp[s]]
        /\ Transitioned(s, m).provider_message_id # image[m].provider_message_id =>
              Transitioned(s, m).provider_message_id \in accepted[m]
    BY <2>1, TransitionedId
  <2>3. RowBacked(Transitioned(s, m), m)
    BY <2>1, <2>2 DEF SendOutcome, SendAnswers
  <2>4. /\ image' = [image EXCEPT ![m] = Transitioned(s, m)]
        /\ UNCHANGED <<row, report, accepted, reports>>
    BY <1>5 DEF TransitionStatus, providerVars
  <2>5. \A x \in Messages : RowBacked(image[x], x)'
    BY <2>1, <2>3, <2>4
  <2> QED
    BY <1>5, <2>4, <2>5 DEF TransitionStatus
<1>6. ASSUME NEW s \in Senders, CommitBatch(s) PROVE BackedOK'
  BY <1>6 DEF CommitBatch, Commit, providerVars
<1>7. ASSUME NEW r \in Reconcilers, GetUnknownDeliveries(r) PROVE BackedOK'
  BY <1>7 DEF GetUnknownDeliveries, providerVars
<1>8. ASSUME NEW r \in Reconcilers, NEW m \in Messages, QueryDelivery(r, m) PROVE BackedOK'
  <2>1. PICK a \in QueryResults(m) : resp' = [resp EXCEPT ![r] = a]
    BY <1>8 DEF QueryDelivery
  <2>2. /\ a \in {"sent", "delivered"} => accepted[m] # {}
        /\ a = "delivered" => \E rep \in reports : rep.msg = m /\ rep.status = "Delivered"
    BY QuerySuccess
  <2>3. a # "ACCEPTED"
    BY QueryTruth DEF QueryAnswers
  <2>4. /\ UNCHANGED <<row, image, report, accepted, reports>>
        /\ pc' = [pc EXCEPT ![r] = "queried"]
        /\ cur' = [cur EXCEPT ![r] = m]
    BY <1>8 DEF QueryDelivery, providerVars
  <2>5. resp'[r] = a /\ cur'[r] = m
    BY <2>1, <2>4
  <2>6. AnswerBacked(r)'
    BY <2>2, <2>3, <2>4, <2>5
  <2>7. \A q \in Reconcilers \ {r} : pc'[q] = "queried" => AnswerBacked(q)'
    BY <2>1, <2>4
  <2>8. \A s \in Senders : pc'[s] = "answered" => AnswerBacked(s)'
    BY <2>1, <2>4
  <2> QED
    BY <2>4, <2>6, <2>7, <2>8
<1>9. ASSUME NEW r \in Reconcilers, ReconcileUnknownDelivery(r) PROVE BackedOK'
  <2> DEFINE m == cur[r]
  <2>1. m \in Messages /\ resp[r] \in QueryAnswers /\ AnswerBacked(r) /\ RowBacked(row[m], m)
    BY <1>9 DEF ReconcileUnknownDelivery
  <2>2. RowBacked(Reconciled(r, m), m)
    <3> DEFINE new == Reconciled(r, m)
    <3>1. /\ new.provider_message_id = row[m].provider_message_id
          /\ \/ new.status = row[m].status
             \/ new.status \in {"PENDING", "FAILED"}
             \/ new.status = "SENT" /\ resp[r] = "sent"
             \/ new.status = "DELIVERED" /\ resp[r] = "delivered"
      BY <2>1, ReconciledId
    <3> HIDE DEF new
    <3>2. RowBacked(new, m)
      BY <2>1, <3>1
    <3> QED
      BY <3>2 DEF new
  <2>3. /\ image' = [image EXCEPT ![m] = Reconciled(r, m)]
        /\ UNCHANGED <<row, report, accepted, reports>>
    BY <1>9 DEF ReconcileUnknownDelivery, Update, providerVars
  <2>4. \A x \in Messages : RowBacked(image[x], x)'
    BY <2>1, <2>2, <2>3
  <2> QED
    BY <1>9, <2>3, <2>4 DEF ReconcileUnknownDelivery
<1>10. ASSUME NEW r \in Reconcilers, CommitReconciled(r) PROVE BackedOK'
  BY <1>10 DEF CommitReconciled, Commit, providerVars
<1>11. ASSUME NEW p \in Payers, SelectReminders(p) PROVE BackedOK'
  BY <1>11 DEF SelectReminders, providerVars
<1>12. ASSUME NEW p \in Payers, NEW m \in Messages, SuppressReminder(p, m) PROVE BackedOK'
  BY <1>12 DEF SuppressReminder, Update, Row, providerVars
<1>13. ASSUME NEW p \in Payers, CommitSuppressed(p) PROVE BackedOK'
  BY <1>13 DEF CommitSuppressed, Commit, providerVars
<1>14. ASSUME NEW h \in Hooks, ReceiveReport(h) PROVE BackedOK'
  <2>1. \A rep \in Deliverable : /\ rep.id \in accepted[rep.msg]
                                 /\ rep.status = "Delivered" => rep \in reports
    BY DEF Deliverable
  <2>2. PICK rep \in Deliverable : report' = [report EXCEPT ![h] = rep]
    BY <1>14 DEF ReceiveReport
  <2> QED
    BY <1>14, <2>1, <2>2 DEF ReceiveReport, providerVars
<1>15. ASSUME NEW h \in Hooks, RecordReport(h) PROVE BackedOK'
  <2> DEFINE m == report[h].msg
  <2>1. /\ m \in Messages
        /\ row' = [row EXCEPT ![m] = row'[m]] /\ image' = [image EXCEPT ![m] = row'[m]]
        /\ row'[m].provider_message_id = row[m].provider_message_id
        /\ row'[m].status = "DELIVERED" =>
              row[m].status = "DELIVERED" \/ report[h].status = "Delivered"
    BY <1>15, RecordedRow, RecordedId
  <2>2. /\ accepted[m] # {}
        /\ report[h].status = "Delivered" => report[h] \in reports
    BY <1>15 DEF RecordReport
  <2>3. /\ UNCHANGED <<cur, resp, accepted, reports>>
        /\ report' = [report EXCEPT ![h] = NoReport]
        /\ pc' = [pc EXCEPT ![h] = "idle"]
    BY <1>15 DEF RecordReport, providerVars
  <2>4. RowBacked(row'[m], m)
    BY <2>1, <2>2
  <2>5. \A x \in Messages : RowBacked(row[x], x)' /\ RowBacked(image[x], x)'
    <3> HIDE DEF m
    <3> QED BY <2>1, <2>3, <2>4
  <2> QED
    BY <2>3, <2>5
<1>16. ASSUME NEW h \in Hooks, RejectDuplicateReport(h) PROVE BackedOK'
  BY <1>16 DEF RejectDuplicateReport, providerVars
<1>17. ASSUME NEW w \in Workers, RollBack(w) PROVE BackedOK'
  BY <1>17 DEF RollBack, providerVars
<1>18. ASSUME NEW m \in Messages, NEW id \in accepted[m], EmitReport(m, id) PROVE BackedOK'
  <2>1. /\ UNCHANGED <<row, image, pc, cur, resp, report, accepted>>
        /\ reports \subseteq reports'
        /\ \A rep \in reports' : rep.id \in accepted[rep.msg]
    BY <1>18 DEF EmitReport, sessionVars
  <2> QED
    BY <2>1
<1>19. CASE UNCHANGED vars
  BY <1>19 DEF vars, sessionVars, providerVars
<1> QED
  BY <1>1, <1>2, <1>3, <1>4, <1>5, <1>6, <1>7, <1>8, <1>9, <1>10, <1>11, <1>12, <1>13, <1>14,
     <1>15, <1>16, <1>17, <1>18, <1>19
     DEF Next, SendStep, SettleStep, DropContact, Defer, FailBeforeCall, ReconcileStep, PayStep,
         HookStep, Provider, Abort, RollBackSuppressed, Workers

\* At the start no row says that a message left, and none is on its way.
LEMMA BackedInit == Init => BackedOK
BY OutboxAssumption DEF Init, NewRow, NoReport, BackedOK, RowBacked, AnswerBacked, Workers

\* Whatever runs, dies or overlaps: a committed success is one the provider
\* had, and a committed delivery is one it reported.
THEOREM SuccessIsTheProviders == Spec => [](SentWasAccepted /\ DeliveredWasReported)
<1> DEFINE Inv == TypeOK /\ SessionOK /\ BackedOK
<1>1. Init => Inv
  BY BackedInit, TypeInit
<1>2. Inv /\ [Next]_vars => Inv'
  BY TypeStep, SessionStep, BackedStep
<1>3. Inv => SentWasAccepted /\ DeliveredWasReported
  BY DEF BackedOK, RowBacked, SentWasAccepted, DeliveredWasReported
<1> QED
  BY <1>1, <1>2, <1>3, PTL DEF Spec

-----------------------------------------------------------------------------
\* A row without a provider_message_id is out of the reach of delivery reports.
LEMMA IdsStep ==
  ASSUME OneReconciler, TypeOK, SessionOK, ClaimsOK, SelectionsOK, BackedOK, IdsOK, [Next]_vars
  PROVE  IdsOK'
<1> USE OutboxAssumption
    DEF TypeOK, SessionOK, ClaimsOK, FreeRow, SenderRow, IdsOK, Workers, Goto, Done, Forget
<1>1. ASSUME NEW s \in Senders, PollPending(s) PROVE IdsOK'
  BY <1>1 DEF PollPending, Pollable
<1>2. ASSUME NEW s \in Senders, NEW m \in Messages, NEW st \in MessageStatus, Settle(s, m, st)
      PROVE IdsOK'
  BY <1>2 DEF Settle, Row
<1>3. ASSUME NEW s \in Senders, NEW m \in Messages, PassGates(s, m) PROVE IdsOK'
  BY <1>3 DEF PassGates, Row
<1>4. ASSUME NEW s \in Senders, CallProvider(s) PROVE IdsOK'
  BY <1>4 DEF CallProvider
<1>5. ASSUME NEW s \in Senders, TransitionStatus(s) PROVE IdsOK'
  <2> DEFINE m == cur[s]
  <2>1. m \in Messages /\ resp[s] \in SendAnswers /\ lock[m] = s /\ image[m].provider_message_id = 0
    BY <1>5 DEF TransitionStatus
  <2>2. Transitioned(s, m).provider_message_id # 0 => Transitioned(s, m).status = "SENT"
    BY <2>1, TransitionedId DEF SendOutcome
  <2>3. /\ image' = [image EXCEPT ![m] = Transitioned(s, m)]
        /\ UNCHANGED <<row, lock, todo, report>>
        /\ \A w \in Workers \ {s} : pc'[w] = pc[w]
    BY <1>5 DEF TransitionStatus
  <2>4. \A x \in Messages : x # m => image'[x] = image[x]
    BY <2>3
  <2>5. image'[m].provider_message_id # 0 => image'[m].status = "SENT"
    BY <2>1, <2>2, <2>3
  <2> HIDE DEF m
  <2> QED
    BY <2>1, <2>3, <2>4, <2>5
<1>6. ASSUME NEW s \in Senders, CommitBatch(s) PROVE IdsOK'
  BY <1>6 DEF CommitBatch, Commit, Release, Held
<1>7. ASSUME NEW r \in Reconcilers, GetUnknownDeliveries(r) PROVE IdsOK'
  BY <1>7 DEF GetUnknownDeliveries, UnknownDeliveries
<1>8. ASSUME NEW r \in Reconcilers, NEW m \in Messages, QueryDelivery(r, m) PROVE IdsOK'
  BY <1>8 DEF QueryDelivery
<1>9. ASSUME NEW r \in Reconcilers, ReconcileUnknownDelivery(r) PROVE IdsOK'
  BY <1>9, ReconciledId DEF ReconcileUnknownDelivery, Update
<1>10. ASSUME NEW r \in Reconcilers, CommitReconciled(r) PROVE IdsOK'
  BY <1>10 DEF CommitReconciled, Commit, Release, Held, OneReconciler
<1>11. ASSUME NEW p \in Payers, SelectReminders(p) PROVE IdsOK'
  BY <1>11 DEF SelectReminders
<1>12. ASSUME NEW p \in Payers, NEW m \in Messages, SuppressReminder(p, m) PROVE IdsOK'
  BY <1>12 DEF SuppressReminder, Update, Row
<1>13. ASSUME NEW p \in Payers, CommitSuppressed(p) PROVE IdsOK'
  BY <1>13 DEF CommitSuppressed, Commit, Release, Held, SelectionsOK, PayerRow
<1>14. ASSUME NEW h \in Hooks, ReceiveReport(h) PROVE IdsOK'
  <2>1. \A rep \in Deliverable : rep.id \in Nat \ {0}
    BY DEF Deliverable, BackedOK, Report
  <2>2. PICK rep \in Deliverable : /\ row[rep.msg].provider_message_id = rep.id
                                  /\ report' = [report EXCEPT ![h] = rep]
    BY <1>14 DEF ReceiveReport
  <2> QED
    BY <1>14, <2>1, <2>2 DEF ReceiveReport
<1>15. ASSUME NEW h \in Hooks, RecordReport(h) PROVE IdsOK'
  <2> DEFINE m == report[h].msg
  <2>1. /\ m \in Messages /\ lock[m] = NoProc
        /\ \A x \in Messages : x # m => row'[x] = row[x] /\ image'[x] = image[x]
        /\ row'[m].provider_message_id = row[m].provider_message_id
    BY <1>15, RecordedRow, RecordedId
  <2>2. row[m].provider_message_id # 0
    BY <1>15, <2>1 DEF RecordReport
  <2>3. row'[m].status \in {"SENT", "DELIVERED", "FAILED"} \/ row'[m] = row[m]
    BY <1>15, RecordedRow
  <2>4. /\ UNCHANGED <<lock, todo>>
        /\ pc' = [pc EXCEPT ![h] = "idle"]
        /\ \A g \in Hooks \ {h} : report'[g] = report[g]
    BY <1>15 DEF RecordReport
  <2> HIDE DEF m
  <2> QED
    BY <2>1, <2>2, <2>3, <2>4
<1>16. ASSUME NEW h \in Hooks, RejectDuplicateReport(h) PROVE IdsOK'
  BY <1>16 DEF RejectDuplicateReport
<1>17. ASSUME NEW w \in Workers, RollBack(w) PROVE IdsOK'
  BY <1>17 DEF RollBack, Release, Held
<1>18. ASSUME NEW m \in Messages, NEW id \in accepted[m], EmitReport(m, id) PROVE IdsOK'
  BY <1>18 DEF EmitReport, sessionVars
<1>19. CASE UNCHANGED vars
  BY <1>19 DEF vars, sessionVars
<1> QED
  BY <1>1, <1>2, <1>3, <1>4, <1>5, <1>6, <1>7, <1>8, <1>9, <1>10, <1>11, <1>12, <1>13, <1>14,
     <1>15, <1>16, <1>17, <1>18, <1>19, Statuses
     DEF Next, SendStep, SettleStep, DropContact, Defer, FailBeforeCall, ReconcileStep, PayStep,
         HookStep, Provider, Abort, RollBackSuppressed, Workers

\* The commits that write row m, and what they find there.
LEMMA NoResendStep ==
  ASSUME TypeOK, SessionOK, ClaimsOK, SelectionsOK, IdsOK, [Next]_vars
  PROVE  \A m \in Messages : row[m].status \in {"SENT", "DELIVERED", "FAILED"}
                              => row'[m].status # "PENDING"
<1> DEFINE Kept == \A m \in Messages : row[m].status \in {"SENT", "DELIVERED", "FAILED"}
                                        => row'[m].status # "PENDING"
<1>1. ASSUME UNCHANGED row PROVE Kept
  BY <1>1
<1>2. ASSUME NEW s \in Senders, CommitBatch(s) PROVE Kept
  <2>1. \A m \in Messages : lock[m] = s => row[m].status = "PENDING"
    BY DEF ClaimsOK, SenderRow
  <2> QED
    BY <1>2, <2>1 DEF CommitBatch, Commit
<1>3. ASSUME NEW r \in Reconcilers, CommitReconciled(r) PROVE Kept
  <2>1. \A m \in Messages : lock[m] = r => row[m].status \in {"UNKNOWN_DELIVERY", "SUPPRESSED"}
    BY DEF IdsOK
  <2> QED
    BY <1>3, <2>1 DEF CommitReconciled, Commit
<1>4. ASSUME NEW p \in Payers, CommitSuppressed(p) PROVE Kept
  <2>1. \A m \in Messages : lock[m] = p => image[m].status = "SUPPRESSED"
    BY DEF SelectionsOK, PayerRow
  <2> QED
    BY <1>4, <2>1 DEF CommitSuppressed, Commit
<1>5. ASSUME NEW h \in Hooks, RecordReport(h) PROVE Kept
  <2> DEFINE m == report[h].msg
  <2>1. /\ m \in Messages
        /\ \A x \in Messages : x # m => row'[x] = row[x]
        /\ row'[m].status \in {"SENT", "DELIVERED", "FAILED"} \/ row'[m] = row[m]
    BY <1>5, RecordedRow DEF TypeOK
  <2> HIDE DEF m
  <2> QED
    BY <2>1
<1> HIDE DEF Kept
<1>6. ASSUME NEW s \in Senders, SendStep(s) PROVE Kept
  BY <1>1, <1>2, <1>6
     DEF SendStep, SettleStep, PollPending, DropContact, Defer, FailBeforeCall, Settle, PassGates,
         CallProvider, TransitionStatus
<1>7. ASSUME NEW r \in Reconcilers, ReconcileStep(r) PROVE Kept
  BY <1>1, <1>3, <1>7
     DEF ReconcileStep, GetUnknownDeliveries, QueryDelivery, ReconcileUnknownDelivery
<1>8. ASSUME NEW p \in Payers, PayStep(p) PROVE Kept
  BY <1>1, <1>4, <1>8 DEF PayStep, SelectReminders, SuppressReminder, RollBackSuppressed, RollBack
<1>9. ASSUME NEW h \in Hooks, HookStep(h) PROVE Kept
  BY <1>1, <1>5, <1>9 DEF HookStep, ReceiveReport, RejectDuplicateReport
<1>10. ASSUME NEW w \in Workers, Abort(w) PROVE Kept
  BY <1>1, <1>10 DEF Abort, RollBack
<1>11. ASSUME Provider PROVE Kept
  BY <1>1, <1>11 DEF Provider, EmitReport
<1>12. ASSUME UNCHANGED vars PROVE Kept
  BY <1>1, <1>12 DEF vars
<1>13. Kept
  BY <1>6, <1>7, <1>8, <1>9, <1>10, <1>11, <1>12 DEF Next
<1> QED
  BY <1>13 DEF Kept

\* While one reconciliation runs at a time, nothing puts a message whose
\* outcome is known back in the outbox.
THEOREM NoResend == OneReconciler => (Spec => NoResendFromSent)
<1> SUFFICES ASSUME OneReconciler PROVE Spec => NoResendFromSent
  OBVIOUS
<1> DEFINE Inv == TypeOK /\ SessionOK /\ ClaimsOK /\ SelectionsOK /\ BackedOK /\ IdsOK
           Kept == \A m \in Messages : row[m].status \in {"SENT", "DELIVERED", "FAILED"}
                                        => row'[m].status # "PENDING"
<1>1. Init => Inv
  <2>1. Init => IdsOK
    BY OutboxAssumption DEF Init, NewRow, IdsOK, Workers
  <2> QED
    BY <2>1, BackedInit, RowsInit, TypeInit
<1>2. Inv /\ [Next]_vars => Inv'
  BY TypeStep, SessionStep, ClaimsStep, SelectionsStep, BackedStep, IdsStep
<1>3. Inv /\ [Next]_vars => [Kept]_vars
  BY NoResendStep
<1> QED
  BY <1>1, <1>2, <1>3, PTL DEF Spec, NoResendFromSent
=============================================================================
