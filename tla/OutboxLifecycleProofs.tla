------------------------ MODULE OutboxLifecycleProofs ------------------------
(***************************************************************************)
(* What the outbox promises while only senders, one reconciliation and     *)
(* process_mpesa_payment write its rows: the documented life of a message, *)
(* and, for senders alone, the daily budget.                               *)
(***************************************************************************)
EXTENDS OutboxOutcomeProofs

\* Everything OutboxInvariants says of the rows and the sessions.
LEMMA InvariantInit == Init => TypeOK /\ InductiveInvariant
<1> SUFFICES ASSUME Init PROVE TypeOK /\ InductiveInvariant
  OBVIOUS
<1>1. CallsOK /\ SmsOK
  BY OutboxAssumption, FS_EmptySet DEF Init, NewRow, CallsOK, SmsOK, Workers
<1>2. IdsOK
  BY OutboxAssumption DEF Init, NewRow, IdsOK, Workers
<1> QED
  BY <1>1, <1>2, BackedInit, RowsInit, TypeInit DEF InductiveInvariant

\* While the reconciliation does not overlap itself and "not_found" is said only
\* of what the provider does not have, every session finds the rows it works on
\* as it may expect them, and every account of calls and SMS is kept.
THEOREM OutboxInvariant ==
  OneReconciler /\ Adapter # "twilio" => (Spec => [](TypeOK /\ InductiveInvariant))
<1> SUFFICES ASSUME OneReconciler, Adapter # "twilio"
             PROVE  Spec => [](TypeOK /\ InductiveInvariant)
  OBVIOUS
<1>1. TypeOK /\ InductiveInvariant /\ [Next]_vars => (TypeOK /\ InductiveInvariant)'
  BY TypeStep, SessionStep, ClaimsStep, SelectionsStep, CallsStep, SmsStep, BackedStep, IdsStep
     DEF InductiveInvariant
<1> QED
  BY <1>1, InvariantInit, PTL DEF Spec

\* DELIVERED is never inferred, whatever runs, dies or overlaps.
THEOREM DeliveriesWereReported == Spec => []DeliveredWasReported
  BY SuccessIsTheProviders, PTL

-----------------------------------------------------------------------------
(* The life of a message.                                                  *)

\* The writers that keep to it: a delivery report may arrive late ("Sent" after
\* "Delivered"), and the poll's suppression may overtake a sender.
LifecycleWriters == OneReconciler /\ Hooks = {} /\ Payers \subseteq MpesaPayers

\* Suppressed reminders are rolled back; a sender and a reconciliation leave in
\* the image what may follow the committed status.
LifeOK ==
    \A m \in Messages :
        /\ row[m].status # "SUPPRESSED"
        /\ lock[m] \in Senders =>
              image[m].status \in {"PENDING", "SENDING", "SENT", "UNKNOWN_DELIVERY", "FAILED"}
        /\ lock[m] \in Reconcilers =>
              image[m].status \in {"UNKNOWN_DELIVERY", "SENT", "DELIVERED", "FAILED", "PENDING"}

\* Each step keeps what the lifecycle of a message rests on.
LEMMA LifeStep ==
  ASSUME LifecycleWriters, TypeOK, SessionOK, ClaimsOK, SelectionsOK, IdsOK, LifeOK, [Next]_vars
  PROVE  LifeOK'
<1> USE OutboxAssumption DEF LifecycleWriters, TypeOK, ClaimsOK, FreeRow, SenderRow, LifeOK, Workers
<1>1. ASSUME NEW s \in Senders, PollPending(s) PROVE LifeOK'
  BY <1>1 DEF PollPending, Pollable
<1>2. ASSUME NEW s \in Senders, NEW m \in Messages,
             NEW st \in {"FAILED", "PENDING", "SENDING"}, Settle(s, m, st)
      PROVE  LifeOK'
  BY <1>2 DEF Settle, Row
<1>3. ASSUME NEW s \in Senders, NEW m \in Messages, PassGates(s, m) PROVE LifeOK'
  BY <1>3 DEF PassGates, Row
<1>4. ASSUME NEW s \in Senders, CallProvider(s) PROVE LifeOK'
  BY <1>4 DEF CallProvider
<1>5. ASSUME NEW s \in Senders, TransitionStatus(s) PROVE LifeOK'
  <2> DEFINE m == cur[s]
  <2>1. m \in Messages /\ resp[s] \in SendAnswers /\ lock[m] = s
    BY <1>5 DEF TransitionStatus, SessionOK
  <2>2. Transitioned(s, m).status \in {"SENT", "UNKNOWN_DELIVERY", "FAILED"}
    BY <2>1, TransitionedRow DEF SendAnswers, SendOutcome
  <2>3. /\ image' = [image EXCEPT ![m] = Transitioned(s, m)]
        /\ UNCHANGED <<row, lock>>
    BY <1>5 DEF TransitionStatus
  <2> HIDE DEF m
  <2> QED
    BY <2>1, <2>2, <2>3
<1>6. ASSUME NEW s \in Senders, CommitBatch(s) PROVE LifeOK'
  BY <1>6 DEF CommitBatch, Commit, Release
<1>7. ASSUME NEW r \in Reconcilers, GetUnknownDeliveries(r) PROVE LifeOK'
  BY <1>7 DEF GetUnknownDeliveries
<1>8. ASSUME NEW r \in Reconcilers, NEW m \in Messages, QueryDelivery(r, m) PROVE LifeOK'
  BY <1>8 DEF QueryDelivery
<1>9. ASSUME NEW r \in Reconcilers, ReconcileUnknownDelivery(r) PROVE LifeOK'
  <2> DEFINE m == cur[r]
  <2>1. m \in Messages /\ m \in todo[r] /\ resp[r] \in QueryAnswers
    BY <1>9 DEF ReconcileUnknownDelivery, SessionOK
  <2>2. row[m].status = "UNKNOWN_DELIVERY"
    BY <2>1 DEF IdsOK
  <2>3. Reconciled(r, m).status \in {"UNKNOWN_DELIVERY", "SENT", "DELIVERED", "FAILED", "PENDING"}
    BY <2>1, <2>2, ReconciledId
  <2>4. /\ lock' = [lock EXCEPT ![m] = r]
        /\ image' = [image EXCEPT ![m] = Reconciled(r, m)]
        /\ UNCHANGED row
    BY <1>9 DEF ReconcileUnknownDelivery, Update
  <2> HIDE DEF m
  <2> QED
    BY <2>1, <2>3, <2>4
<1>10. ASSUME NEW r \in Reconcilers, CommitReconciled(r) PROVE LifeOK'
  BY <1>10 DEF CommitReconciled, Commit, Release
<1>11. ASSUME NEW p \in Payers, SelectReminders(p) PROVE LifeOK'
  BY <1>11 DEF SelectReminders
<1>12. ASSUME NEW p \in Payers, NEW m \in Messages, SuppressReminder(p, m) PROVE LifeOK'
  BY <1>12 DEF SuppressReminder, Update
<1>13. ASSUME NEW w \in Workers, RollBack(w) PROVE LifeOK'
  BY <1>13 DEF RollBack, Release
<1>14. ASSUME NEW m \in Messages, NEW id \in accepted[m], EmitReport(m, id) PROVE LifeOK'
  BY <1>14 DEF EmitReport
<1>15. CASE UNCHANGED vars
  BY <1>15 DEF vars
<1> QED
  BY <1>1, <1>2, <1>3, <1>4, <1>5, <1>6, <1>7, <1>8, <1>9, <1>10, <1>11, <1>12, <1>13, <1>14, <1>15
     DEF Next, SendStep, SettleStep, DropContact, Defer, FailBeforeCall, ReconcileStep, PayStep,
         CommitSuppressed, RollBackSuppressed, Provider, Abort

\* What each writer commits follows from what was committed before.
LEMMA CommitFollows ==
  ASSUME TypeOK, ClaimsOK, IdsOK, LifeOK,
         NEW w \in Senders \cup Reconcilers, NEW m \in Messages, lock[m] = w,
         image[m].status # row[m].status
  PROVE  Lifecycle!Follows(row[m].status, image[m].status)
<1> USE DEF Lifecycle!Follows, Lifecycle!Edge, Lifecycle!VALID_TRANSITIONS, Lifecycle!MessageStatus
<1>1. CASE w \in Senders
  <2>1. row[m].status = "PENDING"
    BY <1>1 DEF ClaimsOK, SenderRow
  <2>2. image[m].status \in {"SENDING", "SENT", "UNKNOWN_DELIVERY", "FAILED"}
    BY <1>1, <2>1 DEF LifeOK
  <2>3. \A b \in {"SENDING", "SENT", "UNKNOWN_DELIVERY", "FAILED"} : Lifecycle!Follows("PENDING", b)
    OBVIOUS
  <2> QED
    BY <2>1, <2>2, <2>3
<1>2. CASE w \in Reconcilers
  <2>1. row[m].status = "UNKNOWN_DELIVERY"
    BY <1>2 DEF IdsOK, LifeOK
  <2>2. image[m].status \in {"SENT", "DELIVERED", "FAILED", "PENDING"}
    BY <1>2, <2>1 DEF LifeOK
  <2>3. \A b \in {"SENT", "DELIVERED", "FAILED", "PENDING"} :
          Lifecycle!Follows("UNKNOWN_DELIVERY", b)
    OBVIOUS
  <2> QED
    BY <2>1, <2>2, <2>3
<1> QED
  BY <1>1, <1>2

\* Each step of a writer that respects the lifecycle is one of MessageLifecycle.
LEMMA LifecycleStep ==
  ASSUME LifecycleWriters, TypeOK, SessionOK, ClaimsOK, IdsOK, LifeOK, [Next]_vars,
         NEW m \in Messages, row'[m].status # row[m].status
  PROVE  Lifecycle!Follows(row[m].status, row'[m].status)
<1>1. ASSUME UNCHANGED row PROVE FALSE
  BY <1>1
<1>2. PICK w \in Senders \cup Reconcilers : Commit(w)
  <2> DEFINE Goal == \E w \in Senders \cup Reconcilers : Commit(w)
  <2>1. ASSUME NEW s \in Senders, SendStep(s) PROVE Goal
    BY <1>1, <2>1
       DEF SendStep, SettleStep, PollPending, DropContact, Defer, FailBeforeCall, Settle, PassGates,
           CallProvider, TransitionStatus, CommitBatch
  <2>2. ASSUME NEW r \in Reconcilers, ReconcileStep(r) PROVE Goal
    BY <1>1, <2>2
       DEF ReconcileStep, GetUnknownDeliveries, QueryDelivery, ReconcileUnknownDelivery,
           CommitReconciled
  <2>3. ASSUME NEW p \in Payers, PayStep(p) PROVE FALSE
    BY <1>1, <2>3
       DEF LifecycleWriters, PayStep, SelectReminders, SuppressReminder, CommitSuppressed,
           RollBackSuppressed, RollBack
  <2>4. ASSUME NEW v \in Workers, Abort(v) PROVE FALSE
    BY <1>1, <2>4 DEF Abort, RollBack
  <2>5. ~Provider
    BY <1>1 DEF Provider, EmitReport
  <2> QED
    BY <1>1, <2>1, <2>2, <2>3, <2>4, <2>5 DEF Next, LifecycleWriters, vars
<1>3. row'[m] = IF lock[m] = w THEN image[m] ELSE row[m]
  BY <1>2 DEF Commit
<1>4. lock[m] = w /\ row'[m] = image[m]
  BY <1>3
<1> QED
  BY <1>4, CommitFollows

\* The outbox keeps to the documented life of a message: no interleaving, crash
\* or retry takes a message along an edge that is not there.
THEOREM LifecycleRefinement == LifecycleWriters => (Spec => ImplementsLifecycle)
<1> SUFFICES ASSUME LifecycleWriters PROVE Spec => ImplementsLifecycle
  OBVIOUS
<1> DEFINE Inv == TypeOK /\ SessionOK /\ ClaimsOK /\ SelectionsOK /\ BackedOK /\ IdsOK /\ LifeOK
           status == [m \in Messages |-> row[m].status]
<1>1. Init => Inv /\ Lifecycle!LifecycleInit
  <2> SUFFICES ASSUME Init PROVE Inv /\ Lifecycle!LifecycleInit
    OBVIOUS
  <2>1. LifeOK /\ Lifecycle!LifecycleInit
    BY OutboxAssumption DEF Init, NewRow, LifeOK, Lifecycle!LifecycleInit, Workers
  <2> QED
    BY <2>1, InvariantInit DEF InductiveInvariant
<1>2. Inv /\ [Next]_vars => Inv'
  BY TypeStep, SessionStep, ClaimsStep, SelectionsStep, BackedStep, IdsStep, LifeStep
     DEF LifecycleWriters
<1>3. Inv /\ Inv' /\ [Next]_vars => [Lifecycle!LifecycleNext]_status
  <2> SUFFICES ASSUME Inv, Inv', [Next]_vars PROVE Lifecycle!LifecycleNext
    OBVIOUS
  <2>1. status' \in [Messages -> Lifecycle!MessageStatus]
    BY DEF TypeOK, Row, MessageStatus
  <2>2. \A m \in Messages : status'[m] # status[m] => Lifecycle!Follows(status[m], status'[m])
    BY LifecycleStep
  <2> QED
    BY <2>1, <2>2 DEF Lifecycle!LifecycleNext
<1> QED
  BY <1>1, <1>2, <1>3, PTL DEF Spec, ImplementsLifecycle, Lifecycle!LifecycleSpec

-----------------------------------------------------------------------------
(* The daily budget.                                                       *)

\* Only senders add to the SENT messages: a report on a FAILED one and the
\* reconciliation of an open outcome would spend without looking at the budget.
OnlySendersSpend ==
    /\ Reconcilers = {} /\ Hooks = {}
    /\ Senders # {} /\ IsFiniteSet(Senders) /\ IsFiniteSet(Messages)

Success == {"SENT", "DELIVERED"}

\* Spent, committed or not, or about to be.
InHands(m) == lock[m] \in Senders /\ (image[m].status = "SENT" \/ m = cur[lock[m]])
Spending == {m \in Messages : row[m].status \in Success \/ InHands(m)}

Overshoot == (Cardinality(Senders) - 1) * BatchSize

BudgetOK ==
    /\ \A m \in Messages :
        /\ row[m].status \in Success => row[m].sent_at
        /\ lock[m] \in Senders =>
              /\ image[m].status = "SENT" => image[m].sent_at
              /\ image[m].status # "DELIVERED"
              /\ pc[lock[m]] # "idle"
    /\ \A s \in Senders : Cardinality(Held(s)) <= BatchSize
    /\ Cardinality(Spending) <= DailyBudget + Overshoot

\* One batch for each sender but s.
Slots(s) == (Senders \ {s}) \X (1..BatchSize)

\* There are as many places for attempts in flight as BudgetOvershoot allows.
LEMMA SlotCount ==
  ASSUME OnlySendersSpend, OutboxAssumption, NEW s \in Senders
  PROVE  IsFiniteSet(Slots(s)) /\ Cardinality(Slots(s)) = Overshoot /\ Overshoot \in Nat
<1>1. IsFiniteSet(Senders \ {s}) /\ Cardinality(Senders \ {s}) = Cardinality(Senders) - 1
  BY FS_RemoveElement DEF OnlySendersSpend
<1>2. IsFiniteSet(1..BatchSize) /\ Cardinality(1..BatchSize) = BatchSize
  BY FS_Interval DEF OutboxAssumption
<1>3. IsFiniteSet(Slots(s)) /\ Cardinality(Slots(s)) = Overshoot
  BY <1>1, <1>2, FS_Product DEF Overshoot, Slots
<1> QED
  BY <1>3, FS_CardinalityType

\* The rows that all senders but s hold: no more than a batch for each.
LEMMA HeldByOthers ==
  ASSUME OnlySendersSpend, OutboxAssumption, NEW s \in Senders,
         \A t \in Senders : Cardinality(Held(t)) <= BatchSize
  PROVE  LET others == {m \in Messages : lock[m] \in Senders \ {s}} IN
         IsFiniteSet(others) /\ Cardinality(others) <= Overshoot
<1> DEFINE others == {m \in Messages : lock[m] \in Senders \ {s}}
<1>1. \A t \in Senders : IsFiniteSet(Held(t))
  BY FS_Subset DEF Held, OnlySendersSpend
<1>2. ASSUME NEW t \in Senders PROVE \E f \in [Held(t) -> 1..BatchSize] : IsInjective(f)
  <2> DEFINE n == Cardinality(Held(t))
  <2>1. n \in Nat /\ n <= BatchSize /\ IsFiniteSet(1..n) /\ Cardinality(1..n) = n
    BY <1>1, FS_CardinalityType, FS_Interval
  <2>2. PICK f \in Bijection(Held(t), 1..n) : TRUE
    BY <1>1, <2>1, FS_SameCardinalityBij DEF ExistsBijection
  <2>3. f \in [Held(t) -> 1..n] /\ IsInjective(f)
    BY <2>2 DEF Bijection, Injection
  <2>4. 1..n \subseteq 1..BatchSize
    BY <2>1 DEF OutboxAssumption
  <2> QED
    BY <2>3, <2>4
<1> DEFINE number == [t \in Senders |->
                        CHOOSE f \in [Held(t) -> 1..BatchSize] : IsInjective(f)]
           slot == [m \in others |-> <<lock[m], number[lock[m]][m]>>]
<1>3. \A t \in Senders : number[t] \in [Held(t) -> 1..BatchSize] /\ IsInjective(number[t])
  BY <1>2
<1> HIDE DEF number
<1>4. slot \in Injection(others, Slots(s))
  <2>1. \A m \in others : m \in Held(lock[m]) /\ lock[m] \in Senders \ {s}
    BY DEF Held
  <2>2. slot \in [others -> Slots(s)]
    BY <1>3, <2>1 DEF Slots
  <2>3. ASSUME NEW a \in others, NEW b \in others, slot[a] = slot[b] PROVE a = b
    <3>1. lock[a] = lock[b] /\ number[lock[a]][a] = number[lock[a]][b]
      BY <2>3
    <3>2. a \in Held(lock[a]) /\ b \in Held(lock[a])
      BY <2>1, <3>1
    <3> QED
      BY <1>3, <2>1, <3>1, <3>2 DEF IsInjective
  <2> QED
    BY <2>2, <2>3 DEF Injection, IsInjective
<1> HIDE DEF slot, others
<1>5. IsFiniteSet(others) /\ Cardinality(others) <= Overshoot
  BY <1>4, SlotCount, FS_Injection
<1> QED
  BY <1>5 DEF others

\* A sender that passes the gate sees everything that is spent, but for what
\* the others have in hand.
LEMMA GateLeavesRoom ==
  ASSUME OnlySendersSpend, OutboxAssumption, TypeOK, SessionOK, ClaimsOK, BudgetOK,
         NEW s \in Senders, pc[s] = "working", DailySpend(s) < DailyBudget, NEW m \in Messages
  PROVE  Cardinality(Spending \cup {m}) <= DailyBudget + Overshoot
<1> DEFINE spent == {x \in Messages : View(s, x).status \in {"SENT", "DELIVERED"} /\ View(s, x).sent_at}
           others == {x \in Messages : lock[x] \in Senders \ {s}}
<1>1. \A x \in Spending : x \in spent \/ x \in others
  <2> SUFFICES ASSUME NEW x \in Spending, x \notin others PROVE x \in spent
    OBVIOUS
  <2>1. x \in Messages
    BY DEF Spending
  <2>2. lock[x] = s => row[x].status = "PENDING" /\ x # cur[s]
    BY <2>1 DEF ClaimsOK, SenderRow, SessionOK
  <2>3. CASE lock[x] = s
    BY <2>1, <2>2, <2>3 DEF Spending, InHands, View, BudgetOK, Success
  <2>4. CASE lock[x] # s
    BY <2>1, <2>4 DEF Spending, InHands, View, BudgetOK, Success
  <2> QED
    BY <2>3, <2>4
<1>2. IsFiniteSet(others) /\ Cardinality(others) <= Overshoot
  BY HeldByOthers DEF BudgetOK
<1>3. IsFiniteSet(spent) /\ Cardinality(spent) \in Nat /\ Cardinality(spent) < DailyBudget
  BY FS_Subset, FS_CardinalityType DEF OnlySendersSpend, DailySpend
<1> HIDE DEF spent, others
<1>4. /\ IsFiniteSet(spent \cup others)
      /\ Cardinality(spent \cup others) <= Cardinality(spent) + Cardinality(others)
  <2>1. Cardinality(spent \cap others) \in Nat
    BY <1>3, FS_Intersection, FS_CardinalityType
  <2>2. /\ IsFiniteSet(spent \cup others)
        /\ Cardinality(spent \cup others)
             = Cardinality(spent) + Cardinality(others) - Cardinality(spent \cap others)
    BY <1>2, <1>3, FS_Union
  <2>3. Cardinality(spent) \in Nat /\ Cardinality(others) \in Nat
    BY <1>2, <1>3, FS_CardinalityType
  <2> QED
    BY <2>1, <2>2, <2>3
<1>5. /\ IsFiniteSet(Spending)
      /\ Cardinality(Spending) <= Cardinality(spent \cup others)
  BY <1>1, <1>4, FS_Subset
<1>6. Cardinality(Spending \cup {m}) <= Cardinality(Spending) + 1
  <2>1. Cardinality(Spending) \in Nat
    BY <1>5, FS_CardinalityType
  <2>2. Cardinality(Spending \cup {m}) =
          IF m \in Spending THEN Cardinality(Spending) ELSE Cardinality(Spending) + 1
    BY <1>5, FS_AddElement
  <2> QED
    BY <2>1, <2>2
<1>7. /\ Cardinality(Spending) \in Nat /\ Cardinality(others) \in Nat
      /\ Cardinality(spent \cup others) \in Nat /\ Cardinality(Spending \cup {m}) \in Nat
  BY <1>2, <1>4, <1>5, FS_CardinalityType, FS_AddElement
<1> QED
  BY <1>2, <1>3, <1>4, <1>5, <1>6, <1>7, SlotCount DEF OutboxAssumption

\* Only passing the gate adds to what is spent.
LEMMA SpendingStep ==
  ASSUME OnlySendersSpend, TypeOK, SessionOK, ClaimsOK, SelectionsOK, BudgetOK, [Next]_vars
  PROVE  \/ Spending' \subseteq Spending
         \/ \E s \in Senders, m \in Messages :
              pc[s] = "working" /\ DailySpend(s) < DailyBudget /\ Spending' = Spending \cup {m}
<1> DEFINE Good == \/ Spending' \subseteq Spending
                   \/ \E s \in Senders, m \in Messages :
                        /\ pc[s] = "working" /\ DailySpend(s) < DailyBudget
                        /\ Spending' = Spending \cup {m}
<1>0. ASSUME \A m \in Messages : /\ row'[m].status \in Success => m \in Spending
                                 /\ InHands(m)' => m \in Spending
      PROVE  Good
  BY <1>0 DEF Spending
<1>1. ASSUME UNCHANGED <<row, lock, image, cur>> PROVE Good
  BY <1>1 DEF Spending, InHands
<1> USE OutboxAssumption DEF TypeOK, ClaimsOK, FreeRow, SenderRow, Workers, Spending, InHands, Success
<1>2. ASSUME NEW s \in Senders, PollPending(s) PROVE Good
  <2>1. cur[s] \notin Messages
    BY <1>2 DEF PollPending, SessionOK
  <2> QED
    BY <1>0, <1>2, <2>1 DEF PollPending, Pollable
<1>3. ASSUME NEW s \in Senders, NEW m \in Messages,
             NEW st \in {"FAILED", "PENDING", "SENDING"}, Settle(s, m, st)
      PROVE  Good
  BY <1>0, <1>3 DEF Settle, Row
<1>4. ASSUME NEW s \in Senders, NEW m \in Messages, PassGates(s, m) PROVE Good
  <2>1. /\ lock[m] = s /\ row[m].status = "PENDING" /\ cur[s] \notin Messages
        /\ image[m].status = "PENDING"
    BY <1>4 DEF PassGates, SessionOK
  <2>2. /\ cur' = [cur EXCEPT ![s] = m] /\ UNCHANGED <<row, lock>>
        /\ image' = [image EXCEPT ![m].status = "SENDING"]
    BY <1>4 DEF PassGates
  <2>3. m \in Spending'
    BY <2>1, <2>2
  <2>4. \A x \in Messages \ {m} : x \in Spending' <=> x \in Spending
    BY <2>1, <2>2
  <2>5. Spending' = Spending \cup {m}
    BY <2>3, <2>4
  <2> HIDE DEF Spending
  <2> QED
    BY <1>4, <2>5 DEF PassGates
<1>5. ASSUME NEW s \in Senders, CallProvider(s) PROVE Good
  BY <1>1, <1>5 DEF CallProvider
<1>6. ASSUME NEW s \in Senders, TransitionStatus(s) PROVE Good
  <2>1. cur[s] \in Messages /\ lock[cur[s]] = s
    BY <1>6 DEF TransitionStatus, SessionOK
  <2>2. \A m \in Messages \ {cur[s]} : image'[m] = image[m]
    BY <1>6 DEF TransitionStatus
  <2>3. /\ UNCHANGED <<row, lock>>
        /\ cur' = [cur EXCEPT ![s] = NoMsg]
    BY <1>6 DEF TransitionStatus, Forget
  <2> QED
    BY <1>0, <2>1, <2>2, <2>3
<1>7. ASSUME NEW s \in Senders, CommitBatch(s) PROVE Good
  <2>1. cur[s] \notin Messages
    BY <1>7 DEF CommitBatch, SessionOK
  <2>2. \A m \in Messages : lock[m] = s => image[m].status # "DELIVERED"
    BY DEF BudgetOK
  <2> QED
    BY <1>0, <1>7, <2>1, <2>2 DEF CommitBatch, Commit, Release
<1>8. ASSUME NEW p \in Payers, NEW m \in Messages, SuppressReminder(p, m) PROVE Good
  BY <1>0, <1>8 DEF SuppressReminder, Update
<1>9. ASSUME NEW p \in Payers, CommitSuppressed(p) PROVE Good
  BY <1>0, <1>9 DEF CommitSuppressed, Commit, Release, SelectionsOK, PayerRow
<1>10. ASSUME NEW w \in Workers, RollBack(w) PROVE Good
  <2>1. UNCHANGED row
    BY <1>10 DEF RollBack
  <2>2. \A m \in Messages : lock'[m] \in Senders =>
           lock[m] = lock'[m] /\ lock[m] # w /\ image'[m] = image[m]
    BY <1>10 DEF RollBack, Release
  <2>3. \A s \in Senders : s # w => cur'[s] = cur[s]
    BY <1>10 DEF RollBack, Forget
  <2> QED
    BY <1>0, <2>1, <2>2, <2>3
<1> HIDE DEF Good, Spending
<1> QED
  BY <1>1, <1>2, <1>3, <1>4, <1>5, <1>6, <1>7, <1>8, <1>9, <1>10
     DEF Next, SendStep, SettleStep, DropContact, Defer, FailBeforeCall, PayStep, SelectReminders,
         RollBackSuppressed, Provider, EmitReport, Abort, vars, sessionVars, OnlySendersSpend, Good

\* Each step keeps the attempts spent and in flight within the budget.
LEMMA BudgetStep ==
  ASSUME OnlySendersSpend, TypeOK, SessionOK, ClaimsOK, SelectionsOK, BudgetOK, [Next]_vars
  PROVE  BudgetOK'
<1>1. Cardinality(Spending') <= DailyBudget + Overshoot
  <2>1. IsFiniteSet(Spending) /\ Cardinality(Spending) <= DailyBudget + Overshoot
    BY FS_Subset DEF Spending, OnlySendersSpend, BudgetOK
  <2>2. CASE Spending' \subseteq Spending
    <3>1. Cardinality(Spending') <= Cardinality(Spending)
      BY <2>1, <2>2, FS_Subset
    <3>2. Overshoot \in Nat
      BY SlotCount, OutboxAssumption DEF OnlySendersSpend
    <3>3. Cardinality(Spending) \in Nat /\ Cardinality(Spending') \in Nat
      BY <2>1, <2>2, FS_Subset, FS_CardinalityType
    <3> QED
      BY <2>1, <3>1, <3>2, <3>3, OutboxAssumption DEF OutboxAssumption
  <2>3. ASSUME NEW s \in Senders, NEW m \in Messages, pc[s] = "working",
               DailySpend(s) < DailyBudget, Spending' = Spending \cup {m}
        PROVE  Cardinality(Spending') <= DailyBudget + Overshoot
    BY <2>3, GateLeavesRoom, OutboxAssumption
  <2> QED
    BY <2>2, <2>3, SpendingStep
<1> DEFINE Rows == \A m \in Messages :
                     /\ row[m].status \in Success => row[m].sent_at
                     /\ lock[m] \in Senders =>
                           /\ image[m].status = "SENT" => image[m].sent_at
                           /\ image[m].status # "DELIVERED"
                           /\ pc[lock[m]] # "idle"
           Batches == \A s \in Senders : Cardinality(Held(s)) <= BatchSize
           Good == Rows' /\ Batches'
<1>2. \A s \in Senders : IsFiniteSet(Held(s)) /\ Cardinality(Held(s)) \in Nat
  BY FS_Subset, FS_CardinalityType DEF Held, OnlySendersSpend
<1>3. ASSUME \A s \in Senders : Held(s)' = Held(s) \/ Held(s)' = {} PROVE Batches'
  BY <1>3, FS_EmptySet, OutboxAssumption DEF BudgetOK, OutboxAssumption
<1> USE OutboxAssumption
    DEF TypeOK, ClaimsOK, FreeRow, SenderRow, Workers, Success, Goto, OnlySendersSpend
<1>4. Rows /\ Batches
  BY DEF BudgetOK
<1> HIDE DEF Batches
<1>5. ASSUME UNCHANGED <<row, lock, image>>,
             \A s \in Senders : pc'[s] = "idle" => pc[s] = "idle"
      PROVE  Good
  BY <1>3, <1>4, <1>5 DEF Held
<1>6. ASSUME NEW s \in Senders, PollPending(s) PROVE Good
  <2>1. PICK batch \in SUBSET Pollable :
          /\ Cardinality(batch) <= BatchSize
          /\ lock' = [m \in Messages |-> IF m \in batch THEN s ELSE lock[m]]
    BY <1>6 DEF PollPending
  <2>2. \A m \in Messages : lock[m] # s
    BY <1>4, <1>6 DEF PollPending
  <2>3. Held(s)' = batch /\ \A t \in Senders \ {s} : Held(t)' = Held(t)
    BY <2>1, <2>2 DEF Held, Pollable
  <2>4. ASSUME NEW t \in Senders PROVE Cardinality(Held(t)') <= BatchSize
    <3>1. CASE t = s
      BY <2>1, <2>3, <3>1
    <3>2. CASE t # s
      <4>1. Held(t)' = Held(t) /\ Cardinality(Held(t)) <= BatchSize
        BY <1>4, <2>3, <3>2 DEF Batches
      <4> QED
        BY <4>1
    <3> QED
      BY <3>1, <3>2
  <2>5. Rows'
    BY <1>4, <1>6, <2>1 DEF PollPending, Pollable
  <2> QED
    BY <2>4, <2>5 DEF Batches
<1>7. ASSUME NEW s \in Senders, NEW m \in Messages,
             NEW st \in {"FAILED", "PENDING", "SENDING"}, Settle(s, m, st)
      PROVE  Good
  BY <1>3, <1>4, <1>7 DEF Settle, Row, Held
<1>8. ASSUME NEW s \in Senders, NEW m \in Messages, PassGates(s, m) PROVE Good
  BY <1>3, <1>4, <1>8 DEF PassGates, Row, Held
<1>9. ASSUME NEW s \in Senders, CallProvider(s) PROVE Good
  BY <1>5, <1>9 DEF CallProvider
<1>10. ASSUME NEW s \in Senders, TransitionStatus(s) PROVE Good
  <2> DEFINE m == cur[s]
  <2>1. m \in Messages /\ resp[s] \in SendAnswers /\ lock[m] = s
    BY <1>10 DEF TransitionStatus, SessionOK
  <2>2. /\ Transitioned(s, m).status \in {"SENT", "UNKNOWN_DELIVERY", "FAILED"}
        /\ Transitioned(s, m).status = "SENT" => Transitioned(s, m).sent_at
    <3>1. image[m] \in Row
      BY <2>1
    <3>2. Transitioned(s, m).sent_at = (image[m].sent_at \/ resp[s] = "ACCEPTED")
      BY <3>1 DEF Transitioned, Row
    <3>3. Transitioned(s, m).status = SendOutcome[resp[s]]
      BY <2>1, TransitionedRow
    <3>4. CASE resp[s] = "ACCEPTED"
      <4>1. SendOutcome[resp[s]] = "SENT"
        BY <3>4 DEF SendOutcome
      <4>2. Transitioned(s, m).sent_at
        BY <3>2, <3>4
      <4> QED
        BY <3>3, <4>1, <4>2
    <3>5. CASE resp[s] \in {"AMBIGUOUS", "REJECTED"}
      BY <3>3, <3>5 DEF SendOutcome
    <3> QED
      BY <2>1, <3>4, <3>5 DEF SendAnswers
  <2>3. /\ image' = [image EXCEPT ![m] = Transitioned(s, m)]
        /\ pc' = [pc EXCEPT ![s] = "working"]
        /\ UNCHANGED <<row, lock>>
    BY <1>10 DEF TransitionStatus
  <2> HIDE DEF m
  <2>4. Rows'
    BY <1>4, <2>1, <2>2, <2>3
  <2> QED
    BY <1>3, <2>3, <2>4 DEF Held
<1>11. ASSUME NEW s \in Senders, CommitBatch(s) PROVE Good
  BY <1>3, <1>4, <1>11 DEF CommitBatch, Commit, Release, Held
<1>12. ASSUME NEW p \in Payers, SelectReminders(p) PROVE Good
  BY <1>5, <1>12 DEF SelectReminders
<1>13. ASSUME NEW p \in Payers, NEW m \in Messages, SuppressReminder(p, m) PROVE Good
  BY <1>3, <1>4, <1>13 DEF SuppressReminder, Update, Held
<1>14. ASSUME NEW p \in Payers, CommitSuppressed(p) PROVE Good
  <2>1. Rows'
    BY <1>4, <1>14 DEF CommitSuppressed, Commit, Release, SelectionsOK, PayerRow
  <2> QED
    BY <1>3, <1>14, <2>1 DEF CommitSuppressed, Commit, Release, Held
<1>15. ASSUME NEW w \in Workers, RollBack(w) PROVE Good
  BY <1>3, <1>4, <1>15 DEF RollBack, Release, Held
<1>16. ASSUME NEW m \in Messages, NEW id \in accepted[m], EmitReport(m, id) PROVE Good
  BY <1>5, <1>16 DEF EmitReport, sessionVars
<1> HIDE DEF Rows, Good
<1>17. ASSUME UNCHANGED vars PROVE Good
  <2>1. UNCHANGED <<row, lock, image, pc>>
    BY <1>17 DEF vars, sessionVars
  <2> QED
    BY <1>5, <2>1
<1>18. ASSUME NEW s \in Senders, SendStep(s) PROVE Good
  BY <1>6, <1>7, <1>8, <1>9, <1>10, <1>11, <1>18
     DEF SendStep, SettleStep, DropContact, Defer, FailBeforeCall
<1>19. ASSUME NEW p \in Payers, PayStep(p) PROVE Good
  BY <1>12, <1>13, <1>14, <1>15, <1>19 DEF PayStep, RollBackSuppressed
<1>20. Good
  BY <1>15, <1>16, <1>17, <1>18, <1>19 DEF Next, Provider, Abort
<1> QED
  BY <1>1, <1>20 DEF Good, Rows, Batches, BudgetOK

\* However the batches of the senders overlap, the day's SENT and DELIVERED
\* messages exceed the budget by no more than a batch for each other sender.
THEOREM BudgetHolds == OnlySendersSpend => (Spec => []BudgetOvershoot)
<1> SUFFICES ASSUME OnlySendersSpend PROVE Spec => []BudgetOvershoot
  OBVIOUS
<1> DEFINE Inv == TypeOK /\ SessionOK /\ ClaimsOK /\ SelectionsOK /\ BudgetOK
<1>1. Init => Inv
  <2> SUFFICES ASSUME Init PROVE BudgetOK
    BY RowsInit, TypeInit
  <2>1. \A m \in Messages : row[m] = NewRow /\ image[m] = NewRow /\ lock[m] \notin Workers
    BY OutboxAssumption DEF Init
  <2>2. Spending = {} /\ \A s \in Senders : Held(s) = {}
    BY <2>1 DEF Spending, InHands, Held, NewRow, Success, Workers
  <2>3. Overshoot \in Nat
    BY SlotCount, OutboxAssumption DEF OnlySendersSpend
  <2> QED
    BY <2>1, <2>2, <2>3, FS_EmptySet, OutboxAssumption
       DEF BudgetOK, NewRow, Success, Workers, OutboxAssumption
<1>2. Inv /\ [Next]_vars => Inv'
  BY TypeStep, SessionStep, ClaimsStep, SelectionsStep, BudgetStep DEF OneReconciler, OnlySendersSpend
<1>3. Inv => BudgetOvershoot
  <2> SUFFICES ASSUME Inv PROVE BudgetOvershoot
    OBVIOUS
  <2> DEFINE sent == {m \in Messages : row[m].status \in {"SENT", "DELIVERED"}}
  <2>1. IsFiniteSet(Spending) /\ sent \subseteq Spending
    BY FS_Subset DEF Spending, OnlySendersSpend, Success
  <2>2. Cardinality(sent) <= Cardinality(Spending) /\ Cardinality(sent) \in Nat
    BY <2>1, FS_Subset, FS_CardinalityType
  <2>3. Cardinality(Spending) \in Nat /\ Cardinality(Spending) <= DailyBudget + Overshoot
    BY <2>1, FS_CardinalityType DEF BudgetOK
  <2>4. Overshoot \in Nat /\ DailyBudget \in Nat
    BY SlotCount, OutboxAssumption DEF OnlySendersSpend, OutboxAssumption
  <2>5. Cardinality(sent) <= DailyBudget + Overshoot
    BY <2>2, <2>3, <2>4
  <2> QED
    BY <2>5 DEF BudgetOvershoot, Overshoot
<1> QED
  BY <1>1, <1>2, <1>3, PTL DEF Spec
=============================================================================
