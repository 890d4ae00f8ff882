--------------------------- MODULE WorkersProofs ----------------------------
(***************************************************************************)
(* Proofs about the other Celery tasks, for any sets of rows, workers and  *)
(* texts and any bounds.  A behaviour is one of the part that works, so    *)
(* each part has an invariant that its own steps keep and the others do    *)
(* not touch.                                                              *)
(***************************************************************************)
EXTENDS MCWorkers, BackupsProofs

-----------------------------------------------------------------------------
(* Inbound messages.                                                       *)

\* The first keyword found in a text is a keyword.
LEMMA IntentType ==
  ASSUME NEW body \in Inbox!Body
  PROVE  Inbox!ParseIntent(body) \in Inbox!InboundIntent
  <1> DEFINE found == {i \in DOMAIN Inbox!Keywords : Inbox!Keywords[i] \in body.words}
  <1>1. CASE body.exact # "unknown"
    BY <1>1 DEF Inbox!ParseIntent, Inbox!Body
  <1>2. CASE body.exact = "unknown" /\ body.words = {}
    BY <1>2 DEF Inbox!ParseIntent, Inbox!InboundIntent
  <1>3. CASE body.exact = "unknown" /\ body.words # {}
    <2>1. found # {}
      BY <1>3 DEF Inbox!Body, Inbox!Range
    <2>2. Inbox!Min(found) \in found
      <3>1. found \in SUBSET Nat
        BY DEF Inbox!Keywords
      <3> HIDE DEF found
      <3> QED
        BY <2>1, <3>1, MinOfDates DEF Inbox!Min
    <2>3. Inbox!Keywords[Inbox!Min(found)] \in Inbox!InboundIntent
      BY <2>2 DEF Inbox!InboundIntent, Inbox!Range
    <2> QED
      BY <1>3, <2>3 DEF Inbox!ParseIntent
  <1> QED
    BY <1>1, <1>2, <1>3

\* A message has a task from when it is stored.  It is marked processed by the commit
\* that answers it, which a task makes once, and again only after a death.
ReplyOK(m) ==
    /\ row[m].stored <=> task[m] # "none"
    /\ row[m].processed <=> answers[m] > 0
    /\ task[m] = "none" => answers[m] = 0
    /\ task[m] \in {"queued", "parsed", "failed"} => answers[m] <= inbound_crashes
    /\ answers[m] <= inbound_crashes + 1
    /\ task[m] = "parsed" => row[m].contact # None

\* The type invariant, without the bound of the replies that ReplyOK gives.
InboxShape ==
    /\ row \in [Messages -> [stored : BOOLEAN, contact : Contacts \cup {None},
                             intent : Inbox!InboundIntent, processed : BOOLEAN,
                             body : Bodies \cup {Inbox!NoRow.body}]]
    /\ task \in [Messages -> {"none", "queued", "parsed", "committed", "acked", "failed"}]
    /\ received \subseteq Messages /\ requests \subseteq Messages
    /\ sms_opt_in \in [Contacts -> BOOLEAN]
    /\ answers \in [Messages -> Nat] /\ inbound_crashes \in 0..MaxCrashes

InboxOK == InboxShape /\ \A m \in Messages : ReplyOK(m)

\* The properties of the inbox follow from its invariant.
LEMMA InboxImplies ==
  InboxOK => Inbox!TypeOK /\ ProcessedIffAnswered /\ AnsweredTwiceNeedsACrash
  <1> SUFFICES ASSUME InboxOK
               PROVE  Inbox!TypeOK /\ ProcessedIffAnswered /\ AnsweredTwiceNeedsACrash
    OBVIOUS
  <1>1. ASSUME NEW m \in Messages
        PROVE  /\ answers[m] \in 0..(MaxCrashes + 1) /\ answers[m] <= 1 + inbound_crashes
               /\ row[m].processed <=> answers[m] > 0
    <2>1. answers[m] \in Nat /\ inbound_crashes \in 0..MaxCrashes /\ MaxCrashes \in Nat
      BY WorkersAssumption DEF InboxOK, InboxShape, WorkersAssumption, Inbox!InboundAssumption
    <2>2. answers[m] <= inbound_crashes + 1
      BY DEF InboxOK, ReplyOK
    <2>3. row[m].processed <=> answers[m] > 0
      BY DEF InboxOK, ReplyOK
    <2>4. answers[m] \in 0..(MaxCrashes + 1) /\ answers[m] <= 1 + inbound_crashes
      BY <2>1, <2>2
    <2> QED
      BY <2>3, <2>4
  <1>2. answers \in [Messages -> 0..(MaxCrashes + 1)]
    BY <1>1 DEF InboxOK, InboxShape
  <1>3. Inbox!TypeOK
    BY <1>2 DEF InboxOK, InboxShape, Inbox!TypeOK
  <1> QED
    BY <1>1, <1>3 DEF ProcessedIffAnswered, AnsweredTwiceNeedsACrash,
                      Inbox!ProcessedIffAnswered, Inbox!AnsweredTwiceNeedsACrash

LEMMA InboxInit == Inbox!Init => InboxOK
  <1> SUFFICES ASSUME Inbox!Init PROVE InboxOK
    OBVIOUS
  <1>1. MaxCrashes \in Nat /\ 0 \in 0..MaxCrashes
    BY WorkersAssumption DEF WorkersAssumption, Inbox!InboundAssumption
  <1>2. InboxShape
    BY <1>1 DEF Inbox!Init, InboxShape, Inbox!NoRow, Inbox!InboundIntent
  <1>3. ASSUME NEW m \in Messages PROVE ReplyOK(m)
    <2>1. /\ row[m].stored = FALSE /\ row[m].processed = FALSE /\ task[m] = "none"
          /\ answers[m] = 0 /\ inbound_crashes = 0
      BY DEF Inbox!Init, Inbox!NoRow
    <2> QED
      BY <2>1 DEF ReplyOK
  <1> QED
    BY <1>2, <1>3 DEF InboxOK

\* A task that goes on without a row, a reply or a death.
LEMMA InboxMoves ==
  ASSUME InboxOK, NEW m \in Messages,
         NEW l \in {"queued", "parsed", "acked", "failed"}, task' = [task EXCEPT ![m] = l],
         task[m] # "none", l \in {"queued", "parsed", "failed"} => answers[m] <= inbound_crashes',
         l = "parsed" => row[m].contact # None,
         inbound_crashes' \in 0..MaxCrashes, inbound_crashes' >= inbound_crashes,
         UNCHANGED <<row, received, sms_opt_in, requests, answers>>
  PROVE  InboxOK'
  <1>1. InboxShape'
    BY DEF InboxOK, InboxShape
  <1>2. ASSUME NEW n \in Messages PROVE ReplyOK(n)'
    <2>1. /\ answers[n] \in Nat /\ inbound_crashes \in Nat /\ inbound_crashes' \in Nat
          /\ task \in [Messages -> {"none", "queued", "parsed", "committed", "acked", "failed"}]
      BY DEF InboxOK, InboxShape
    <2>2. ReplyOK(n)
      BY DEF InboxOK
    <2>3. CASE n = m
      BY <2>1, <2>2, <2>3 DEF ReplyOK
    <2>4. CASE n # m
      BY <2>1, <2>2, <2>4 DEF ReplyOK
    <2> QED
      BY <2>3, <2>4
  <1> QED
    BY <1>1, <1>2 DEF InboxOK

\* Each step keeps the invariant of the inbox.
LEMMA InboxStep ==
  ASSUME InboxOK, [Inbox!Next]_inboundVars
  PROVE  InboxOK'
  <1>0. /\ MaxCrashes \in Nat /\ inbound_crashes \in 0..MaxCrashes
        /\ \A m \in Messages : ReplyOK(m) /\ answers[m] \in Nat
        /\ task \in [Messages -> {"none", "queued", "parsed", "committed", "acked", "failed"}]
    BY WorkersAssumption DEF InboxOK, InboxShape, WorkersAssumption, Inbox!InboundAssumption
  <1>1. ASSUME NEW m \in Messages, Inbox!ReceiveSms(m) PROVE InboxOK'
    <2>1. /\ received' = received \cup {m}
          /\ UNCHANGED <<row, task, sms_opt_in, requests, answers, inbound_crashes>>
      BY <1>1 DEF Inbox!ReceiveSms
    <2> QED
      BY <2>1 DEF InboxOK, InboxShape, ReplyOK
  <1>2. ASSUME NEW m \in Messages, NEW c \in Contacts \cup {None}, NEW b \in Bodies,
               Inbox!Ingest(m, c, b)
        PROVE  InboxOK'
    <2> DEFINE new == [Inbox!NoRow EXCEPT !.stored = TRUE, !.contact = c, !.body = b]
    <2>1. /\ ~row[m].stored /\ row' = [row EXCEPT ![m] = new]
          /\ task' = [task EXCEPT ![m] = "queued"]
          /\ UNCHANGED <<received, sms_opt_in, requests, answers, inbound_crashes>>
      BY <1>2 DEF Inbox!Ingest, Inbox!Goto
    <2>2. /\ new \in [stored : BOOLEAN, contact : Contacts \cup {None},
                      intent : Inbox!InboundIntent, processed : BOOLEAN,
                      body : Bodies \cup {Inbox!NoRow.body}]
          /\ new.stored = TRUE /\ new.processed = FALSE
      BY DEF Inbox!NoRow, Inbox!InboundIntent
    <2> HIDE DEF new
    <2>3. InboxShape'
      BY <2>1, <2>2 DEF InboxOK, InboxShape
    <2>4. task[m] = "none" /\ answers[m] = 0
      BY <1>0, <2>1 DEF ReplyOK
    <2>5. row'[m] = new /\ task'[m] = "queued" /\ \A n \in Messages \ {m} : row'[n] = row[n] /\ task'[n] = task[n]
      BY <2>1 DEF InboxOK, InboxShape
    <2>6. ASSUME NEW n \in Messages PROVE ReplyOK(n)'
      <3>1. CASE n = m
        BY <1>0, <2>1, <2>2, <2>4, <2>5, <3>1 DEF ReplyOK
      <3>2. CASE n # m
        BY <1>0, <2>1, <2>5, <3>2 DEF ReplyOK
      <3> QED
        BY <3>1, <3>2
    <2> QED
      BY <2>3, <2>6 DEF InboxOK
  <1>3. ASSUME NEW m \in Messages, Inbox!Parse(m) PROVE InboxOK'
    <2> DEFINE l == IF row[m].contact = None THEN "acked" ELSE "parsed"
    <2>1. /\ task[m] = "queued" /\ task' = [task EXCEPT ![m] = l]
          /\ UNCHANGED <<row, received, sms_opt_in, requests, answers, inbound_crashes>>
      BY <1>3 DEF Inbox!Parse, Inbox!Goto
    <2>2. answers[m] <= inbound_crashes' /\ inbound_crashes' >= inbound_crashes
      BY <1>0, <2>1 DEF ReplyOK
    <2> QED
      BY <1>0, <2>1, <2>2, InboxMoves
  <1>4. ASSUME NEW m \in Messages, Inbox!Dispatch(m) PROVE InboxOK'
    <2> DEFINE new == [row[m] EXCEPT !.intent = Inbox!ParseIntent(row[m].body),
                                     !.processed = TRUE]
    <2>1. /\ task[m] = "parsed" /\ row' = Inbox!Marked(m)
          /\ sms_opt_in' = [sms_opt_in EXCEPT ![row[m].contact] = Inbox!Consent(m)]
          /\ requests' \subseteq requests \cup {m}
          /\ answers' = [answers EXCEPT ![m] = answers[m] + 1]
          /\ task' = [task EXCEPT ![m] = "committed"]
          /\ UNCHANGED <<received, inbound_crashes>>
      BY <1>4 DEF Inbox!Dispatch, Inbox!QueueResponse, Inbox!Goto
    <2>2. /\ row[m] \in [stored : BOOLEAN, contact : Contacts \cup {None},
                         intent : Inbox!InboundIntent, processed : BOOLEAN,
                         body : Bodies \cup {Inbox!NoRow.body}]
          /\ row[m].contact \in Contacts
      BY <1>0, <2>1 DEF InboxOK, InboxShape, ReplyOK
    <2>3. Inbox!ParseIntent(row[m].body) \in Inbox!InboundIntent
      <3>1. row[m].body \in Inbox!Body
        BY <2>2, WorkersAssumption
        DEF WorkersAssumption, Inbox!InboundAssumption, Inbox!Body, Inbox!NoRow, Inbox!InboundIntent
      <3> QED
        BY <3>1, IntentType
    <2>4. row' = [row EXCEPT ![m] = new]
      BY <2>1 DEF Inbox!Marked, InboxOK, InboxShape
    <2>5. /\ new \in [stored : BOOLEAN, contact : Contacts \cup {None},
                      intent : Inbox!InboundIntent, processed : BOOLEAN,
                      body : Bodies \cup {Inbox!NoRow.body}]
          /\ new.stored = row[m].stored /\ new.processed = TRUE
      BY <2>2, <2>3
    <2>6. Inbox!Consent(m) \in BOOLEAN
      BY <2>2 DEF Inbox!Consent, InboxOK, InboxShape
    <2> HIDE DEF new
    <2>7. InboxShape'
      <3>1. row' \in [Messages -> [stored : BOOLEAN, contact : Contacts \cup {None},
                                   intent : Inbox!InboundIntent, processed : BOOLEAN,
                                   body : Bodies \cup {Inbox!NoRow.body}]]
        BY <2>4, <2>5 DEF InboxOK, InboxShape
      <3>2. sms_opt_in' \in [Contacts -> BOOLEAN] /\ requests' \subseteq Messages
        BY <2>1, <2>2, <2>6 DEF InboxOK, InboxShape
      <3>3. answers' \in [Messages -> Nat]
        BY <2>1 DEF InboxOK, InboxShape
      <3>4. task' \in [Messages -> {"none", "queued", "parsed", "committed", "acked", "failed"}]
        BY <2>1 DEF InboxOK, InboxShape
      <3> QED
        BY <2>1, <3>1, <3>2, <3>3, <3>4 DEF InboxOK, InboxShape
    <2>8. /\ row'[m] = new /\ task'[m] = "committed" /\ answers'[m] = answers[m] + 1
          /\ \A n \in Messages \ {m} :
                 row'[n] = row[n] /\ task'[n] = task[n] /\ answers'[n] = answers[n]
      BY <2>1, <2>4 DEF InboxOK, InboxShape
    <2>9. ASSUME NEW n \in Messages PROVE ReplyOK(n)'
      <3>1. CASE n = m
        BY <1>0, <2>1, <2>5, <2>8, <3>1 DEF ReplyOK
      <3>2. CASE n # m
        BY <1>0, <2>1, <2>8, <3>2 DEF ReplyOK
      <3> QED
        BY <3>1, <3>2
    <2> QED
      BY <2>7, <2>9 DEF InboxOK
  <1>5. ASSUME NEW m \in Messages, Inbox!DispatchRaises(m) \/ Inbox!Ack(m) PROVE InboxOK'
    <2>1. /\ \/ task[m] = "parsed" /\ task' = [task EXCEPT ![m] = "failed"]
             \/ task[m] = "committed" /\ task' = [task EXCEPT ![m] = "acked"]
          /\ UNCHANGED <<row, received, sms_opt_in, requests, answers, inbound_crashes>>
      BY <1>5 DEF Inbox!DispatchRaises, Inbox!Ack, Inbox!Goto
    <2>2. inbound_crashes' \in 0..MaxCrashes /\ inbound_crashes' >= inbound_crashes
      BY <1>0, <2>1
    <2>3. CASE task[m] = "parsed" /\ task' = [task EXCEPT ![m] = "failed"]
      <3>1. answers[m] <= inbound_crashes'
        BY <1>0, <2>1, <2>3 DEF ReplyOK
      <3> QED
        BY <2>1, <2>2, <2>3, <3>1, InboxMoves
    <2>4. CASE task[m] = "committed" /\ task' = [task EXCEPT ![m] = "acked"]
      BY <2>1, <2>2, <2>4, InboxMoves
    <2> QED
      BY <2>1, <2>3, <2>4
  <1>6. ASSUME NEW m \in Messages, Inbox!Die(m) PROVE InboxOK'
    <2>1. /\ task[m] # "none" /\ inbound_crashes < MaxCrashes
          /\ inbound_crashes' = inbound_crashes + 1 /\ task' = [task EXCEPT ![m] = "queued"]
          /\ UNCHANGED <<row, received, sms_opt_in, requests, answers>>
      BY <1>6 DEF Inbox!Die, Inbox!Goto, Inbox!Requeued
    <2>2. /\ answers[m] <= inbound_crashes' /\ inbound_crashes' \in 0..MaxCrashes
          /\ inbound_crashes' >= inbound_crashes
      BY <1>0, <2>1 DEF ReplyOK
    <2> QED
      BY <2>1, <2>2, InboxMoves
  <1>7. ASSUME UNCHANGED inboundVars PROVE InboxOK'
    <2>1. UNCHANGED <<row, task, received, sms_opt_in, requests, answers, inbound_crashes>>
      BY <1>7 DEF inboundVars
    <2> QED
      BY <2>1 DEF InboxOK, InboxShape, ReplyOK
  <1> QED
    BY <1>1, <1>2, <1>3, <1>4, <1>5, <1>6, <1>7 DEF Inbox!Next, Inbox!ProcessInboundMessage

-----------------------------------------------------------------------------
(* Reminders.                                                              *)

\* The day a reminder falls on; a late notice falls on every day after the due date.
DueOn(k, d) ==
    /\ k[3] # None
    /\ \/ k[2] \in DOMAIN Scheduler!Schedule /\ k[3] - Scheduler!Schedule[k[2]] = d
       \/ k[2] = "late_notice" /\ k[3] < d

\* A key carries the due date of its row, which nobody changes, and was handed to the
\* insert on the day it fell on: a run does not go past midnight.
RemindersOK ==
    /\ Scheduler!TypeOK
    /\ \A k \in candidates : k[3] = txn[k[1]].due_date /\ DueOn(k, today)
    /\ \A o \in offered : o[1][3] = txn[o[1][1]].due_date /\ DueOn(o[1], o[2])
    /\ reminders_pc = "idle" => candidates = {}

\* On a day, one type of reminder.
LEMMA OneTypeADay ==
  ASSUME NEW k, NEW q, NEW d \in Int, k[3] \in Int, k[3] = q[3], DueOn(k, d), DueOn(q, d)
  PROVE  k[2] = q[2]
  <1>1. ASSUME NEW x, x[3] = k[3], DueOn(x, d)
        PROVE  \/ x[2] = "due_14" /\ k[3] - 14 = d
               \/ x[2] = "due_3" /\ k[3] - 3 = d
               \/ x[2] = "due_today" /\ k[3] - 0 = d
               \/ x[2] = "late_notice" /\ k[3] < d
    BY <1>1 DEF DueOn, Scheduler!Schedule
  <1> DEFINE Is(x) == \/ x[2] = "due_14" /\ k[3] - 14 = d
                      \/ x[2] = "due_3" /\ k[3] - 3 = d
                      \/ x[2] = "due_today" /\ k[3] - 0 = d
                      \/ x[2] = "late_notice" /\ k[3] < d
  <1>2. Is(k) /\ Is(q)
    BY <1>1
  <1> QED
    BY <1>2

\* One key is offered on a day for each transaction, so one reminder.
LEMMA RemindersImply == RemindersOK => OneReminderADay
  <1> SUFFICES ASSUME RemindersOK, NEW o \in offered, NEW p \in offered,
                      o[1][1] = p[1][1], o[2] = p[2]
               PROVE  o[1] = p[1]
    BY DEF OneReminderADay, Scheduler!OneReminderADay
  <1>1. /\ o \in Scheduler!Keys \X (0..LastReminderDay) /\ p \in Scheduler!Keys \X (0..LastReminderDay)
        /\ LastReminderDay \in Nat /\ DueDates \subseteq Int \cup {None}
    BY WorkersAssumption
    DEF RemindersOK, Scheduler!TypeOK, WorkersAssumption, Scheduler!RemindersAssumption
  <1>2. /\ o[1] = <<o[1][1], o[1][2], o[1][3]>> /\ p[1] = <<p[1][1], p[1][2], p[1][3]>>
        /\ o[1][3] \in DueDates /\ o[2] \in Int
    BY <1>1 DEF Scheduler!Keys
  <1>3. DueOn(o[1], o[2]) /\ DueOn(p[1], o[2]) /\ o[1][3] = p[1][3]
    BY DEF RemindersOK
  <1>4. o[1][3] \in Int
    BY <1>1, <1>2, <1>3 DEF DueOn
  <1>5. o[1][2] = p[1][2]
    BY <1>2, <1>3, <1>4, OneTypeADay
  <1> QED
    BY <1>2, <1>3, <1>5

LEMMA RemindersInit == Scheduler!Init => RemindersOK
  <1> SUFFICES ASSUME Scheduler!Init PROVE RemindersOK
    OBVIOUS
  <1>1. /\ txn \in [Transactions -> Scheduler!Txn] /\ today = 0 /\ reminders_pc = "idle"
        /\ candidates = {} /\ offered = {} /\ outbox = {}
    BY DEF Scheduler!Init
  <1>2. today \in 0..LastReminderDay
    BY <1>1, WorkersAssumption DEF WorkersAssumption, Scheduler!RemindersAssumption
  <1> QED
    BY <1>1, <1>2 DEF RemindersOK, Scheduler!TypeOK

\* What build_candidates finds of an open transaction falls on the day of the run.
LEMMA CandidatesAreDue ==
  ASSUME RemindersOK, NEW t \in Transactions, NEW r \in Scheduler!DueTypes(t)
  PROVE  /\ Scheduler!MessageKey(t, r) \in Scheduler!Keys
         /\ Scheduler!MessageKey(t, r)[1] = t
         /\ Scheduler!MessageKey(t, r)[3] = txn[t].due_date
         /\ DueOn(Scheduler!MessageKey(t, r), today)
  <1>1. txn[t] \in Scheduler!Txn
    BY DEF RemindersOK, Scheduler!TypeOK
  <1>2. /\ r \in Scheduler!ReminderTypes[txn[t].type] /\ txn[t].status \notin Scheduler!Settled
        /\ \/ r \in DOMAIN Scheduler!Schedule /\ Scheduler!DueToday(t, r)
           \/ r = "late_notice" /\ Scheduler!Late(t)
           \/ r = "layaway_pickup" /\ txn[t].status = "paid"
    BY DEF Scheduler!DueTypes
  <1>3. txn[t].status # "paid"
    BY <1>2 DEF Scheduler!Settled
  <1>4. Scheduler!MessageKey(t, r) = <<t, r, txn[t].due_date>>
    BY DEF Scheduler!MessageKey
  <1>5. r \in UNION {Scheduler!ReminderTypes[y] : y \in Scheduler!TransactionType}
    <2>1. txn[t].type \in Scheduler!TransactionType
      BY <1>1 DEF Scheduler!Txn
    <2> QED
      BY <1>2, <2>1
  <1>6. Scheduler!MessageKey(t, r) \in Scheduler!Keys
    BY <1>1, <1>4, <1>5 DEF Scheduler!Keys, Scheduler!Txn
  <1>7. DueOn(<<t, r, txn[t].due_date>>, today)
    BY <1>2, <1>3 DEF DueOn, Scheduler!DueToday, Scheduler!Late
  <1> QED
    BY <1>4, <1>6, <1>7

\* Each step keeps the invariant of the scheduler.
LEMMA RemindersStep ==
  ASSUME RemindersOK, [Scheduler!Next]_remindersVars
  PROVE  RemindersOK'
  <1>0. Scheduler!TypeOK
    BY DEF RemindersOK
  <1>1. CASE Scheduler!LoadTransactions
    <2>1. /\ candidates' = UNION {{Scheduler!MessageKey(t, r) : r \in Scheduler!DueTypes(t)} :
                                     t \in {u \in Transactions : Scheduler!Active(u)}}
          /\ reminders_pc' = "checking"
          /\ UNCHANGED <<txn, today, offered, outbox>>
      BY <1>1 DEF Scheduler!LoadTransactions
    <2>2. ASSUME NEW k \in candidates'
          PROVE  k \in Scheduler!Keys /\ k[3] = txn[k[1]].due_date /\ DueOn(k, today)
      <3>1. PICK t \in Transactions : \E r \in Scheduler!DueTypes(t) : k = Scheduler!MessageKey(t, r)
        BY <2>1
      <3>2. PICK r \in Scheduler!DueTypes(t) : k = Scheduler!MessageKey(t, r)
        BY <3>1
      <3> QED
        BY <3>2, CandidatesAreDue
    <2>3. Scheduler!TypeOK'
      BY <1>0, <2>1, <2>2 DEF Scheduler!TypeOK
    <2>4. \A k \in candidates' : k[3] = txn'[k[1]].due_date /\ DueOn(k, today')
      BY <2>1, <2>2
    <2> QED
      BY <2>1, <2>3, <2>4 DEF RemindersOK, DueOn
  <1>2. CASE Scheduler!SuppressionRaises \/ Scheduler!CheckSuppression \/ Scheduler!CommitNothing
    <2>1. /\ UNCHANGED <<txn, today, offered, outbox>>
          /\ candidates' = {} \/ (candidates' = candidates /\ reminders_pc' # "idle")
          /\ reminders_pc' \in {"idle", "inserting"}
      BY <1>2 DEF Scheduler!SuppressionRaises, Scheduler!CheckSuppression, Scheduler!CommitNothing
    <2>2. Scheduler!TypeOK'
      BY <1>0, <2>1 DEF Scheduler!TypeOK
    <2> QED
      BY <2>1, <2>2 DEF RemindersOK, DueOn
  <1>3. CASE Scheduler!InsertRaises
    <2>1. /\ offered' = offered \cup {<<k, today>> : k \in candidates}
          /\ reminders_pc' = "idle" /\ candidates' = {}
          /\ UNCHANGED <<txn, today, outbox>>
      BY <1>3 DEF Scheduler!InsertRaises
    <2>2. \A k \in candidates : <<k, today>> \in Scheduler!Keys \X (0..LastReminderDay)
      BY <1>0 DEF Scheduler!TypeOK
    <2>3. Scheduler!TypeOK'
      BY <1>0, <2>1, <2>2 DEF Scheduler!TypeOK
    <2>4. ASSUME NEW o \in offered'
          PROVE  o[1][3] = txn[o[1][1]].due_date /\ DueOn(o[1], o[2])
      <3>1. CASE o \in offered
        BY <3>1 DEF RemindersOK
      <3>2. CASE o \notin offered
        <4>1. PICK k \in candidates : o = <<k, today>>
          BY <2>1, <3>2
        <4>2. o[1] = k /\ o[2] = today
          BY <4>1
        <4> QED
          BY <4>1, <4>2 DEF RemindersOK
      <3> QED
        BY <3>1, <3>2
    <2>5. \A o \in offered' : o[1][3] = txn'[o[1][1]].due_date /\ DueOn(o[1], o[2])'
      BY <2>1, <2>4 DEF DueOn
    <2> QED
      BY <2>1, <2>3, <2>5 DEF RemindersOK
  <1>4. CASE Scheduler!NextDay
    <2>1. /\ reminders_pc = "idle" /\ today < LastReminderDay /\ today' = today + 1
          /\ UNCHANGED <<txn, reminders_pc, candidates, offered, outbox>>
      BY <1>4 DEF Scheduler!NextDay
    <2>2. today' \in 0..LastReminderDay
      BY <1>0, <2>1, WorkersAssumption
      DEF Scheduler!TypeOK, WorkersAssumption, Scheduler!RemindersAssumption
    <2>3. Scheduler!TypeOK'
      BY <1>0, <2>1, <2>2 DEF Scheduler!TypeOK
    <2>4. candidates' = {}
      BY <2>1 DEF RemindersOK
    <2> QED
      BY <2>1, <2>3, <2>4 DEF RemindersOK, DueOn
  <1>5. ASSUME NEW t \in Transactions,
               \/ Scheduler!SetConsent(t)
               \/ \E s \in {"partial", "overdue", "paid", "cancelled"} : Scheduler!SetStatus(t, s)
        PROVE  RemindersOK'
    <2>1. /\ UNCHANGED <<today, reminders_pc, candidates, offered, outbox>>
          /\ \/ txn' = [txn EXCEPT ![t].sms_opt_in = ~txn[t].sms_opt_in]
             \/ \E s \in {"partial", "overdue", "paid", "cancelled"} : txn' = [txn EXCEPT ![t].status = s]
      BY <1>5 DEF Scheduler!SetConsent, Scheduler!SetStatus
    <2>2. /\ txn' \in [Transactions -> Scheduler!Txn]
          /\ \A u \in Transactions : txn'[u].due_date = txn[u].due_date
      <3>1. CASE txn' = [txn EXCEPT ![t].sms_opt_in = ~txn[t].sms_opt_in]
        BY <1>0, <3>1 DEF Scheduler!TypeOK, Scheduler!Txn
      <3>2. ASSUME NEW s \in {"partial", "overdue", "paid", "cancelled"},
                   txn' = [txn EXCEPT ![t].status = s]
            PROVE  /\ txn' \in [Transactions -> Scheduler!Txn]
                   /\ \A u \in Transactions : txn'[u].due_date = txn[u].due_date
        <4>1. s \in Scheduler!TransactionStatus
          BY DEF Scheduler!TransactionStatus, Scheduler!Settled
        <4> QED
          BY <1>0, <3>2, <4>1 DEF Scheduler!TypeOK, Scheduler!Txn
      <3> QED
        BY <2>1, <3>1, <3>2
    <2>3. Scheduler!TypeOK'
      BY <1>0, <2>1, <2>2 DEF Scheduler!TypeOK
    <2>4. /\ \A k \in candidates : k[1] \in Transactions
          /\ \A o \in offered : o[1][1] \in Transactions
      BY <1>0 DEF Scheduler!TypeOK, Scheduler!Keys
    <2> QED
      BY <2>1, <2>2, <2>3, <2>4 DEF RemindersOK, DueOn
  <1>6. ASSUME UNCHANGED remindersVars PROVE RemindersOK'
    <2>1. UNCHANGED <<txn, today, reminders_pc, candidates, offered, outbox>>
      BY <1>6 DEF remindersVars
    <2> QED
      BY <2>1 DEF RemindersOK, DueOn, Scheduler!TypeOK
  <1> QED
    BY <1>1, <1>2, <1>3, <1>4, <1>5, <1>6
    DEF Scheduler!Next, Scheduler!ComputeReminderCandidates

-----------------------------------------------------------------------------
(* Campaigns, alerts and retention.                                        *)

\* Candidates are built for a campaign that was loaded.
CampaignsOK ==
    /\ Promotions!TypeOK
    /\ \A w \in Workers : campaigns_pc[w] = "building" => cur[w] # None

LEMMA CampaignsInit == Promotions!Init => CampaignsOK
  BY WorkersAssumption
  DEF Promotions!Init, CampaignsOK, Promotions!TypeOK, Promotions!CampaignStatus, WorkersAssumption,
      Promotions!CampaignsAssumption

\* Each step keeps the invariant of the campaigns.
LEMMA CampaignsStep ==
  ASSUME CampaignsOK, [Promotions!Next]_campaignsVars
  PROVE  CampaignsOK'
  <1> USE DEF CampaignsOK, Promotions!TypeOK
  <1>1. ASSUME NEW w \in Workers, Promotions!FindScheduled(w) \/ Promotions!EndScheduled(w)
        PROVE  CampaignsOK'
    <2>1. /\ \/ todo' = [todo EXCEPT ![w] = {c \in arrived : status[c] = "scheduled"}]
                /\ campaigns_pc' = [campaigns_pc EXCEPT ![w] = "listed"] /\ campaigns_pc[w] = "idle"
             \/ UNCHANGED todo /\ campaigns_pc' = [campaigns_pc EXCEPT ![w] = "idle"]
                /\ campaigns_pc[w] = "listed"
          /\ UNCHANGED <<status, arrived, opt_in, promos, cur, loaded, recipients, tried, finished, orders>>
      BY <1>1 DEF Promotions!FindScheduled, Promotions!EndScheduled, Promotions!Goto
    <2>2. todo' \in [Workers -> SUBSET Campaigns]
      BY <2>1
    <2>3. /\ campaigns_pc' \in [Workers -> {"idle", "listed", "building", "inserting"}]
          /\ \A v \in Workers : recipients[v] # {} => campaigns_pc'[v] = "inserting"
          /\ \A v \in Workers : campaigns_pc'[v] = "building" => cur'[v] # None
      BY <2>1, WorkersAssumption DEF WorkersAssumption, Promotions!CampaignsAssumption
    <2> QED
      BY <2>1, <2>2, <2>3
  <1>2. ASSUME NEW w \in Workers, NEW c \in Campaigns, Promotions!LoadCampaign(w, c)
        PROVE  CampaignsOK'
    <2>1. /\ campaigns_pc[w] = "listed"
          /\ todo' = [todo EXCEPT ![w] = todo[w] \ {c}]
          /\ cur' = [cur EXCEPT ![w] = c] /\ loaded' = [loaded EXCEPT ![w] = status[c]]
          /\ \/ campaigns_pc' = [campaigns_pc EXCEPT ![w] = "building"]
             \/ campaigns_pc' = [campaigns_pc EXCEPT ![w] = "listed"]
          /\ UNCHANGED <<status, arrived, opt_in, promos, recipients, tried, finished, orders>>
      BY <1>2 DEF Promotions!LoadCampaign, Promotions!Goto
    <2>2. /\ todo' \in [Workers -> SUBSET Campaigns]
          /\ cur' \in [Workers -> Campaigns \cup {None}]
          /\ loaded' \in [Workers -> Promotions!CampaignStatus]
      BY <2>1
    <2>3. /\ campaigns_pc' \in [Workers -> {"idle", "listed", "building", "inserting"}]
          /\ \A v \in Workers : recipients[v] # {} => campaigns_pc'[v] = "inserting"
          /\ \A v \in Workers : campaigns_pc'[v] = "building" => cur'[v] # None
      BY <2>1, WorkersAssumption DEF WorkersAssumption, Promotions!CampaignsAssumption
    <2> QED
      BY <2>1, <2>2, <2>3
  <1>3. ASSUME NEW w \in Workers, Promotions!BuildCandidates(w)
        PROVE  CampaignsOK'
    <2>1. /\ recipients' = [recipients EXCEPT ![w] = {m \in opt_in : Promotions!MaySend}]
          /\ tried' = tried \cup {cur[w]} /\ campaigns_pc[w] = "building"
          /\ campaigns_pc' = [campaigns_pc EXCEPT ![w] = "inserting"]
          /\ UNCHANGED <<status, arrived, opt_in, promos, todo, cur, loaded, finished, orders>>
      BY <1>3 DEF Promotions!BuildCandidates, Promotions!Goto
    <2>2. recipients' \in [Workers -> SUBSET Members]
      BY <2>1
    <2> QED
      BY <2>1, <2>2
  <1>4. ASSUME NEW w \in Workers, Promotions!ProcessRaises(w)
        PROVE  CampaignsOK'
    <2>1. /\ status' = status /\ todo' = [todo EXCEPT ![w] = todo[w]]
          /\ recipients' = [recipients EXCEPT ![w] = {}]
          /\ campaigns_pc' = [campaigns_pc EXCEPT ![w] = "listed"]
          /\ UNCHANGED <<arrived, opt_in, promos, cur, loaded, tried, finished, orders>>
      BY <1>4 DEF Promotions!ProcessRaises, Promotions!Goto, Promotions!RolledBack,
                  Promotions!LeftToDo
    <2> QED
      BY <2>1
  <1>5. ASSUME NEW c \in Campaigns, Promotions!StartArrives(c) \/ Promotions!CompleteCampaign(c)
        PROVE  CampaignsOK'
    BY <1>5 DEF Promotions!StartArrives, Promotions!CompleteCampaign, Promotions!session
  <1>6. ASSUME NEW c \in Campaigns, NEW s \in {"scheduled", "paused", "cancelled"},
               Promotions!Order(c, s)
        PROVE  CampaignsOK'
    <2>1. /\ orders < MaxOrders /\ orders' = orders + 1 /\ status' = [status EXCEPT ![c] = s]
          /\ UNCHANGED <<arrived, opt_in, promos, campaigns_pc, todo, cur, loaded, recipients,
                         tried, finished>>
      BY <1>6 DEF Promotions!Order, Promotions!session
    <2>2. orders' \in 0..MaxOrders
      BY <2>1, WorkersAssumption DEF WorkersAssumption, Promotions!CampaignsAssumption
    <2>3. status' \in [Campaigns -> Promotions!CampaignStatus]
      BY <2>1 DEF Promotions!CampaignStatus
    <2> QED
      BY <2>1, <2>2, <2>3
  <1>7. ASSUME UNCHANGED campaignsVars PROVE CampaignsOK'
    <2>1. UNCHANGED <<status, arrived, opt_in, promos, campaigns_pc, todo, cur, loaded, recipients,
                      tried, finished, orders>>
      BY <1>7 DEF campaignsVars
    <2> QED
      BY <2>1
  <1> QED
    BY <1>1, <1>2, <1>3, <1>4, <1>5, <1>6, <1>7 DEF Promotions!Next, Promotions!ProcessScheduled

LEMMA PurgeInit == Purging!Init => Purging!TypeOK
  BY WorkersAssumption
  DEF Purging!Init, Purging!TypeOK, Purging!MaxAge, WorkersAssumption, Purging!RetentionAssumption

\* Each step keeps the invariant of the purge.
LEMMA PurgeStep ==
  ASSUME Purging!TypeOK, [Purging!Next]_retentionVars
  PROVE  Purging!TypeOK'
  <1>0. MaxCrashes \in Nat
    BY WorkersAssumption DEF WorkersAssumption, Purging!RetentionAssumption
  <1>1. CASE Purging!StartPurge \/ Purging!LogRaises \/ Purging!CommitNothing
             \/ Purging!ReportRaises \/ Purging!Die
    <2>1. /\ UNCHANGED <<kind, age>>
          /\ deleting' \subseteq deleting
          /\ retention_pc' \in {"sent", "reporting", "idle"}
          /\ \/ UNCHANGED retention_crashes
             \/ retention_crashes < MaxCrashes /\ retention_crashes' = retention_crashes + 1
      BY <1>1 DEF Purging!StartPurge, Purging!LogRaises, Purging!CommitNothing,
                  Purging!ReportRaises, Purging!Die, Purging!Purges
    <2>2. retention_crashes' \in 0..MaxCrashes
      BY <1>0, <2>1 DEF Purging!TypeOK
    <2> QED
      BY <1>0, <2>1, <2>2 DEF Purging!TypeOK
  <1>2. ASSUME NEW i \in DOMAIN Purging!Purges, Purging!Purge(i) PROVE Purging!TypeOK'
    <2>1. i \in 1..4
      BY DEF Purging!Purges
    <2>2. /\ UNCHANGED <<kind, age, retention_crashes>>
          /\ deleting' = deleting \cup {r \in Rows : Purging!Purgeable(r, Purging!Purges[i])}
          /\ retention_pc' \in {"failed", "callback", "inbound", "logging"}
      BY <1>2, <2>1 DEF Purging!Purge, Purging!Purges
    <2> QED
      BY <1>0, <2>2 DEF Purging!TypeOK
  <1>3. CASE Purging!Pass
    <2>1. /\ age' = [r \in Rows |-> IF age[r] < Purging!MaxAge THEN age[r] + 1 ELSE Purging!MaxAge]
          /\ UNCHANGED <<kind, retention_pc, deleting, retention_crashes>>
      BY <1>3 DEF Purging!Pass
    <2>2. age' \in [Rows -> 0..Purging!MaxAge]
      BY <1>0, <2>1 DEF Purging!TypeOK, Purging!MaxAge
    <2> QED
      BY <1>0, <2>1, <2>2 DEF Purging!TypeOK
  <1>4. ASSUME NEW r \in Rows, Purging!Update(r) PROVE Purging!TypeOK'
    <2>1. PICK s \in Purging!MessageStatus : kind' = [kind EXCEPT ![r] = s]
      BY <1>4 DEF Purging!Update
    <2>2. /\ age' = [age EXCEPT ![r] = 0]
          /\ UNCHANGED <<retention_pc, deleting, retention_crashes>>
      BY <1>4 DEF Purging!Update
    <2>3. kind' \in [Rows -> Purging!Kind] /\ age' \in [Rows -> 0..Purging!MaxAge]
      BY <1>0, <2>1, <2>2 DEF Purging!TypeOK, Purging!Kind, Purging!MaxAge
    <2> QED
      BY <1>0, <2>2, <2>3 DEF Purging!TypeOK
  <1>5. ASSUME UNCHANGED retentionVars PROVE Purging!TypeOK'
    <2>1. UNCHANGED <<kind, age, retention_pc, deleting, retention_crashes>>
      BY <1>5 DEF retentionVars
    <2> QED
      BY <2>1 DEF Purging!TypeOK
  <1> QED
    BY <1>1, <1>2, <1>3, <1>4, <1>5 DEF Purging!Next, Purging!RunRetentionPurge

AlertRows ==
    /\ failed \in Nat /\ other \in Nat /\ failed + other <= MaxMessages /\ configured \in BOOLEAN
    /\ alerts_pc \in {"idle", "counting", "counting 2", "counted", "auditing", "requeued"}
    /\ audited = 0 /\ reopened \in 0..MaxReopened /\ alerts_crashes \in 0..MaxCrashes

\* The failed rows are counted first, and stay among the rows the second count finds.
AlertCounts ==
    /\ total_failed \in 0..MaxMessages /\ total_sent \in 0..MaxMessages
    /\ alerts_pc = "counting 2" /\ reopened = 0 => total_failed <= failed + other
    /\ alerts_pc = "counted" /\ reopened = 0 => total_failed <= total_sent

\* A second alert of a minute needs a death.
AlertMinutes ==
    /\ minute \in 0..MaxMinutes /\ alerts \in [0..MaxMinutes -> Nat]
    /\ \A i \in 0..MaxMinutes : /\ alerts[i] <= alerts_crashes + 1
                                /\ i > minute => alerts[i] = 0
    /\ alerts_pc \in {"counting", "counting 2", "counted", "requeued"}
           => alerts[minute] <= alerts_crashes

AlertsOK == AlertRows /\ AlertCounts /\ AlertMinutes

\* The bounds of Alerts are numbers.
LEMMA AlertBounds ==
  /\ MaxMessages \in Nat /\ MaxMinutes \in Nat /\ MaxReopened \in Nat /\ MaxCrashes \in Nat
  <1>1. Alerting!AlertsAssumption
    BY WorkersAssumption DEF WorkersAssumption
  <1> QED
    BY <1>1 DEF Alerting!AlertsAssumption

\* The invariant of alerting makes its rate a fraction.
LEMMA AlertsImply == AlertsOK => Alerting!TypeOK /\ RateIsAFraction
  <1> SUFFICES ASSUME AlertsOK PROVE Alerting!TypeOK /\ RateIsAFraction
    OBVIOUS
  <1>1. ASSUME NEW i \in 0..MaxMinutes PROVE alerts[i] \in 0..(MaxCrashes + 1)
    <2>1. /\ alerts[i] \in Nat /\ alerts[i] <= alerts_crashes + 1
          /\ alerts_crashes \in 0..MaxCrashes
      BY DEF AlertsOK, AlertMinutes, AlertRows
    <2> QED
      BY <2>1, AlertBounds
  <1>2. alerts \in [0..MaxMinutes -> 0..(MaxCrashes + 1)]
    BY <1>1 DEF AlertsOK, AlertMinutes
  <1>3. Alerting!TypeOK
    BY <1>2 DEF AlertsOK, AlertRows, AlertCounts, AlertMinutes, Alerting!TypeOK
  <1>4. RateIsAFraction
    BY DEF AlertsOK, AlertCounts, RateIsAFraction, Alerting!RateIsAFraction
  <1> QED
    BY <1>3, <1>4

LEMMA AlertsInit == Alerting!Init => AlertsOK
  <1> SUFFICES ASSUME Alerting!Init PROVE AlertsOK
    OBVIOUS
  <1>1. /\ failed = 0 /\ other = 0 /\ configured \in BOOLEAN /\ alerts_pc = "idle"
        /\ total_failed = 0 /\ total_sent = 0 /\ minute = 0
        /\ alerts = [i \in 0..MaxMinutes |-> 0] /\ audited = 0 /\ reopened = 0 /\ alerts_crashes = 0
    BY DEF Alerting!Init
  <1>2. (\A i \in 0..MaxMinutes : alerts[i] = 0) /\ alerts \in [0..MaxMinutes -> Nat]
    BY <1>1
  <1>3. AlertRows /\ AlertCounts
    BY <1>1, AlertBounds DEF AlertRows, AlertCounts
  <1>4. AlertMinutes
    BY <1>1, <1>2, AlertBounds DEF AlertMinutes
  <1> QED
    BY <1>3, <1>4 DEF AlertsOK

\* Each step keeps the invariant of alerting.
LEMMA AlertsStep ==
  ASSUME AlertsOK, [Alerting!Next]_alertsVars
  PROVE  AlertsOK'
  <1>0. AlertRows /\ AlertCounts /\ AlertMinutes
    BY DEF AlertsOK
  <1>a. failed \in Nat /\ other \in Nat /\ failed + other <= MaxMessages
    BY <1>0 DEF AlertRows
  <1>b. alerts_crashes \in 0..MaxCrashes /\ reopened \in 0..MaxReopened /\ minute \in 0..MaxMinutes
    BY <1>0 DEF AlertRows, AlertMinutes
  <1>c. alerts_crashes \in Nat /\ reopened \in Nat /\ minute \in Nat
    BY <1>b, AlertBounds
  <1>1. CASE Alerting!StartCheck
    <2>1. alerts_pc = "requeued" \/ alerts[minute] = 0
      BY <1>1 DEF Alerting!StartCheck
    <2>2. /\ alerts_pc' = "counting"
          /\ UNCHANGED <<failed, other, reopened, configured, total_failed, total_sent, minute,
                         alerts, audited, alerts_crashes>>
      BY <1>1 DEF Alerting!StartCheck, Alerting!rows
    <2>3. alerts[minute] <= alerts_crashes
      <3>1. CASE alerts_pc = "requeued"
        BY <1>0, <3>1 DEF AlertMinutes
      <3>2. CASE alerts[minute] = 0
        BY <1>c, <3>2
      <3> QED
        BY <2>1, <3>1, <3>2
    <2>4. AlertRows' /\ AlertCounts'
      BY <1>0, <2>2 DEF AlertRows, AlertCounts
    <2>5. AlertMinutes'
      BY <1>0, <2>2, <2>3 DEF AlertMinutes
    <2> QED
      BY <2>4, <2>5 DEF AlertsOK
  <1>2. CASE Alerting!Count(1)
    <2>1. /\ alerts_pc = "counting" /\ alerts_pc' = "counting 2"
          /\ total_failed' = failed /\ total_sent' = total_sent
          /\ UNCHANGED <<failed, other, reopened, configured, minute, alerts, audited, alerts_crashes>>
      BY <1>2 DEF Alerting!Count, Alerting!Counts, Alerting!rows
    <2>2. failed \in 0..MaxMessages /\ failed <= failed + other
      BY <1>a, AlertBounds
    <2>3. AlertCounts'
      BY <1>0, <2>1, <2>2 DEF AlertCounts
    <2>4. AlertRows' /\ AlertMinutes'
      BY <1>0, <2>1 DEF AlertRows, AlertMinutes
    <2> QED
      BY <2>3, <2>4 DEF AlertsOK
  <1>3. CASE Alerting!Count(2)
    <2>1. /\ alerts_pc = "counting 2" /\ alerts_pc' = "counted"
          /\ UNCHANGED <<failed, other, reopened, configured, minute, alerts, audited, alerts_crashes>>
      <3>1. UNCHANGED <<Alerting!rows, configured, minute, alerts, audited, alerts_crashes>>
        BY <1>3 DEF Alerting!Count
      <3>2. /\ alerts_pc = IF 2 = 1 THEN "counting" ELSE "counting 2"
            /\ alerts_pc' = IF 2 = 1 THEN "counting 2" ELSE "counted"
        BY <1>3 DEF Alerting!Count
      <3>3. alerts_pc = "counting 2" /\ alerts_pc' = "counted"
        <4>1. ~(2 = 1)
          OBVIOUS
        <4> QED
          BY <3>2, <4>1, Zenon
      <3> QED
        BY <3>1, <3>3 DEF Alerting!rows
    <2>2. total_sent' = failed + other /\ total_failed' = total_failed
      <3>1. Alerting!Counts[2] = "total" /\ "total" # "failed"
        BY DEF Alerting!Counts
      <3> HIDE DEF Alerting!Counts
      <3> QED
        BY <1>3, <3>1 DEF Alerting!Count
    <2>3. failed + other \in 0..MaxMessages
      BY <1>a, AlertBounds
    <2>4. AlertCounts'
      BY <1>0, <2>1, <2>2, <2>3 DEF AlertCounts
    <2>5. AlertRows' /\ AlertMinutes'
      BY <1>0, <2>1 DEF AlertRows, AlertMinutes
    <2> QED
      BY <2>4, <2>5 DEF AlertsOK
  <1>4. CASE Alerting!NoAlert \/ Alerting!AuditRaises
    <2>1. /\ alerts_pc' = "idle"
          /\ UNCHANGED <<failed, other, reopened, configured, total_failed, total_sent, minute,
                         alerts, audited, alerts_crashes>>
      BY <1>4 DEF Alerting!NoAlert, Alerting!AuditRaises, Alerting!AfterError, Alerting!rows
    <2> QED
      BY <1>0, <2>1 DEF AlertsOK, AlertRows, AlertCounts, AlertMinutes
  <1>5. CASE Alerting!SendAlert
    <2>1. /\ alerts_pc = "counted" /\ alerts_pc' = "auditing"
          /\ alerts' = [alerts EXCEPT ![minute] = alerts[minute] + 1]
          /\ UNCHANGED <<failed, other, reopened, configured, total_failed, total_sent, minute,
                         audited, alerts_crashes>>
      BY <1>5 DEF Alerting!SendAlert, Alerting!rows
    <2>2. /\ alerts[minute] <= alerts_crashes /\ alerts \in [0..MaxMinutes -> Nat]
          /\ minute \in 0..MaxMinutes /\ alerts_crashes \in Nat
      BY <1>0, <2>1, AlertBounds DEF AlertMinutes, AlertRows
    <2>3. alerts' \in [0..MaxMinutes -> Nat] /\ alerts'[minute] = alerts[minute] + 1
      BY <2>1, <2>2
    <2>4. ASSUME NEW i \in 0..MaxMinutes
          PROVE  alerts'[i] <= alerts_crashes + 1 /\ (i > minute => alerts'[i] = 0)
      <3>1. CASE i = minute
        BY <2>2, <2>3, <3>1, AlertBounds
      <3>2. CASE i # minute
        BY <1>0, <2>1, <2>2, <3>2 DEF AlertMinutes
      <3> QED
        BY <3>1, <3>2
    <2>5. AlertMinutes'
      BY <2>1, <2>2, <2>3, <2>4 DEF AlertMinutes
    <2>6. AlertRows' /\ AlertCounts'
      BY <1>0, <2>1 DEF AlertRows, AlertCounts
    <2> QED
      BY <2>5, <2>6 DEF AlertsOK
  <1>6. CASE Alerting!Die
    <2>1. /\ alerts_crashes < MaxCrashes /\ alerts_crashes' = alerts_crashes + 1
          /\ alerts_pc' = "requeued"
          /\ UNCHANGED <<failed, other, reopened, configured, total_failed, total_sent, minute,
                         alerts, audited>>
      BY <1>6 DEF Alerting!Die, Alerting!rows
    <2>2. alerts_crashes' \in 0..MaxCrashes /\ alerts_crashes \in Nat
      BY <1>c, <2>1, AlertBounds
    <2>3. ASSUME NEW i \in 0..MaxMinutes
          PROVE  alerts[i] <= alerts_crashes' /\ alerts[i] <= alerts_crashes' + 1
      <3>1. alerts[i] \in Nat /\ alerts[i] <= alerts_crashes + 1
        BY <1>0 DEF AlertMinutes
      <3> QED
        BY <2>1, <2>2, <3>1
    <2>4. AlertMinutes'
      BY <1>0, <2>1, <2>3 DEF AlertMinutes
    <2>5. AlertRows' /\ AlertCounts'
      BY <1>0, <2>1, <2>2 DEF AlertRows, AlertCounts
    <2> QED
      BY <2>4, <2>5 DEF AlertsOK
  <1>7. CASE Alerting!MessageEnds
    <2>1. UNCHANGED <<configured, alerts_pc, total_failed, total_sent, minute, alerts, audited,
                      reopened, alerts_crashes>>
      BY <1>7 DEF Alerting!MessageEnds, Alerting!check
    <2>2. /\ failed \in Nat /\ other \in Nat /\ failed + other <= MaxMessages
          /\ \/ failed + other < MaxMessages /\ failed' = failed + 1 /\ other' = other
             \/ failed + other < MaxMessages /\ other' = other + 1 /\ failed' = failed
             \/ failed > 0 /\ failed' = failed - 1 /\ other' = other + 1
             \/ other > 0 /\ other' = other - 1 /\ failed' = failed + 1
      BY <1>0, <1>7 DEF Alerting!MessageEnds, AlertRows
    <2>3. /\ failed' \in Nat /\ other' \in Nat /\ failed' + other' <= MaxMessages
          /\ \/ failed' + other' = failed + other
             \/ failed' + other' = failed + other + 1
      BY <2>2, AlertBounds
    <2>4. AlertRows' /\ AlertMinutes'
      BY <1>0, <2>1, <2>3 DEF AlertRows, AlertMinutes
    <2>5. ASSUME alerts_pc = "counting 2", reopened = 0
          PROVE  total_failed <= failed' + other'
      <3>1. total_failed <= failed + other /\ total_failed \in 0..MaxMessages
        BY <1>0, <2>5 DEF AlertCounts
      <3>2. total_failed \in Nat /\ failed + other \in Nat
        BY <1>a, <3>1, AlertBounds
      <3>3. CASE failed' + other' = failed + other
        BY <3>1, <3>3
      <3>4. CASE failed' + other' = failed + other + 1
        BY <3>1, <3>2, <3>4
      <3> QED
        BY <2>3, <3>3, <3>4
    <2>6. AlertCounts'
      BY <1>0, <2>1, <2>5 DEF AlertCounts
    <2> QED
      BY <2>4, <2>6 DEF AlertsOK
  <1>8. CASE Alerting!Reopen
    <2>1. /\ failed > 0 /\ reopened < MaxReopened
          /\ failed' = failed - 1 /\ reopened' = reopened + 1
          /\ UNCHANGED <<other, configured, alerts_pc, total_failed, total_sent, minute, alerts,
                         audited, alerts_crashes>>
      BY <1>8 DEF Alerting!Reopen, Alerting!check
    <2>2. reopened' \in 0..MaxReopened /\ reopened' # 0
      BY <1>c, <2>1, AlertBounds
    <2>3. failed' \in Nat /\ failed' + other' <= MaxMessages
      BY <1>a, <2>1, AlertBounds
    <2>4. AlertRows'
      BY <1>0, <2>1, <2>2, <2>3 DEF AlertRows
    <2>5. AlertCounts' /\ AlertMinutes'
      BY <1>0, <2>1, <2>2 DEF AlertCounts, AlertMinutes
    <2> QED
      BY <2>4, <2>5 DEF AlertsOK
  <1>9. CASE Alerting!WindowMoves
    <2>1. /\ alerts_pc = "idle" /\ failed' \in 0..failed /\ other' \in 0..other
          /\ UNCHANGED <<configured, alerts_pc, total_failed, total_sent, minute, alerts, audited,
                         reopened, alerts_crashes>>
      BY <1>9 DEF Alerting!WindowMoves, Alerting!check
    <2>2. PICK f \in 0..failed, o \in 0..other : failed' = f /\ other' = o
      BY <2>1
    <2>3. f \in Nat /\ o \in Nat /\ f + o <= MaxMessages
      BY <1>a, AlertBounds
    <2>4. AlertRows'
      BY <1>0, <2>1, <2>2, <2>3 DEF AlertRows
    <2>5. AlertCounts' /\ AlertMinutes'
      BY <1>0, <2>1 DEF AlertCounts, AlertMinutes
    <2> QED
      BY <2>4, <2>5 DEF AlertsOK
  <1>10. CASE Alerting!NextMinute
    <2>1. /\ minute < MaxMinutes /\ minute' = minute + 1
          /\ UNCHANGED <<failed, other, reopened, configured, alerts_pc, total_failed, total_sent,
                         alerts, audited, alerts_crashes>>
      BY <1>10 DEF Alerting!NextMinute, Alerting!rows, Alerting!check
    <2>2. /\ minute' \in 0..MaxMinutes /\ minute' > minute
          /\ \A i \in 0..MaxMinutes : i > minute' => i > minute
      BY <1>c, <2>1, AlertBounds
    <2>3. \A i \in 0..MaxMinutes : i > minute' => alerts[i] = 0
      BY <1>0, <2>2 DEF AlertMinutes
    <2>4. alerts[minute'] = 0 /\ 0 <= alerts_crashes
      <3>1. PICK i \in 0..MaxMinutes : i = minute' /\ i > minute
        BY <2>2
      <3>2. alerts[i] = 0
        BY <1>0, <3>1 DEF AlertMinutes
      <3> QED
        BY <1>c, <3>1, <3>2
    <2>5. AlertMinutes'
      BY <1>0, <2>1, <2>2, <2>3, <2>4 DEF AlertMinutes
    <2>6. AlertRows' /\ AlertCounts'
      BY <1>0, <2>1 DEF AlertRows, AlertCounts
    <2> QED
      BY <2>5, <2>6 DEF AlertsOK
  <1>11. ASSUME UNCHANGED alertsVars PROVE AlertsOK'
    <2>1. UNCHANGED <<failed, other, configured, alerts_pc, total_failed, total_sent, minute, alerts,
                      audited, reopened, alerts_crashes>>
      BY <1>11 DEF alertsVars
    <2> QED
      BY <1>0, <2>1 DEF AlertsOK, AlertRows, AlertCounts, AlertMinutes
  <1> QED
    BY <1>1, <1>2, <1>3, <1>4, <1>5, <1>6, <1>7, <1>8, <1>9, <1>10, <1>11
    DEF Alerting!Next, Alerting!RunAlertCheck

-----------------------------------------------------------------------------
(* The composition.                                                        *)

WorkersOK ==
    /\ Tidy /\ Faithful
    /\ InboxOK /\ RemindersOK /\ CampaignsOK /\ AlertsOK /\ Purging!TypeOK

LEMMA WorkersStart == WorkersInit => WorkersOK
  BY InitTidy, InitFaithful, InboxInit, RemindersInit, CampaignsInit, AlertsInit, PurgeInit
  DEF WorkersInit, WorkersOK

\* A step of the whole is a step or a stutter of each part.
LEMMA PartsMove ==
  ASSUME [WorkersNext]_allVars
  PROVE  /\ [Next]_vars /\ [Inbox!Next]_inboundVars /\ [Scheduler!Next]_remindersVars
         /\ [Promotions!Next]_campaignsVars /\ [Alerting!Next]_alertsVars
         /\ [Purging!Next]_retentionVars
  BY DEF WorkersNext, allVars, BackupTask, InboundTask, ReminderTask, CampaignTask, AlertTask,
         RetentionTask

LEMMA WorkersStep == WorkersOK /\ [WorkersNext]_allVars => WorkersOK'
  <1> SUFFICES ASSUME WorkersOK, [WorkersNext]_allVars PROVE WorkersOK'
    OBVIOUS
  <1>1. Tidy' /\ Faithful'
    BY PartsMove, TidyStep, FaithfulStep DEF WorkersOK
  <1>2. InboxOK' /\ RemindersOK'
    BY PartsMove, InboxStep, RemindersStep DEF WorkersOK
  <1>3. CampaignsOK' /\ AlertsOK' /\ Purging!TypeOK'
    BY PartsMove, CampaignsStep, AlertsStep, PurgeStep DEF WorkersOK
  <1> QED
    BY <1>1, <1>2, <1>3 DEF WorkersOK

\* The invariants of all worker tasks, whichever of them runs.
THEOREM WorkersInvariant == WorkersSpec => []WorkersOK
  BY WorkersStart, WorkersStep, PTL DEF WorkersSpec

\* Files, rows, candidates, counts and tasks have their types, and the directory its size.
THEOREM WorkersTypeCorrect == WorkersSpec => []WorkersTypeOK
  <1>1. WorkersOK => WorkersTypeOK
    BY TidyTypeOK, InboxImplies, AlertsImply
    DEF WorkersOK, WorkersTypeOK, RemindersOK, CampaignsOK
  <1> QED
    BY <1>1, WorkersInvariant, PTL

\* However many workers die and wherever, a message is marked processed exactly when it
\* was answered, for any texts and any number of messages.
THEOREM ProcessedMeansAnswered == WorkersSpec => []ProcessedIffAnswered
  <1>1. WorkersOK => ProcessedIffAnswered
    BY InboxImplies DEF WorkersOK
  <1> QED
    BY <1>1, WorkersInvariant, PTL

\* A message is answered once more than workers have died, at most.
THEOREM SecondReplyNeedsACrash == WorkersSpec => []AnsweredTwiceNeedsACrash
  <1>1. WorkersOK => AnsweredTwiceNeedsACrash
    BY InboxImplies DEF WorkersOK
  <1> QED
    BY <1>1, WorkersInvariant, PTL

\* For any due dates, and whatever is paid or opted out between the runs of a day, a
\* transaction has one reminder a day.
THEOREM OneReminderOnADay == WorkersSpec => []OneReminderADay
  <1>1. WorkersOK => OneReminderADay
    BY RemindersImply DEF WorkersOK
  <1> QED
    BY <1>1, WorkersInvariant, PTL

\* A failure rate is a fraction, for any number of messages and any interleaving of the
\* two counts with sends and reports, unless a stale reconciliation reopened a row.
THEOREM RateStaysAFraction == WorkersSpec => []RateIsAFraction
  <1>1. WorkersOK => RateIsAFraction
    BY AlertsImply DEF WorkersOK
  <1> QED
    BY <1>1, WorkersInvariant, PTL
=============================================================================
