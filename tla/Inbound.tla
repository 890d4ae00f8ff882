------------------------------ MODULE Inbound -------------------------------
(***************************************************************************)
(* workers/inbound.py: the task that parses a customer's SMS and answers   *)
(* it, with the webhook in front of it (api/webhooks/africas_talking.py).  *)
(* A run of the task is one database session; two of its branches write an *)
(* audit event, whose construction raises, and lose the whole session.  A  *)
(* task is acknowledged late: a worker that dies leaves it to another one. *)
(***************************************************************************)
EXTENDS Integers, SequencesExt

CONSTANTS Messages, Contacts,
          Unknown,     \* no contact has the sender's number
          Bodies,      \* what customers write, as records of Body
          MaxCrashes   \* bound: workers that die

\* The order of KEYWORD_PATTERNS.
Keywords == <<"paid", "status", "balance", "call", "extension", "help", "stop",
              "start", "promo", "points", "book", "hours", "location">>
InboundIntent == Range(Keywords) \cup {"unknown"}

\* A text: the keyword it is, if it is one, and the keywords found inside it.
Body == [exact : InboundIntent, words : SUBSET Range(Keywords)]

InboundAssumption ==
    Bodies \subseteq Body /\ Unknown \notin Contacts /\ MaxCrashes \in Nat

VARIABLES
    row,        \* [Messages -> inbound_messages row]
    task,       \* [Messages -> state of its task]
    received,   \* messages the webhook handler is done with
    sms_opt_in, \* [Contacts -> BOOLEAN]
    requests,   \* messages with a credit_terms_requests row
    answers,    \* [Messages -> replies in the outbox]
    crashes

vars == <<row, task, received, sms_opt_in, requests, answers, crashes>>

NoRow == [stored |-> FALSE, contact |-> Unknown, intent |-> "unknown", processed |-> FALSE,
          body |-> [exact |-> "unknown", words |-> {}]]

Init ==
    /\ row = [m \in Messages |-> NoRow]
    /\ task = [m \in Messages |-> "none"]
    /\ received = {}
    /\ sms_opt_in \in [Contacts -> BOOLEAN]
    /\ requests = {} /\ answers = [m \in Messages |-> 0] /\ crashes = 0

Goto(m, label) == task' = [task EXCEPT ![m] = label]

-----------------------------------------------------------------------------
\* parse_intent: a whole keyword first, then the first one found in the text.
ParseIntent(body) ==
    LET found == {i \in DOMAIN Keywords : Keywords[i] \in body.words}
    IN  IF body.exact # "unknown" THEN body.exact
        ELSE IF body.words = {} THEN "unknown"
        ELSE Keywords[Min(found)]

\* receive_sms raises building the row, from columns the table does not have.
ReceiveSms(m) ==
    /\ m \notin received
    /\ received' = received \cup {m}
    /\ UNCHANGED <<row, task, sms_opt_in, requests, answers, crashes>>

\* The row and the task the handler is to create.
Ingest(m, c, b) ==
    /\ ~row[m].stored
    /\ row' = [row EXCEPT ![m] = [NoRow EXCEPT !.stored = TRUE, !.contact = c, !.body = b]]
    /\ Goto(m, "queued")
    /\ UNCHANGED <<received, sms_opt_in, requests, answers, crashes>>

Marked(m) == [row EXCEPT ![m].intent = ParseIntent(row[m].body), ![m].processed = TRUE]

\* Fault: the intent is committed, not flushed, before it is acted on.
ParseAndCommit(m) ==
    /\ task[m] = "queued"
    /\ row' = Marked(m)
    /\ Goto(m, IF row[m].contact = Unknown THEN "acked" ELSE "parsed")
    /\ UNCHANGED <<received, sms_opt_in, requests, answers, crashes>>

\* The flushed intent stays in the session; without a contact it ends there.
Parse(m) ==
    /\ task[m] = "queued"
    /\ Goto(m, IF row[m].contact = Unknown THEN "acked" ELSE "parsed")
    /\ UNCHANGED <<row, received, sms_opt_in, requests, answers, crashes>>

\* Branches that log an audit event.
Raises == {"stop", "extension"}

\* Branches that only build a reply.
Replies == InboundIntent \ Raises

\* The exception rolls the session back; the failed task is acknowledged.
DispatchRaises(m) ==
    /\ task[m] = "parsed" /\ ParseIntent(row[m].body) \in Raises
    /\ Goto(m, "failed")
    /\ UNCHANGED <<row, received, sms_opt_in, requests, answers, crashes>>

Consent(m) == CASE ParseIntent(row[m].body) = "start" -> TRUE
                [] ParseIntent(row[m].body) = "stop" -> FALSE
                [] OTHER -> sms_opt_in[row[m].contact]

\* _queue_response: the key holds the time, a second reply is a second row.
QueueResponse(m) == answers' = [answers EXCEPT ![m] = @ + 1]

Dispatch(m) ==
    /\ task[m] = "parsed" /\ ParseIntent(row[m].body) \in Replies
    /\ row' = Marked(m)
    /\ sms_opt_in' = [sms_opt_in EXCEPT ![row[m].contact] = Consent(m)]
    /\ requests' = requests \cup (IF ParseIntent(row[m].body) = "extension" THEN {m} ELSE {})
    /\ QueueResponse(m)
    /\ Goto(m, "committed")
    /\ UNCHANGED <<received, crashes>>

\* Fault: the broker takes the task for abandoned, though it succeeded.
AckLost(m) ==
    /\ task[m] = "committed"
    /\ Goto(m, "queued")
    /\ UNCHANGED <<row, received, sms_opt_in, requests, answers, crashes>>

Ack(m) ==
    /\ task[m] = "committed"
    /\ Goto(m, "acked")
    /\ UNCHANGED <<row, received, sms_opt_in, requests, answers, crashes>>

\* Fault: a task is acknowledged when it is taken.
RequeuedNever == "acked"

Requeued == "queued"

Die(m) ==
    /\ task[m] \in {"parsed", "committed"} /\ crashes < MaxCrashes
    /\ crashes' = crashes + 1
    /\ Goto(m, Requeued)
    /\ UNCHANGED <<row, received, sms_opt_in, requests, answers>>

ProcessInboundMessage(m) == Parse(m) \/ Dispatch(m) \/ DispatchRaises(m) \/ Ack(m)

Next == \E m \in Messages :
    \/ ReceiveSms(m)
    \/ \E c \in Contacts \cup {Unknown}, b \in Bodies : Ingest(m, c, b)
    \/ ProcessInboundMessage(m) \/ Die(m)

Spec == Init /\ [][Next]_vars

LiveSpec == Spec /\ \A m \in Messages : WF_vars(ProcessInboundMessage(m))

-----------------------------------------------------------------------------
TypeOK ==
    /\ row \in [Messages -> [stored : BOOLEAN, contact : Contacts \cup {Unknown},
                             intent : InboundIntent, processed : BOOLEAN,
                             body : Bodies \cup {NoRow.body}]]
    /\ task \in [Messages -> {"none", "queued", "parsed", "committed", "acked", "failed"}]
    /\ received \subseteq Messages /\ requests \subseteq Messages
    /\ sms_opt_in \in [Contacts -> BOOLEAN]
    /\ answers \in [Messages -> 0..(MaxCrashes + 1)] /\ crashes \in 0..MaxCrashes

\* processed_at means answered: neither a worker that dies, nor an exception in a
\* branch, nor an unknown number leaves a message marked and unanswered, which
\* nothing would ever look at again.
ProcessedIffAnswered == \A m \in Messages : row[m].processed <=> answers[m] > 0

\* The task does not look at processed_at, and the reply's key does not stop a
\* second one; all the same a customer gets two replies only when a worker died.
AnsweredTwiceNeedsACrash == \A m \in Messages : answers[m] <= 1 + crashes

\* A customer whose number is known is answered, whatever workers die, unless the
\* branch raises.
EveryMessageAnswered == \A m \in Messages :
    (row[m].stored /\ row[m].contact # Unknown /\ ParseIntent(row[m].body) \in Replies)
        ~> (answers[m] > 0)

-----------------------------------------------------------------------------
Done(m) == task[m] \in {"acked", "failed"} /\ row[m].contact # Unknown

\* "STOP/START update contact preferences".
StopIsHonoured == \A m \in Messages :
    (Done(m) /\ ParseIntent(row[m].body) = "stop")
        => \/ ~sms_opt_in[row[m].contact]
           \/ \E n \in Messages : row[n].contact = row[m].contact /\ row[n].intent = "start"
=============================================================================
