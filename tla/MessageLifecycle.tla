-------------------------- MODULE MessageLifecycle --------------------------
(***************************************************************************)
(* The abstract specification of the outbox: the life of an               *)
(* OutboundMessage as the repository documents it.  It knows nothing of    *)
(* workers, locks or transactions, only which committed status may follow  *)
(* which.  Outbox.tla is shown to implement it.                            *)
(***************************************************************************)
CONSTANT Messages          \* the rows of outbound_messages

VARIABLE status            \* [Messages -> MessageStatus], as committed

\* domain/models.py, class MessageStatus.
MessageStatus ==
    {"PENDING", "SENDING", "SENT", "DELIVERED", "FAILED",
     "UNKNOWN_DELIVERY", "SUPPRESSED"}

\* domain/outbox.py, OutboxService.VALID_TRANSITIONS.
VALID_TRANSITIONS ==
    [PENDING          |-> {"SENDING"},
     SENDING          |-> {"SENT", "FAILED", "UNKNOWN_DELIVERY"},
     SENT             |-> {},
     DELIVERED        |-> {},
     FAILED           |-> {"PENDING"},
     UNKNOWN_DELIVERY |-> {"SENT", "FAILED", "PENDING"},
     SUPPRESSED       |-> {}]

\* The table plus the two edges of the diagram in class MessageStatus that
\* the table leaves to raw assignments: the delivery report and the
\* suppression of a reminder that has not been sent.
Edge(a, b) ==
    \/ b \in VALID_TRANSITIONS[a]
    \/ a = "SENT" /\ b = "DELIVERED"
    \/ a = "PENDING" /\ b = "SUPPRESSED"

\* One transaction may carry a message along two consecutive edges before it
\* commits: claim and outcome, or "sent" and "delivered" learnt together.
Follows(a, b) == Edge(a, b) \/ \E via \in MessageStatus : Edge(a, via) /\ Edge(via, b)

LifecycleInit == status = [m \in Messages |-> "PENDING"]

\* A commit changes the status of the messages of one batch.
LifecycleNext ==
    /\ status' \in [Messages -> MessageStatus]
    /\ \A m \in Messages : status'[m] # status[m] => Follows(status[m], status'[m])

LifecycleSpec == LifecycleInit /\ [][LifecycleNext]_status
=============================================================================
