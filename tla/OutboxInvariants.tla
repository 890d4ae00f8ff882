-------------------------- MODULE OutboxInvariants --------------------------
(***************************************************************************)
(* The inductive invariants behind the safety properties of Outbox: what   *)
(* each session may rely on between its steps.  TLC checks them here, on   *)
(* small instances; OutboxProofs proves them.                              *)
(***************************************************************************)
EXTENDS Outbox

\* Where a session is says what it holds in its hands.
SessionOK ==
    /\ \A s \in Senders :
        /\ pc[s] \in {"idle", "working", "claimed", "answered"}
        /\ pc[s] = "idle" => todo[s] = {}
        /\ cur[s] \in Messages <=> pc[s] \in {"claimed", "answered"}
        /\ pc[s] = "answered" => resp[s] \in SendAnswers
    /\ \A r \in Reconcilers :
        /\ pc[r] \in {"idle", "working", "queried"}
        /\ pc[r] = "idle" => todo[r] = {}
        /\ pc[r] = "queried" => cur[r] \in todo[r] /\ resp[r] \in QueryAnswers
    /\ \A p \in Payers :
        /\ pc[p] \in {"idle", "working"}
        /\ pc[p] = "idle" => todo[p] = {}
    /\ \A h \in Hooks :
        /\ pc[h] \in {"idle", "setting", "keeping"}
        /\ pc[h] # "idle" => report[h] \in Report

\* What the lock on row m protects: a free row has no uncommitted image, and
\* every session that holds it left in the image what its kind writes there.
FreeRow(m) == lock[m] = NoProc => image[m] = row[m] /\ m \notin called

SenderRow(s, m) ==
    /\ m \in todo[s] => lock[m] = s /\ m \notin called /\ m # cur[s] /\ image[m].status = "PENDING"
    /\ m = cur[s] => /\ lock[m] = s
                     /\ image[m].status = "SENDING"
                     /\ pc[s] = "claimed" => m \notin called
    /\ lock[m] = s => /\ row[m].status = "PENDING"
                      /\ row[m].retry_count < MaxRetries
                      /\ image[m].retry_count = row[m].retry_count
                      /\ m \in called => image[m].status # "PENDING"

ReconcilerRow(r, m) ==
    /\ m \in todo[r] => /\ lock[m] # r
                        /\ row[m].status # "PENDING"
                        /\ seen[r][m] = row[m].retry_count
                        /\ row[m].retry_count < MaxRetries
    /\ lock[m] = r => /\ pc[r] # "idle"
                      /\ m \notin called
                      /\ row[m].status # "PENDING"
                      /\ row[m].retry_count < MaxRetries
                      /\ image[m].retry_count =
                            IF image[m].status = "PENDING" THEN row[m].retry_count + 1
                            ELSE row[m].retry_count

PayerRow(p, m) ==
    lock[m] = p => /\ m \notin called
                   /\ image[m].status = "SUPPRESSED"
                   /\ image[m].retry_count = row[m].retry_count

\* What the senders' locks guarantee, whatever the other sessions do.
ClaimsOK ==
    \A m \in Messages :
        /\ FreeRow(m)
        /\ \A s \in Senders : SenderRow(s, m)
        /\ lock[m] \notin Hooks

\* What the sessions that select without a lock may still rely on.
SelectionsOK ==
    \A m \in Messages :
        /\ \A r \in Reconcilers : ReconcilerRow(r, m)
        /\ \A p \in Payers : PayerRow(p, m)
        /\ row[m].status = "UNKNOWN_DELIVERY" => row[m].retry_count < MaxRetries

\* The account of calls that RetryBudget needs.
CallsOK ==
    \A m \in Messages :
        /\ calls[m] <= lost[m] + MaxRetries
        /\ calls[m] <= lost[m] + row[m].retry_count + 1
        /\ row[m].status = "PENDING" /\ m \notin called => calls[m] <= lost[m] + row[m].retry_count

\* The account of SMS that DuplicatesNeedACrash needs.
SmsOK ==
    \A m \in Messages :
        /\ IsFiniteSet(accepted[m])
        /\ Cardinality(accepted[m]) <= lost[m] + 1
        /\ row[m].status = "PENDING" /\ m \notin called => Cardinality(accepted[m]) <= lost[m]
        /\ \A r \in Reconcilers :
            /\ pc[r] = "queried" /\ cur[r] = m /\ resp[r] = "not_found" => accepted[m] = {}
            /\ lock[m] = r /\ image[m].status = "PENDING" => accepted[m] = {}

\* Success is known from the provider only: whatever a session holds or has
\* written of a message is backed by what the provider accepted and reported.
RowBacked(r, m) ==
    /\ r.status \in {"SENT", "DELIVERED"} => accepted[m] # {}
    /\ r.provider_message_id # 0 => r.provider_message_id \in accepted[m]
    /\ r.status = "DELIVERED" => \E rep \in reports : rep.msg = m /\ rep.status = "Delivered"

AnswerBacked(w) ==
    /\ resp[w] \in {"ACCEPTED", "sent", "delivered"} => accepted[cur[w]] # {}
    /\ resp[w] = "delivered" =>
          \E rep \in reports : rep.msg = cur[w] /\ rep.status = "Delivered"

BackedOK ==
    /\ \A m \in Messages : RowBacked(row[m], m) /\ RowBacked(image[m], m)
    /\ \A s \in Senders : pc[s] = "answered" => AnswerBacked(s)
    /\ \A r \in Reconcilers : pc[r] = "queried" => AnswerBacked(r)
    /\ \A h \in Hooks : pc[h] # "idle" =>
          /\ report[h].id \in accepted[report[h].msg]
          /\ report[h].status = "Delivered" => report[h] \in reports
    /\ \A rep \in reports : rep.id \in accepted[rep.msg]

\* A row that may still be sent, or whose outcome is open, has no
\* provider_message_id, so no delivery report can touch it; what the
\* reconciliation has selected stays such a row until it is written.
IdsOK ==
    \A m \in Messages :
        /\ row[m].status \in {"PENDING", "SENDING", "UNKNOWN_DELIVERY"} =>
              row[m].provider_message_id = 0
        /\ lock[m] \in Senders /\ image[m].provider_message_id # 0 => image[m].status = "SENT"
        /\ lock[m] \in Reconcilers \cup Payers =>
              image[m].provider_message_id = row[m].provider_message_id
        /\ \A r \in Reconcilers : m \in todo[r] \/ lock[m] = r =>
              /\ row[m].provider_message_id = 0
              /\ row[m].status \in {"UNKNOWN_DELIVERY", "SUPPRESSED"}
        /\ \A h \in Hooks : pc[h] # "idle" /\ report[h].msg = m => row[m].provider_message_id # 0

\* Everything above; every step of every session preserves it when the
\* reconciliation task does not overlap itself and the adapter tells the truth.
InductiveInvariant == SessionOK /\ ClaimsOK /\ SelectionsOK /\ CallsOK /\ SmsOK /\ BackedOK /\ IdsOK
=============================================================================
