---------------------------- MODULE CreditTerms -----------------------------
(***************************************************************************)
(* domain/credit_terms_service.py: requests for more time to pay, and the  *)
(* staff that answers them.  A member of staff loads a request, decides on *)
(* the row as loaded, and the session writes the columns it changed: the   *)
(* row is not locked and the UPDATE does not look at the status again.     *)
(***************************************************************************)
EXTENDS Integers

CONSTANTS Requests, Staff,
          NoRequest,
          SLA_HOURS

CreditTermsAssumption == NoRequest \notin Requests /\ SLA_HOURS \in Nat \ {0}

CreditTermsStatus == {"requested", "under_review", "approved", "denied", "resolved"}

VARIABLES
    request,  \* [Requests -> row, or status "none"]
    age,      \* [Requests -> hours since created_at, up to one past the SLA]
    cur,      \* [Staff -> request]
    seen      \* [Staff -> status of cur, as loaded]

vars == <<request, age, cur, seen>>

Init ==
    /\ request = [r \in Requests |-> [status |-> "none", resolved_at |-> FALSE]]
    /\ age = [r \in Requests |-> 0]
    /\ cur = [s \in Staff |-> NoRequest] /\ seen = [s \in Staff |-> "none"]

-----------------------------------------------------------------------------
\* Fault: a request may be closed without a decision.
ValidToClose(status) ==
    CASE status = "requested" -> {"under_review", "approved", "denied", "resolved"}
      [] status = "under_review" -> {"approved", "denied"}
      [] status \in {"approved", "denied"} -> {"resolved"}
      [] OTHER -> {}

\* The table of _update_status.
Valid(status) ==
    CASE status = "requested" -> {"under_review", "approved", "denied"}
      [] status = "under_review" -> {"approved", "denied"}
      [] status \in {"approved", "denied"} -> {"resolved"}
      [] OTHER -> {}

CreateRequest(r) ==
    /\ request[r].status = "none"
    /\ request' = [request EXCEPT ![r].status = "requested"]
    /\ UNCHANGED <<age, cur, seen>>

Load(s, r) ==
    /\ cur[s] = NoRequest /\ request[r].status # "none"
    /\ cur' = [cur EXCEPT ![s] = r] /\ seen' = [seen EXCEPT ![s] = request[r].status]
    /\ UNCHANGED <<request, age>>

Leave(s) == cur' = [cur EXCEPT ![s] = NoRequest] /\ seen' = [seen EXCEPT ![s] = "none"]

ResolvedAt(r, status) == status = "resolved" \/ request[r].resolved_at

\* values_callable: the value is stored.
Stored(status) == status

\* approve, deny and resolve.
UpdateStatus(s, status) ==
    /\ cur[s] # NoRequest /\ status \in Valid(seen[s])
    /\ request' = [request EXCEPT ![cur[s]] =
                      [status |-> Stored(status), resolved_at |-> ResolvedAt(cur[s], status)]]
    /\ Leave(s)
    /\ UNCHANGED age

RejectTransition(s, status) ==
    /\ cur[s] # NoRequest /\ status \notin Valid(seen[s])
    /\ Leave(s)
    /\ UNCHANGED <<request, age>>

Hour(r) ==
    /\ request[r].status # "none" /\ age[r] <= SLA_HOURS
    /\ age' = [age EXCEPT ![r] = @ + 1]
    /\ UNCHANGED <<request, cur, seen>>

\* find_overdue_requests.
Overdue == {r \in Requests : request[r].status \in {"requested", "under_review"} /\ age[r] > SLA_HOURS}

Next ==
    \/ \E r \in Requests : CreateRequest(r) \/ Hour(r) \/ \E s \in Staff : Load(s, r)
    \/ \E s \in Staff, status \in {"approved", "denied", "resolved"} :
           UpdateStatus(s, status) \/ RejectTransition(s, status)

Spec == Init /\ [][Next]_vars

-----------------------------------------------------------------------------
TypeOK ==
    /\ request \in [Requests -> [status : CreditTermsStatus \cup {"none"}, resolved_at : BOOLEAN]]
    /\ age \in [Requests -> 0..(SLA_HOURS + 1)]
    /\ cur \in [Staff -> Requests \cup {NoRequest}]
    /\ seen \in [Staff -> CreditTermsStatus \cup {"none"}]
    /\ \A s \in Staff : cur[s] = NoRequest <=> seen[s] = "none"

\* A request that is overdue stays in the list of overdue ones until somebody
\* decides it, and a decision, however stale the copy it was made on, never puts
\* one back on the list.
OverdueUntilDecided == [][\A r \in Requests :
    /\ r \in Overdue => r \in Overdue' \/ request'[r].status \in {"approved", "denied"}
    /\ request[r].status \in {"approved", "denied", "resolved"} => r \notin Overdue']_vars
=============================================================================
