----------------------------- MODULE Retention ------------------------------
(***************************************************************************)
(* The daily purge: domain/retention.py deletes old rows of four kinds in  *)
(* one session and logs the purge, and workers/maintenance.py logs the run *)
(* after it.  Neither log can be written: AuditContext(school_id) passes,  *)
(* the AuditEvent built from it does not, and the second one names an      *)
(* event type that does not exist.  So no purge that deletes anything is   *)
(* committed, and no variable says what is gone: nothing ever is.  An age  *)
(* is a number of 30-day periods.                                          *)
(***************************************************************************)
EXTENDS Integers, Sequences

CONSTANTS Rows,
          MaxCrashes   \* bound: purges cut short

RetentionAssumption == MaxCrashes \in Nat

MessageStatus == {"pending", "sending", "sent", "delivered", "failed",
                  "unknown_delivery", "suppressed"}
Kind == MessageStatus \cup {"callback", "inbound"}
MaxAge == 4

VARIABLES
    kind,      \* [Rows -> Kind]: the table, and the status of an outbound message
    age,       \* [Rows -> 30-day periods since updated_at or created_at]
    pc,
    deleting,  \* rows the open session has deleted
    crashes

vars == <<kind, age, pc, deleting, crashes>>

Init ==
    /\ kind \in [Rows -> Kind] /\ age = [r \in Rows |-> 0]
    /\ pc = "idle" /\ deleting = {} /\ crashes = 0

-----------------------------------------------------------------------------
\* The four deletes, in their order, and how old a row they take.
Purges == <<"sent", "failed", "callback", "inbound">>

Kinds(p) == IF p = "sent" THEN {"sent", "delivered"} ELSE {p}
Days(p) == IF p = "sent" THEN 90 ELSE 30

Purgeable(r, p) == kind[r] \in Kinds(p) /\ 30 * age[r] > Days(p)

Purge(i) ==
    /\ pc = Purges[i]
    /\ deleting' = deleting \cup {r \in Rows : Purgeable(r, Purges[i])}
    /\ pc' = IF i = Len(Purges) THEN "logging" ELSE Purges[i + 1]
    /\ UNCHANGED <<kind, age, crashes>>

StartPurge ==
    /\ pc = "idle"
    /\ pc' = Purges[1] /\ deleting' = {}
    /\ UNCHANGED <<kind, age, crashes>>

\* The session is rolled back and the error is left in the result.
LogRaises ==
    /\ pc = "logging" /\ deleting # {}
    /\ deleting' = {} /\ pc' = "reporting"
    /\ UNCHANGED <<kind, age, crashes>>

CommitNothing ==
    /\ pc = "logging" /\ deleting = {}
    /\ pc' = "reporting"
    /\ UNCHANGED <<kind, age, deleting, crashes>>

\* AuditEventType.SIS_SYNC: the task itself fails, after the purge.
ReportRaises ==
    /\ pc = "reporting"
    /\ pc' = "idle"
    /\ UNCHANGED <<kind, age, deleting, crashes>>

RunRetentionPurge ==
    \/ StartPurge \/ LogRaises \/ CommitNothing \/ ReportRaises
    \/ \E i \in DOMAIN Purges : Purge(i)

Die ==
    /\ pc # "idle" /\ crashes < MaxCrashes
    /\ pc' = "idle" /\ deleting' = {} /\ crashes' = crashes + 1
    /\ UNCHANGED <<kind, age>>

\* A message gets another status, which sets updated_at.
Update(r) ==
    /\ kind[r] \in MessageStatus /\ r \notin deleting
    /\ \E s \in MessageStatus : kind' = [kind EXCEPT ![r] = s]
    /\ age' = [age EXCEPT ![r] = 0]
    /\ UNCHANGED <<pc, deleting, crashes>>

\* 30 days without a purge under way.
Pass ==
    /\ pc = "idle"
    /\ age' = [r \in Rows |-> IF age[r] < MaxAge THEN age[r] + 1 ELSE MaxAge]
    /\ UNCHANGED <<kind, pc, deleting, crashes>>

Next == RunRetentionPurge \/ Die \/ Pass \/ \E r \in Rows : Update(r)

Spec == Init /\ [][Next]_vars

-----------------------------------------------------------------------------
TypeOK ==
    /\ kind \in [Rows -> Kind] /\ age \in [Rows -> 0..MaxAge]
    /\ deleting \subseteq Rows
    /\ pc \in {"idle", "sent", "failed", "callback", "inbound", "logging", "reporting"} /\ crashes \in 0..MaxCrashes
=============================================================================
