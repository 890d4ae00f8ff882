---------------------------- MODULE Connectivity ----------------------------
(***************************************************************************)
(* The network of a rural site, the watcher of infra/connectivity_watcher  *)
(* .py, which keeps a flag in Redis, and the send worker, which does not   *)
(* ask for it.  The watcher's audit event raises.  The task Beat starts,   *)
(* check_connectivity of workers/sends.py, pings and writes nothing.  A    *)
(* call without a network is ambiguous to the Africa's Talking adapter,    *)
(* whose query never resolves it (see Outbox).                             *)
(***************************************************************************)
EXTENDS Integers

CONSTANTS Messages, Watchers,
          NoFlag,        \* connectivity:online does not exist
          MaxChanges     \* bound: changes of the network

ConnectivityAssumption == MaxChanges \in Nat /\ NoFlag \notin {"true", "false"}

VARIABLES
    network,   \* the provider can be reached
    flag,      \* connectivity:online
    pc, previous, current,  \* of each watcher
    status,    \* [Messages -> status of the row]
    changes

vars == <<network, flag, pc, previous, current, status, changes>>

Init ==
    /\ network = TRUE /\ flag = NoFlag
    /\ pc = [w \in Watchers |-> "idle"]
    /\ previous = [w \in Watchers |-> FALSE] /\ current = [w \in Watchers |-> FALSE]
    /\ status = [m \in Messages |-> "pending"] /\ changes = 0

Goto(w, label) == pc' = [pc EXCEPT ![w] = label]

-----------------------------------------------------------------------------
\* No flag counts as offline here, though is_online takes it for online.
GetPrevious(w) ==
    /\ pc[w] = "idle"
    /\ previous' = [previous EXCEPT ![w] = flag = "true"]
    /\ Goto(w, "pinging")
    /\ UNCHANGED <<network, flag, current, status, changes>>

Ping(w) ==
    /\ pc[w] = "pinging"
    /\ current' = [current EXCEPT ![w] = network]
    /\ Goto(w, "setting")
    /\ UNCHANGED <<network, flag, previous, status, changes>>

\* Fault: the flag changes after the audit event, which raises.
NewFlagAfterAudit(w) ==
    IF current[w] # previous[w] THEN flag ELSE IF current[w] THEN "true" ELSE "false"

NewFlag(w) == IF current[w] THEN "true" ELSE "false"

SetFlag(w) ==
    /\ pc[w] = "setting"
    /\ flag' = NewFlag(w)
    /\ Goto(w, IF current[w] # previous[w] THEN "auditing" ELSE "idle")
    /\ UNCHANGED <<network, previous, current, status, changes>>

AuditRaises(w) ==
    /\ pc[w] = "auditing"
    /\ Goto(w, "idle")
    /\ UNCHANGED <<network, flag, previous, current, status, changes>>

UpdateConnectivityStatus(w) == GetPrevious(w) \/ Ping(w) \/ SetFlag(w) \/ AuditRaises(w)

\* The send worker, as far as the network decides.
PollAndSend(m) ==
    /\ status[m] = "pending"
    /\ status' = [status EXCEPT ![m] = IF network THEN "sent" ELSE "unknown_delivery"]
    /\ UNCHANGED <<network, flag, pc, previous, current, changes>>

NetworkChanges ==
    /\ changes < MaxChanges
    /\ changes' = changes + 1 /\ network' = ~network
    /\ UNCHANGED <<flag, pc, previous, current, status>>

Next ==
    \/ \E w \in Watchers : UpdateConnectivityStatus(w)
    \/ \E m \in Messages : PollAndSend(m)
    \/ NetworkChanges

\* No fairness: nothing schedules update_connectivity_status (Beat starts another
\* task, which sets no flag).
Spec == Init /\ [][Next]_vars

-----------------------------------------------------------------------------
TypeOK ==
    /\ network \in BOOLEAN /\ flag \in {"true", "false", NoFlag}
    /\ pc \in [Watchers -> {"idle", "pinging", "setting", "auditing"}]
    /\ previous \in [Watchers -> BOOLEAN] /\ current \in [Watchers -> BOOLEAN]
    /\ status \in [Messages -> {"pending", "sent", "unknown_delivery"}]
    /\ changes \in 0..MaxChanges

\* The flag is never older than every answer: while no watcher is about to write,
\* it says what some watcher's last ping said, although a watcher that finds a
\* change fails at its audit event, and one that pinged before the change may
\* write after one that pinged later.  Once all have pinged since, it is right.
FlagIsAnAnswer ==
    flag # NoFlag /\ (\A w \in Watchers : pc[w] # "setting") =>
        \E w \in Watchers : current[w] = (flag = "true")
=============================================================================
