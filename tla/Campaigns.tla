----------------------------- MODULE Campaigns ------------------------------
(***************************************************************************)
(* Promotional campaigns: the hourly task of workers/campaigns.py, which   *)
(* runs _async_process_campaign for each campaign that is due, in a        *)
(* session of its own, and the tasks and staff that change a campaign's    *)
(* status meanwhile.  Every such session raises before its commit: on the  *)
(* insert of a non-empty list (domain/dispatch_service.py), or else on the *)
(* audit event.                                                            *)
(***************************************************************************)
EXTENDS Integers, FiniteSets

CONSTANTS Campaigns, Members, Workers,
          NoCampaign,
          max_per_customer_per_week,
          MaxOrders      \* bound: changes made by staff

CampaignsAssumption ==
    NoCampaign \notin Campaigns /\ max_per_customer_per_week \in Nat /\ MaxOrders \in Nat

CampaignStatus == {"draft", "scheduled", "running", "paused", "completed", "cancelled"}

VARIABLES
    status,     \* [Campaigns -> CampaignStatus]
    arrived,    \* campaigns with schedule_start <= now
    opt_in,     \* members whose contact has opted in
    promos,     \* PROMO rows of the business in the last week
    pc,         \* [Workers -> label]
    todo,       \* [Workers -> campaigns still to process]
    cur,        \* [Workers -> campaign]
    loaded,     \* [Workers -> status of cur, as loaded]
    candidates, \* [Workers -> members to send to]
    tried,      \* campaigns whose candidates have been built
    finished,   \* campaigns a complete_campaign task has ended for
    orders

vars == <<status, arrived, opt_in, promos, pc, todo, cur, loaded, candidates, tried, finished, orders>>
session == <<pc, todo, cur, loaded, candidates>>

Init ==
    /\ status = [c \in Campaigns |-> "draft"] /\ arrived = {} /\ promos = 0
    /\ opt_in \in SUBSET Members
    /\ pc = [w \in Workers |-> "idle"] /\ todo = [w \in Workers |-> {}]
    /\ cur = [w \in Workers |-> NoCampaign]
    /\ loaded = [w \in Workers |-> "draft"] /\ candidates = [w \in Workers |-> {}]
    /\ tried = {} /\ finished = {} /\ orders = 0

Goto(w, label) == pc' = [pc EXCEPT ![w] = label]

-----------------------------------------------------------------------------
\* process_scheduled_campaigns: the list is read once.
FindScheduled(w) ==
    /\ pc[w] = "idle"
    /\ todo' = [todo EXCEPT ![w] = {c \in arrived : status[c] = "scheduled"}]
    /\ Goto(w, "listed")
    /\ UNCHANGED <<status, arrived, opt_in, promos, cur, loaded, candidates, tried, finished, orders>>

LoadCampaign(w, c) ==
    /\ pc[w] = "listed" /\ c \in todo[w]
    /\ todo' = [todo EXCEPT ![w] = @ \ {c}]
    /\ cur' = [cur EXCEPT ![w] = c] /\ loaded' = [loaded EXCEPT ![w] = status[c]]
    /\ Goto(w, IF status[c] \in {"scheduled", "running"} THEN "building" ELSE "listed")
    /\ UNCHANGED <<status, arrived, opt_in, promos, candidates, tried, finished, orders>>

\* enforce_frequency_cap counts the rows of the business.
MaySend == promos < max_per_customer_per_week

\* build_campaign_candidates, whose flush sets RUNNING in this session.
BuildCandidates(w) ==
    /\ pc[w] = "building"
    /\ candidates' = [candidates EXCEPT ![w] = {m \in opt_in : MaySend}]
    /\ tried' = tried \cup {cur[w]}
    /\ Goto(w, "inserting")
    /\ UNCHANGED <<status, arrived, opt_in, promos, todo, cur, loaded, finished, orders>>

\* The exception rolls the session back, RUNNING with it: nothing else keeps it from
\* overwriting a pause or a cancellation that came after the load.
RolledBack(w) == status

\* Fault: the exception is not caught in the loop.
LeftUndone(w) == {}

\* "except ...: continue".
LeftToDo(w) == todo[w]

\* The insert of some candidates, or the audit event, raises.
ProcessRaises(w) ==
    /\ pc[w] = "inserting"
    /\ status' = RolledBack(w)
    /\ todo' = [todo EXCEPT ![w] = LeftToDo(w)]
    /\ candidates' = [candidates EXCEPT ![w] = {}]
    /\ Goto(w, "listed")
    /\ UNCHANGED <<arrived, opt_in, promos, cur, loaded, tried, finished, orders>>

EndScheduled(w) ==
    /\ pc[w] = "listed" /\ todo[w] = {}
    /\ Goto(w, "idle")
    /\ UNCHANGED <<status, arrived, opt_in, promos, todo, cur, loaded, candidates, tried, finished, orders>>

\* complete_campaign: COMPLETED is flushed, then the audit event raises.
CompleteCampaign(c) ==
    /\ c \notin finished
    /\ finished' = finished \cup {c}
    /\ UNCHANGED <<status, arrived, opt_in, promos, session, tried, orders>>

\* Staff edits the row.
Order(c, s) ==
    /\ orders < MaxOrders /\ status[c] # s
    /\ orders' = orders + 1
    /\ status' = [status EXCEPT ![c] = s]
    /\ UNCHANGED <<arrived, opt_in, promos, session, tried, finished>>

StartArrives(c) ==
    /\ c \notin arrived
    /\ arrived' = arrived \cup {c}
    /\ UNCHANGED <<status, opt_in, promos, session, tried, finished, orders>>

ProcessScheduled(w) ==
    \/ FindScheduled(w) \/ BuildCandidates(w) \/ ProcessRaises(w) \/ EndScheduled(w)
    \/ \E c \in Campaigns : LoadCampaign(w, c)

Next ==
    \/ \E w \in Workers : ProcessScheduled(w)
    \/ \E c \in Campaigns : \/ StartArrives(c) \/ CompleteCampaign(c)
                            \/ \E s \in {"scheduled", "paused", "cancelled"} : Order(c, s)

Spec == Init /\ [][Next]_vars

\* The hourly task is started again and again, and runs to its end.
LiveSpec == Spec /\ \A w \in Workers : WF_vars(ProcessScheduled(w))

-----------------------------------------------------------------------------
TypeOK ==
    /\ status \in [Campaigns -> CampaignStatus] /\ arrived \subseteq Campaigns
    /\ opt_in \subseteq Members /\ promos = 0
    /\ pc \in [Workers -> {"idle", "listed", "building", "inserting"}]
    /\ todo \in [Workers -> SUBSET Campaigns] /\ cur \in [Workers -> Campaigns \cup {NoCampaign}]
    /\ loaded \in [Workers -> CampaignStatus] /\ candidates \in [Workers -> SUBSET Members]
    /\ tried \subseteq Campaigns /\ finished \subseteq Campaigns /\ orders \in 0..MaxOrders
    /\ \A w \in Workers : candidates[w] # {} => pc[w] = "inserting"

\* One campaign that raises does not keep the hourly task from the others.
EveryDueCampaignTried == \A c \in Campaigns :
    (c \in arrived /\ status[c] = "scheduled") ~> (c \in tried \/ status[c] # "scheduled")
=============================================================================
