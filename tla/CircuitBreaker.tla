--------------------------- MODULE CircuitBreaker ---------------------------
(***************************************************************************)
(* infra/circuit_breaker.py: one circuit, its three Redis keys and the     *)
(* callers of can_execute, record_success and record_failure.  Each await  *)
(* on Redis is a step; a pipeline is one MULTI/EXEC step.  The breaker has *)
(* no caller in the repository: a caller here follows its usage example.   *)
(* Time is what can_execute makes of it, the age of opened_at.             *)
(***************************************************************************)
EXTENDS Integers, FiniteSets

CONSTANTS Callers,
          failure_threshold, cooldown_seconds,
          NoKey,         \* a Redis key that does not exist
          MaxDeaths      \* bound: callers that die on the way

ASSUME BreakerAssumption ==
    /\ failure_threshold \in Nat \ {0} /\ cooldown_seconds \in Nat \ {0}
    /\ MaxDeaths \in Nat /\ NoKey \notin Nat \cup {"closed", "open", "half_open"}

VARIABLES
    state,      \* circuit:<key>:state
    failures,   \* circuit:<key>:failures, counted up to the threshold
    age,        \* now - circuit:<key>:opened_at, counted up to the cooldown
    pc,         \* [Callers -> label]
    up,         \* does the API answer?
    deaths

vars == <<state, failures, age, pc, up, deaths>>

CircuitState == {"closed", "open", "half_open"}

\* No state key: the circuit never tripped.
State == IF state = NoKey THEN "closed" ELSE state

Init ==
    /\ state = NoKey /\ failures = 0 /\ age = NoKey
    /\ pc = [c \in Callers |-> "idle"]
    /\ up = TRUE /\ deaths = 0

Goto(c, label) == pc' = [pc EXCEPT ![c] = label]

-----------------------------------------------------------------------------
\* Fault: HALF_OPEN rejects everyone, the test request is the one that made it.
AdmitsNoOther == state \in {NoKey, "closed"}

\* can_execute turns only OPEN away.
Admits == state # "open"

GetState(c) ==
    /\ pc[c] = "idle"
    /\ Goto(c, CASE Admits /\ state # "half_open" -> "calling"
                 [] Admits /\ state = "half_open" -> "testing"
                 [] state = "open" -> "open"
                 [] OTHER -> "idle")
    /\ UNCHANGED <<state, failures, age, up, deaths>>

\* A missing opened_at counts as expired.
CooldownElapsed == age = NoKey \/ age = cooldown_seconds

GetOpenedAt(c) ==
    /\ pc[c] = "open"
    /\ Goto(c, IF CooldownElapsed THEN "half_opening" ELSE "idle")
    /\ UNCHANGED <<state, failures, age, up, deaths>>

\* _transition(HALF_OPEN), then the call.
Transition(c) ==
    /\ pc[c] = "half_opening"
    /\ state' = "half_open"
    /\ Goto(c, "testing")
    /\ UNCHANGED <<failures, age, up, deaths>>

\* The API call.
Call(c) ==
    /\ pc[c] \in {"calling", "testing"}
    /\ Goto(c, IF up THEN "success" ELSE "failure")
    /\ UNCHANGED <<state, failures, age, up, deaths>>

RecordSuccess(c) ==
    /\ pc[c] = "success"
    /\ state' = "closed" /\ failures' = 0 /\ age' = NoKey
    /\ Goto(c, "idle")
    /\ UNCHANGED <<up, deaths>>

\* Fault: only a failure in CLOSED matters.
RecordFailureWhenClosed(c) ==
    /\ pc[c] = "failure"
    /\ Goto(c, IF State = "closed" THEN "counting" ELSE "idle")
    /\ UNCHANGED <<state, failures, age, up, deaths>>

\* record_failure: the state, then the count, then the circuit.
RecordFailure(c) ==
    /\ pc[c] = "failure"
    /\ Goto(c, IF state = "half_open" THEN "opening" ELSE "counting")
    /\ UNCHANGED <<state, failures, age, up, deaths>>

\* INCR, with the numbers above the threshold taken as one.
Counted(n) == IF n < failure_threshold THEN n + 1 ELSE failure_threshold

IncrFailures(c) ==
    /\ pc[c] = "counting"
    /\ failures' = Counted(failures)
    /\ Goto(c, IF failures' >= failure_threshold THEN "opening" ELSE "idle")
    /\ UNCHANGED <<state, age, up, deaths>>

\* _open_circuit.
OpenCircuit(c) ==
    /\ pc[c] = "opening"
    /\ state' = "open" /\ age' = 0
    /\ Goto(c, "idle")
    /\ UNCHANGED <<failures, up, deaths>>

CallerStep(c) ==
    \/ GetState(c) \/ GetOpenedAt(c) \/ Transition(c) \/ Call(c)
    \/ RecordSuccess(c) \/ RecordFailure(c) \/ IncrFailures(c) \/ OpenCircuit(c)

\* The process dies: what it was about to record is not recorded.
Die(c) ==
    /\ pc[c] # "idle" /\ deaths < MaxDeaths
    /\ deaths' = deaths + 1
    /\ Goto(c, "idle")
    /\ UNCHANGED <<state, failures, age, up>>

Tick ==
    /\ age # NoKey /\ age < cooldown_seconds
    /\ age' = age + 1
    /\ UNCHANGED <<state, failures, pc, up, deaths>>

Outage ==
    /\ up' = ~up
    /\ UNCHANGED <<state, failures, age, pc, deaths>>

Next ==
    \/ \E c \in Callers : CallerStep(c) \/ Die(c)
    \/ Tick \/ Outage

Spec == Init /\ [][Next]_vars

\* Work goes on arriving, every call ends, and so does the cooldown.
LiveSpec == Spec /\ WF_vars(Tick) /\ \A c \in Callers : WF_vars(CallerStep(c))

-----------------------------------------------------------------------------
TypeOK ==
    /\ state \in CircuitState \cup {NoKey}
    /\ failures \in 0..failure_threshold
    /\ age \in 0..cooldown_seconds \cup {NoKey}
    /\ pc \in [Callers -> {"idle", "open", "half_opening", "calling", "testing", "success",
                           "failure", "counting", "opening"}]
    /\ up \in BOOLEAN /\ deaths \in 0..MaxDeaths

\* While the API stays down, the circuit is open again and again: neither a late
\* success, nor the test requests let through after each cooldown, nor a caller
\* that dies with its failure untold leaves it closed or half open for good.
TripsAgain == []<>up \/ []<>(state = "open")

\* Once the API stays up, the circuit closes and stays closed, whatever late
\* failures and dead test requests are still on their way.
Recovers == []<>~up \/ <>[](State = "closed")

=============================================================================
