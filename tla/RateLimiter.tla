---------------------------- MODULE RateLimiter -----------------------------
(***************************************************************************)
(* infra/rate_limiter.py: one key ratelimit:<key> and the requests of its  *)
(* client.  INCR, EXPIRE and TTL are separate commands; a process may die  *)
(* between them.                                                           *)
(***************************************************************************)
EXTENDS Integers, FiniteSetsExt

CONSTANTS Requests,      \* processes that serve this client
          limit, window_seconds,
          NoTtl,         \* the key does not exist, or has no TTL
          MaxDeaths      \* bound: requests that die on the way

LimiterAssumption ==
    /\ limit \in Nat \ {0} /\ window_seconds \in Nat \ {0}
    /\ NoTtl \notin Nat /\ MaxDeaths \in Nat

VARIABLES
    count,     \* the counter, 0 while the key does not exist
    ttl,       \* its TTL
    pc,        \* [Requests -> label]
    admitted,  \* [0..window_seconds - 1 -> Nat]: INCRs within the limit, by age
    deaths

vars == <<count, ttl, pc, admitted, deaths>>

Init ==
    /\ count = 0 /\ ttl = NoTtl
    /\ pc = [q \in Requests |-> "idle"]
    /\ admitted = [a \in 0..(window_seconds - 1) |-> 0]
    /\ deaths = 0

Goto(q, label) == pc' = [pc EXCEPT ![q] = label]

-----------------------------------------------------------------------------
\* Fault: one request too many.
OverLimitByOne(n) == n > limit + 1

OverLimit(n) == n > limit

\* Fault: the counter never gets a TTL.
ExpiresNever(n) == FALSE

\* Only the first request of a window sets the TTL.
Expires(n) == n = 1

\* The counter, with the numbers above limit + 1 taken as one.
Incremented == IF count > limit THEN count ELSE count + 1

Incr(q) ==
    /\ pc[q] = "idle"
    /\ count' = Incremented
    /\ admitted' = IF OverLimit(count') THEN admitted ELSE [admitted EXCEPT ![0] = @ + 1]
    /\ Goto(q, IF Expires(count') THEN "expire" ELSE IF OverLimit(count') THEN "over" ELSE "admit")
    /\ UNCHANGED <<ttl, deaths>>

\* The TTL starts here, however long after the INCR.  The request counted 1,
\* which is within any limit.
Expire(q) ==
    /\ pc[q] = "expire"
    /\ ttl' = IF count > 0 THEN window_seconds ELSE ttl
    /\ Goto(q, "admit")
    /\ UNCHANGED <<count, admitted, deaths>>

\* The request is served, or answered 429.  Retry-After is read from the TTL
\* and changes nothing.
Answer(q) ==
    /\ pc[q] \in {"admit", "over"}
    /\ Goto(q, "idle")
    /\ UNCHANGED <<count, ttl, admitted, deaths>>

RequestStep(q) == Incr(q) \/ Expire(q) \/ Answer(q)

Die(q) ==
    /\ pc[q] # "idle" /\ deaths < MaxDeaths
    /\ deaths' = deaths + 1
    /\ Goto(q, "idle")
    /\ UNCHANGED <<count, ttl, admitted>>

\* A second passes; Redis drops the key at the end of its TTL.
Tick ==
    /\ admitted' = [a \in DOMAIN admitted |-> IF a = 0 THEN 0 ELSE admitted[a - 1]]
    /\ ttl' = IF ttl \in {NoTtl, 1} THEN NoTtl ELSE ttl - 1
    /\ count' = IF ttl = 1 THEN 0 ELSE count
    /\ UNCHANGED <<pc, deaths>>

Next == (\E q \in Requests : RequestStep(q) \/ Die(q)) \/ Tick

Spec == Init /\ [][Next]_vars

\* Requests keep coming, every command is answered, and time passes.
LiveSpec == Spec /\ WF_vars(Tick) /\ \A q \in Requests : WF_vars(RequestStep(q))

-----------------------------------------------------------------------------
TypeOK ==
    /\ count \in 0..(limit + 1)
    /\ ttl \in 1..window_seconds \cup {NoTtl}
    /\ pc \in [Requests -> {"idle", "expire", "over", "admit"}]
    /\ admitted \in [0..(window_seconds - 1) -> 0..limit]
    /\ deaths \in 0..MaxDeaths

Burst == MapThenSumSet(LAMBDA a : admitted[a], DOMAIN admitted)

\* The fixed window lets through at most twice the limit in any stretch of
\* window_seconds, however the requests of several processes interleave, however
\* late an EXPIRE comes and whichever process dies.
BurstBound == Burst <= 2 * limit

\* While no process dies between INCR and EXPIRE, a client that goes on asking
\* is let through again and again.
LetInAgain == []<>(\E q \in Requests : pc[q] = "admit")
=============================================================================
