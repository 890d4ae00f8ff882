---------------------------- MODULE PolicyCache -----------------------------
(***************************************************************************)
(* domain/policy_service.py: the policy of one business, in the database   *)
(* and in Redis.  load_policy asks the cache, then the database, then      *)
(* fills the cache: three steps of each reader.  save_policy commits and   *)
(* then builds AuditContext(business_id = ...), a field that class does    *)
(* not have: it raises before the cache key is deleted.                    *)
(***************************************************************************)
EXTENDS Integers

CONSTANTS Readers,    \* tasks that load the policy
          Nil,        \* no cached policy
          Ttl,        \* steps of time a cached policy lives (300 s)
          MaxSaves,   \* bound: saves
          MaxRedisErrors \* bound: Redis commands that fail

PolicyAssumption ==
    Ttl \in Nat \ {0} /\ MaxSaves \in Nat /\ MaxRedisErrors \in Nat /\ Nil \notin Nat

VARIABLES
    policy,    \* businesses.reminder_policy, as the number of the save
    cache,     \* business:<id>:policy, a policy or Nil
    ttl,       \* its TTL, 0 without a key
    pc,        \* [Readers -> label]
    got,       \* [Readers -> policy]: what the reader loaded last
    logged,    \* policy.changed events in audit_events
    errors

vars == <<policy, cache, ttl, pc, got, logged, errors>>

Init ==
    /\ policy = 0 /\ cache = Nil /\ ttl = 0
    /\ pc = [r \in Readers |-> "idle"] /\ got = [r \in Readers |-> 0]
    /\ logged = 0 /\ errors = 0

Goto(r, label) == pc' = [pc EXCEPT ![r] = label]

\* A Redis command raises; load_policy goes on as if nothing were cached.
RedisFails == errors < MaxRedisErrors /\ errors' = errors + 1

-----------------------------------------------------------------------------
CacheHit(r) ==
    /\ pc[r] = "idle" /\ cache # Nil
    /\ got' = [got EXCEPT ![r] = cache]
    /\ UNCHANGED <<policy, cache, ttl, pc, logged, errors>>

CacheMiss(r) ==
    /\ pc[r] = "idle"
    /\ (cache = Nil /\ UNCHANGED errors) \/ RedisFails
    /\ Goto(r, "query")
    /\ UNCHANGED <<policy, cache, ttl, got, logged>>

QueryBusiness(r) ==
    /\ pc[r] = "query"
    /\ got' = [got EXCEPT ![r] = policy]
    /\ Goto(r, "fill")
    /\ UNCHANGED <<policy, cache, ttl, logged, errors>>

\* Fault: SET without EX.
FillTtlForever == 0

FillTtl == Ttl

FillCache(r) ==
    /\ pc[r] = "fill"
    /\ \/ cache' = got[r] /\ ttl' = FillTtl /\ UNCHANGED errors
       \/ RedisFails /\ UNCHANGED <<cache, ttl>>
    /\ Goto(r, "idle")
    /\ UNCHANGED <<policy, got, logged>>

\* The commit, and the exception after it.
SavePolicy ==
    /\ policy < MaxSaves
    /\ policy' = policy + 1
    /\ UNCHANGED <<cache, ttl, pc, got, logged, errors>>

Tick ==
    /\ ttl > 0
    /\ ttl' = ttl - 1
    /\ cache' = IF ttl = 1 THEN Nil ELSE cache
    /\ UNCHANGED <<policy, pc, got, logged, errors>>

LoadPolicy(r) == CacheHit(r) \/ CacheMiss(r) \/ QueryBusiness(r) \/ FillCache(r)

Next == (\E r \in Readers : LoadPolicy(r)) \/ SavePolicy \/ Tick

Spec == Init /\ [][Next]_vars

\* Time passes and a load that began ends; nobody has to save.
LiveSpec == Spec /\ WF_vars(Tick) /\ \A r \in Readers : WF_vars(LoadPolicy(r))

-----------------------------------------------------------------------------
TypeOK ==
    /\ policy \in 0..MaxSaves
    /\ cache \in 0..MaxSaves \cup {Nil} /\ ttl \in 0..Ttl
    /\ pc \in [Readers -> {"idle", "query", "fill"}]
    /\ got \in [Readers -> 0..MaxSaves]
    /\ logged \in 0..MaxSaves /\ errors \in 0..MaxRedisErrors
    /\ (cache = Nil) <=> (ttl = 0)

\* Nothing invalidates the cache, and a slow reader may fill it with a policy
\* older than the one it replaces; still every save reaches every reader in the
\* end, because every fill carries a TTL and no hit renews it.
PolicyConverges == \A n \in 1..MaxSaves :
    (policy = n) ~> (policy > n \/ \A r \in Readers : got[r] = n)
=============================================================================
