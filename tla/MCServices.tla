----------------------------- MODULE MCServices -----------------------------
(***************************************************************************)
(* The services behind the workers, for TLC: circuit breaker, rate         *)
(* limiter, policy cache, connectivity flag, quiet hours and credit terms. *)
(* They share no state, so nothing one of them does matters to another: a  *)
(* behaviour is one of the part that works, and the others stand still.    *)
(* The state spaces add up instead of multiplying.                         *)
(***************************************************************************)
EXTENDS CircuitBreaker

CONSTANTS Requests, Readers, Watchers, Messages, TermsRequests, Staff,
          limit, window_seconds,          \* of the rate limiter
          Ttl, MaxSaves, MaxRedisErrors,  \* of the policy cache
          MaxChanges,                     \* of the network
          PerHour, utcoffset, Starts, Ends,
          SLA_HOURS,
          None,     \* a key, value or row that does not exist
          Parts     \* the parts that may work

VARIABLES
    part,
    count, ttl, limiter_pc, admitted, limiter_deaths,
    policy, cache, cache_ttl, cache_pc, got, logged, errors,
    network, flag, watcher_pc, previous, current, status, changes,
    start, end, now, polled, message, sentAt,
    request, sla_age, cur, seen

Limiter == INSTANCE RateLimiter WITH
    NoTtl <- None, pc <- limiter_pc, deaths <- limiter_deaths

Policy == INSTANCE PolicyCache WITH
    Nil <- None, ttl <- cache_ttl, pc <- cache_pc

Network == INSTANCE Connectivity WITH
    NoFlag <- None, pc <- watcher_pc

Quiet == INSTANCE QuietHours WITH status <- message

Terms == INSTANCE CreditTerms WITH
    NoRequest <- None, Requests <- TermsRequests, age <- sla_age

ASSUME ServicesAssumption ==
    /\ Limiter!LimiterAssumption /\ Policy!PolicyAssumption
    /\ Network!ConnectivityAssumption /\ Quiet!QuietHoursAssumption
    /\ Terms!CreditTermsAssumption

AllParts == {"breaker", "limiter", "limiter, no death", "policy", "network", "quiet hours",
             "terms"}

limiterVars == <<count, ttl, limiter_pc, admitted, limiter_deaths>>
policyVars == <<policy, cache, cache_ttl, cache_pc, got, logged, errors>>
networkVars == <<network, flag, watcher_pc, previous, current, status, changes>>
quietVars == <<start, end, now, polled, message, sentAt>>
termsVars == <<request, sla_age, cur, seen>>
allVars == <<part, vars, limiterVars, policyVars, networkVars, quietVars, termsVars>>

\* A part that stands still does so in one state.
Still == <<start, end, now>> = <<20, 7, 0>>

ServicesInit ==
    /\ part \in Parts
    /\ Init /\ Limiter!Init /\ Policy!Init /\ Network!Init
    /\ Quiet!Init /\ (part = "quiet hours" \/ Still)
    /\ Terms!Init

-----------------------------------------------------------------------------
Breaker ==
    /\ part = "breaker" /\ Next
    /\ UNCHANGED <<part, limiterVars, policyVars, networkVars, quietVars, termsVars>>

LimiterNoDeath == (\E q \in Requests : Limiter!RequestStep(q)) \/ Limiter!Tick

RateLimiter ==
    /\ \/ part = "limiter" /\ Limiter!Next
       \/ part = "limiter, no death" /\ LimiterNoDeath
    /\ UNCHANGED <<part, vars, policyVars, networkVars, quietVars, termsVars>>

PolicyService ==
    /\ part = "policy" /\ Policy!Next
    /\ UNCHANGED <<part, vars, limiterVars, networkVars, quietVars, termsVars>>

ConnectivityWatcher ==
    /\ part = "network" /\ Network!Next
    /\ UNCHANGED <<part, vars, limiterVars, policyVars, quietVars, termsVars>>

QuietHoursGate ==
    /\ part = "quiet hours" /\ Quiet!Next
    /\ UNCHANGED <<part, vars, limiterVars, policyVars, networkVars, termsVars>>

CreditTermsService ==
    /\ part = "terms" /\ Terms!Next
    /\ UNCHANGED <<part, vars, limiterVars, policyVars, networkVars, quietVars>>

ServicesNext ==
    \/ Breaker \/ RateLimiter \/ PolicyService
    \/ ConnectivityWatcher \/ QuietHoursGate \/ CreditTermsService

ServicesSpec == ServicesInit /\ [][ServicesNext]_allVars

\* The fairness of the modules, of the part that works.
LimiterWorks == part = "limiter, no death"

ServicesLiveSpec ==
    /\ ServicesSpec
    /\ WF_vars(part = "breaker" /\ Tick)
    /\ \A c \in Callers : WF_vars(part = "breaker" /\ CallerStep(c))
    /\ WF_limiterVars(LimiterWorks /\ Limiter!Tick)
    /\ \A q \in Requests : WF_limiterVars(LimiterWorks /\ Limiter!RequestStep(q))
    /\ WF_policyVars(part = "policy" /\ Policy!Tick)
    /\ \A r \in Readers : WF_policyVars(part = "policy" /\ Policy!LoadPolicy(r))
    /\ WF_quietVars(part = "quiet hours" /\ Quiet!PollAndSend)
    /\ WF_quietVars(part = "quiet hours" /\ Quiet!Tick)

-----------------------------------------------------------------------------
(* The properties of the modules, where they state and explain them.       *)

\* Redis keys, cached policies, flags, clocks, requests and the copies others hold of
\* them have their types, in every service.
ServicesTypeOK ==
    /\ TypeOK /\ Limiter!TypeOK /\ Policy!TypeOK /\ Network!TypeOK /\ Quiet!TypeOK
    /\ Terms!TypeOK

\* At most twice the limit in any stretch of window_seconds.
BurstBound == Limiter!BurstBound

\* Without deaths a client that goes on asking is let through again and again.
LetInAgain == LimiterWorks => Limiter!LetInAgain

\* Every save reaches every reader in the end.
PolicyConverges == Policy!PolicyConverges

\* The connectivity flag is some watcher's last answer.
FlagIsAnAnswer == Network!FlagIsAnAnswer

\* A deferred message waits for the first moment it may be sent.
NextAllowedIsFirst == Quiet!NextAllowedIsFirst

\* Quiet hours that begin and end do not hold a message for ever.
NightEnds == part = "quiet hours" => Quiet!NightEnds

\* An overdue request is listed until it is decided.
OverdueUntilDecided == Terms!OverdueUntilDecided
=============================================================================
