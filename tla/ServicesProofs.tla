--------------------------- MODULE ServicesProofs ---------------------------
(***************************************************************************)
(* Proofs about the services of MCServices, for any requests, readers,     *)
(* watchers, staff, limits, windows, TTLs and hours: the types, with what  *)
(* a window of the rate limiter may have let in; the moment quiet hours    *)
(* defer a message to; and the list of overdue credit terms requests.      *)
(***************************************************************************)
EXTENDS MCServices, SumProofs

-----------------------------------------------------------------------------
(* The circuit breaker.                                                    *)

LEMMA InitTypeOK == Init => TypeOK
  <1> SUFFICES ASSUME Init PROVE TypeOK
    OBVIOUS
  <1> QED
    BY BreakerAssumption DEF Init, TypeOK, CircuitState

\* Every command of a caller, a death, a tick and an outage keep the types.
LEMMA TypeStep == TypeOK /\ [Next]_vars => TypeOK'
  <1> SUFFICES ASSUME TypeOK, [Next]_vars PROVE TypeOK'
    OBVIOUS
  <1> USE BreakerAssumption DEF TypeOK, CircuitState, Goto
  <1>1. ASSUME NEW c \in Callers, GetState(c) PROVE TypeOK'
    BY <1>1 DEF GetState, Admits
  <1>2. ASSUME NEW c \in Callers, GetOpenedAt(c) PROVE TypeOK'
    BY <1>2 DEF GetOpenedAt
  <1>3. ASSUME NEW c \in Callers, Transition(c) PROVE TypeOK'
    BY <1>3 DEF Transition
  <1>4. ASSUME NEW c \in Callers, Call(c) PROVE TypeOK'
    BY <1>4 DEF Call
  <1>5. ASSUME NEW c \in Callers, RecordSuccess(c) PROVE TypeOK'
    BY <1>5 DEF RecordSuccess
  <1>6. ASSUME NEW c \in Callers, RecordFailure(c) PROVE TypeOK'
    BY <1>6 DEF RecordFailure
  <1>7. ASSUME NEW c \in Callers, IncrFailures(c) PROVE TypeOK'
    BY <1>7 DEF IncrFailures, Counted
  <1>8. ASSUME NEW c \in Callers, OpenCircuit(c) PROVE TypeOK'
    BY <1>8 DEF OpenCircuit
  <1>9. ASSUME NEW c \in Callers, Die(c) PROVE TypeOK'
    BY <1>9 DEF Die
  <1>10. CASE Tick
    BY <1>10 DEF Tick
  <1>11. CASE Outage
    BY <1>11 DEF Outage
  <1>12. CASE UNCHANGED vars
    BY <1>12 DEF vars
  <1> QED
    BY <1>1, <1>2, <1>3, <1>4, <1>5, <1>6, <1>7, <1>8, <1>9, <1>10, <1>11, <1>12
    DEF Next, CallerStep

\* Type correctness: the three Redis keys and the callers' control points.
THEOREM TypeCorrect == Spec => []TypeOK
  <1>1. Init => TypeOK
    BY InitTypeOK
  <1>2. TypeOK /\ [Next]_vars => TypeOK'
    BY TypeStep
  <1> QED
    BY <1>1, <1>2, PTL DEF Spec

-----------------------------------------------------------------------------
(* Division and remainder.                                                 *)

\* Quotient and remainder make up the number again.
LEMMA Division ==
    ASSUME NEW a \in Int, NEW d \in Nat \ {0}
    PROVE  /\ a % d \in 0..(d - 1) /\ a \div d \in Int
           /\ a = d * (a \div d) + (a % d)
  <1> DEFINE q == a \div d
             r == a % d
  <1>1. q \in Int /\ r \in 0..(d - 1)
    OBVIOUS
  <1>2. a = d * q + r
    OBVIOUS
  <1> QED
    BY <1>1, <1>2

\* And they are what they make it up of.
LEMMA Remainder ==
    ASSUME NEW d \in Nat \ {0}, NEW q \in Int, NEW r \in 0..(d - 1)
    PROVE  (d * q + r) % d = r
  OBVIOUS

\* A quotient reaches h when the number reaches h divisors.
LEMMA QuotientBound ==
    ASSUME NEW a \in Int, NEW d \in Nat \ {0}, NEW h \in Int
    PROVE  a \div d >= h <=> a >= d * h
  OBVIOUS

\* A clock that shows m shows m + k after k, and the rest when it passes d.
LEMMA ClockAfter ==
    ASSUME NEW a \in Int, NEW d \in Nat \ {0}, NEW k \in Nat
    PROVE  /\ (a % d) + k < d => (a + k) % d = (a % d) + k
           /\ d <= (a % d) + k /\ (a % d) + k < 2 * d => (a + k) % d = (a % d) + k - d
  <1>1. PICK q \in Int, m \in 0..(d - 1) : a = d * q + m /\ a % d = m
    BY Division
  <1>2. ASSUME m + k < d PROVE (a + k) % d = m + k
    <2>1. m + k \in 0..(d - 1) /\ a + k = d * q + (m + k)
      BY <1>1, <1>2
    <2> QED
      BY <2>1, Remainder
  <1>3. ASSUME d <= m + k, m + k < 2 * d PROVE (a + k) % d = m + k - d
    <2>1. m + k - d \in 0..(d - 1) /\ q + 1 \in Int
      BY <1>3
    <2>2. d * (q + 1) = d * q + d
      OBVIOUS
    <2>3. a + k = d * (q + 1) + (m + k - d)
      BY <1>1, <2>1, <2>2
    <2> QED
      BY <2>1, <2>3, Remainder
  <1> QED
    BY <1>1, <1>2, <1>3

-----------------------------------------------------------------------------
(* Quiet hours.                                                            *)

\* The slot of the local day, and the slots at which the quiet hours begin and end.
LocalSlot(t) == (t + utcoffset * PerHour) % Quiet!Day
FirstSlot == PerHour * start
EndSlot == PerHour * end

\* The numbers that the quiet hours are made of.
LEMMA QuietNumbers ==
    ASSUME Quiet!TypeOK
    PROVE  /\ PerHour \in Nat \ {0} /\ utcoffset * PerHour \in Nat
           /\ Quiet!Day = 24 * PerHour /\ Quiet!Day \in Nat \ {0}
           /\ now \in Nat /\ now < Quiet!Day
           /\ start \in 0..23 /\ end \in 0..23
           /\ FirstSlot \in 0..(Quiet!Day - 1) /\ EndSlot \in 0..(Quiet!Day - 1)
           /\ start = end <=> FirstSlot = EndSlot
           /\ start > end <=> FirstSlot > EndSlot
  <1>1. /\ PerHour \in Nat \ {0} /\ utcoffset \in 0..23
        /\ start \in 0..23 /\ end \in 0..23 /\ Quiet!Day = 24 * PerHour
    BY ServicesAssumption DEF Quiet!QuietHoursAssumption, Quiet!TypeOK, Quiet!Day
  <1>2. now \in 0..(24 * PerHour - 1)
    BY <1>1 DEF Quiet!TypeOK, Quiet!Slots
  <1>3. \A x \in 0..23 : PerHour * x \in 0..(24 * PerHour - 1)
    BY <1>1
  <1>4. \A x, y \in 0..23 : x > y <=> PerHour * x > PerHour * y
    BY <1>1
  <1>5. utcoffset * PerHour \in Nat
    BY <1>1
  <1> QED
    BY <1>1, <1>2, <1>3, <1>4, <1>5 DEF FirstSlot, EndSlot

\* A slot of the local day within the quiet hours.
QuietAt(slot) ==
    /\ FirstSlot # EndSlot
    /\ FirstSlot > EndSlot => FirstSlot <= slot \/ slot < EndSlot
    /\ FirstSlot < EndSlot => FirstSlot <= slot /\ slot < EndSlot

\* The quiet hours in slots of the local day.
LEMMA QuietSlots ==
    ASSUME Quiet!TypeOK, NEW t \in Int
    PROVE  /\ LocalSlot(t) \in 0..(Quiet!Day - 1)
           /\ Quiet!IsWithinQuietHours(t) <=> QuietAt(LocalSlot(t))
  <1>0. /\ PerHour \in Nat \ {0} /\ Quiet!Day \in Nat \ {0}
        /\ start \in Int /\ end \in Int
        /\ start = end <=> FirstSlot = EndSlot
        /\ start > end <=> FirstSlot > EndSlot
        /\ FirstSlot \in Int /\ EndSlot \in Int
        /\ t + utcoffset * PerHour \in Int
    BY QuietNumbers
  <1>1. LocalSlot(t) \in 0..(Quiet!Day - 1)
    BY <1>0, Division DEF LocalSlot
  <1>2. Quiet!LocalHour(t) = LocalSlot(t) \div PerHour
    BY DEF Quiet!LocalHour, Quiet!UtcHour, LocalSlot
  <1>3. Quiet!LocalHour(t) \in Int
    BY <1>0, <1>1, <1>2, Division
  <1>4. /\ Quiet!LocalHour(t) >= start <=> LocalSlot(t) >= FirstSlot
        /\ Quiet!LocalHour(t) >= end <=> LocalSlot(t) >= EndSlot
    <2>1. \A h \in Int : Quiet!LocalHour(t) >= h <=> LocalSlot(t) >= PerHour * h
      BY <1>0, <1>1, <1>2, QuotientBound
    <2> QED
      BY <1>0, <2>1 DEF FirstSlot, EndSlot
  <1> QED
    BY <1>0, <1>1, <1>3, <1>4 DEF Quiet!IsWithinQuietHours, QuietAt

\* Where the moment quiet hours defer a message to lies on the local clock.
LEMMA NextSlots ==
    ASSUME Quiet!TypeOK, Quiet!IsWithinQuietHours(now)
    PROVE  LET next == Quiet!NextAllowedSendTime(now)
           IN  /\ EndSlot > LocalSlot(now) => next = now + (EndSlot - LocalSlot(now))
               /\ EndSlot <= LocalSlot(now) =>
                     next = now + (EndSlot - LocalSlot(now)) + Quiet!Day
  <1>1. /\ Quiet!Day \in Nat \ {0} /\ now \in Nat /\ utcoffset * PerHour \in Nat
        /\ EndSlot \in Int /\ EndSlot = end * PerHour
    BY QuietNumbers DEF EndSlot
  <1>2. LocalSlot(now) \in Int
    BY <1>1, QuietSlots
  <1>3. Quiet!NextAllowedSendTime(now)
          = Quiet!NextEnd(now + utcoffset * PerHour) - utcoffset * PerHour
    BY DEF Quiet!NextAllowedSendTime
  <1>4. PICK local \in Int : local = now + utcoffset * PerHour
    BY <1>1
  <1>5. LET today == local - LocalSlot(now) + EndSlot
        IN  Quiet!NextEnd(local) = IF today <= local THEN today + Quiet!Day ELSE today
    BY <1>1, <1>4 DEF Quiet!NextEnd, LocalSlot
  <1> QED
    BY <1>1, <1>2, <1>3, <1>4, <1>5

\* From the quiet hours on, every slot is quiet until they end, and then it is not.
LEMMA QuietUntilTheEnd ==
    ASSUME NEW day \in Nat, FirstSlot \in 0..(day - 1), EndSlot \in 0..(day - 1),
           NEW m \in 0..(day - 1), QuietAt(m),
           NEW k \in Nat, NEW slot \in 0..(day - 1),
           slot = m + k \/ slot = m + k - day,
           EndSlot > m => k < EndSlot - m,
           EndSlot <= m => k < EndSlot - m + day
    PROVE  QuietAt(slot)
  BY DEF QuietAt

\* The slot at which quiet hours end is not one of them.
LEMMA TheEndIsNotQuiet ==
    ASSUME FirstSlot \in Int, EndSlot \in Int PROVE ~QuietAt(EndSlot)
  BY DEF QuietAt

\* What the local clock shows k slots from now, less than a day away.
LEMMA LocalSlotAfter ==
    ASSUME Quiet!TypeOK, NEW k \in Nat
    PROVE  /\ LocalSlot(now) + k < Quiet!Day => LocalSlot(now + k) = LocalSlot(now) + k
           /\ Quiet!Day <= LocalSlot(now) + k /\ LocalSlot(now) + k < 2 * Quiet!Day =>
                 LocalSlot(now + k) = LocalSlot(now) + k - Quiet!Day
  <1>1. Quiet!Day \in Nat \ {0} /\ now \in Nat /\ utcoffset * PerHour \in Nat
    BY QuietNumbers
  <1>2. PICK a \in Int : a = now + utcoffset * PerHour
    BY <1>1
  <1>3. LocalSlot(now) = a % Quiet!Day /\ LocalSlot(now + k) = (a + k) % Quiet!Day
    <2>1. now + k + utcoffset * PerHour = a + k
      BY <1>1, <1>2
    <2> QED
      BY <1>2, <2>1 DEF LocalSlot
  <1>4. PICK d \in Nat \ {0} : d = Quiet!Day
    BY <1>1
  <1>5. /\ (a % d) + k < d => (a + k) % d = (a % d) + k
        /\ d <= (a % d) + k /\ (a % d) + k < 2 * d => (a + k) % d = (a % d) + k - d
    BY ClockAfter
  <1> QED
    BY <1>3, <1>4, <1>5

\* A deferred message waits for the first moment it may be sent.
LEMMA DeferredToTheFirst == Quiet!TypeOK => NextAllowedIsFirst
  <1> SUFFICES ASSUME Quiet!TypeOK PROVE NextAllowedIsFirst
    OBVIOUS
  <1>1. PICK next : next = Quiet!NextAllowedSendTime(now)
    OBVIOUS
  <1>2. SUFFICES /\ next >= now /\ ~Quiet!IsWithinQuietHours(next)
                 /\ \A t \in now..(next - 1) : Quiet!IsWithinQuietHours(t)
    BY <1>1 DEF NextAllowedIsFirst, Quiet!NextAllowedIsFirst
  <1>3. now \in Nat
    BY QuietNumbers
  <1>4. CASE ~Quiet!IsWithinQuietHours(now)
    <2>1. next = now
      BY <1>1, <1>4 DEF Quiet!NextAllowedSendTime
    <2> QED
      BY <1>3, <1>4, <2>1
  <1>5. CASE Quiet!IsWithinQuietHours(now)
    <2>1. PICK day \in Nat \ {0} : day = Quiet!Day
      BY QuietNumbers
    <2>2. PICK m \in 0..(day - 1) : m = LocalSlot(now)
      BY <1>3, <2>1, QuietSlots
    <2>3. FirstSlot \in 0..(day - 1) /\ EndSlot \in 0..(day - 1)
      BY <2>1, <2>2, QuietNumbers
    <2>4. QuietAt(m)
      BY <1>3, <1>5, <2>1, <2>2, QuietSlots
    <2>5. PICK e \in 0..(day - 1) : e = EndSlot
      BY <2>3
    <2>6. PICK wait \in Nat : /\ e > m => wait = e - m
                              /\ e <= m => wait = e - m + day
      <3>1. CASE e > m
        <4>1. e - m \in Nat
          BY <3>1
        <4> QED
          BY <3>1, <4>1
      <3>2. CASE e <= m
        <4>1. e - m + day \in Nat
          BY <3>2
        <4> QED
          BY <3>2, <4>1
      <3> QED
        BY <3>1, <3>2
    <2>7. next = now + wait
      <3>1. /\ e > m => next = now + (e - m)
            /\ e <= m => next = now + (e - m) + day
        BY <1>1, <1>5, <2>1, <2>2, <2>5, NextSlots
      <3> QED
        BY <1>3, <2>1, <2>2, <2>5, <2>6, <3>1
    <2>8. ASSUME NEW k \in Nat
          PROVE  /\ m + k < day => LocalSlot(now + k) = m + k
                 /\ day <= m + k /\ m + k < 2 * day => LocalSlot(now + k) = m + k - day
      BY <2>1, <2>2, LocalSlotAfter
    <2>9. LocalSlot(next) = e
      <3>1. CASE e > m
        BY <1>3, <2>1, <2>2, <2>5, <2>6, <2>7, <2>8, <3>1
      <3>2. CASE e <= m
        BY <1>3, <2>1, <2>2, <2>5, <2>6, <2>7, <2>8, <3>2
      <3> QED
        BY <3>1, <3>2
    <2>10. ~Quiet!IsWithinQuietHours(next)
      BY <1>3, <2>3, <2>5, <2>7, <2>9, QuietSlots, TheEndIsNotQuiet
    <2>11. ASSUME NEW t \in now..(next - 1) PROVE Quiet!IsWithinQuietHours(t)
      <3>1. PICK k \in Nat : t = now + k /\ k < wait
        <4>1. t - now \in Nat /\ t = now + (t - now) /\ t - now < wait
          BY <1>3, <2>7, <2>11
        <4> QED
          BY <4>1
      <3>2. PICK slot \in 0..(day - 1) : slot = LocalSlot(t)
        BY <1>3, <2>1, <3>1, QuietSlots
      <3>3. slot = m + k \/ slot = m + k - day
        <4>1. m + k < 2 * day
          BY <2>1, <2>2, <2>5, <2>6, <3>1
        <4> QED
          BY <2>8, <3>1, <3>2, <4>1
      <3>4. /\ EndSlot > m => k < EndSlot - m
            /\ EndSlot <= m => k < EndSlot - m + day
        BY <2>1, <2>2, <2>5, <2>6, <3>1
      <3>5. QuietAt(slot)
        BY <2>3, <2>4, <3>3, <3>4, QuietUntilTheEnd
      <3> QED
        BY <1>3, <3>1, <3>2, <3>5, QuietSlots
    <2> QED
      BY <1>3, <2>7, <2>10, <2>11
  <1> QED
    BY <1>4, <1>5

-----------------------------------------------------------------------------
(* The rate limiter: what it let in during this second was counted.        *)

LimiterOK == Limiter!TypeOK /\ admitted[0] <= count

LEMMA LimiterKept == LimiterOK /\ [Limiter!Next]_limiterVars => LimiterOK'
  <1> SUFFICES ASSUME LimiterOK, [Limiter!Next]_limiterVars PROVE LimiterOK'
    OBVIOUS
  <1> USE ServicesAssumption, BreakerAssumption
      DEF LimiterOK, Limiter!TypeOK, Limiter!LimiterAssumption, Limiter!Goto
  <1>1. ASSUME NEW q \in Requests, Limiter!Incr(q) PROVE LimiterOK'
    <2>1. /\ count' \in 1..(limit + 1) /\ count <= count'
          /\ count' <= limit => count' = count + 1
      BY <1>1 DEF Limiter!Incr, Limiter!Incremented
    <2>2. /\ admitted' \in [0..(window_seconds - 1) -> 0..limit]
          /\ admitted'[0] <= count'
      <3>1. CASE count' > limit
        BY <1>1, <2>1, <3>1 DEF Limiter!Incr, Limiter!OverLimit
      <3>2. CASE count' <= limit
        <4>1. admitted' = [admitted EXCEPT ![0] = @ + 1]
          BY <1>1, <2>1, <3>2 DEF Limiter!Incr, Limiter!OverLimit
        <4>2. 0 \in 0..(window_seconds - 1) /\ admitted[0] + 1 \in 0..limit
          BY <2>1, <3>2
        <4> QED
          BY <2>1, <3>2, <4>1, <4>2
      <3> QED
        BY <2>1, <3>1, <3>2
    <2>3. /\ limiter_pc' \in [Requests -> {"idle", "expire", "over", "admit"}]
          /\ UNCHANGED <<ttl, limiter_deaths>>
      BY <1>1 DEF Limiter!Incr
    <2> QED
      BY <2>1, <2>2, <2>3
  <1>2. ASSUME NEW q \in Requests, Limiter!Expire(q) PROVE LimiterOK'
    BY <1>2 DEF Limiter!Expire
  <1>3. ASSUME NEW q \in Requests, Limiter!Answer(q) PROVE LimiterOK'
    BY <1>3 DEF Limiter!Answer
  <1>4. ASSUME NEW q \in Requests, Limiter!Die(q) PROVE LimiterOK'
    BY <1>4 DEF Limiter!Die
  <1>5. CASE Limiter!Tick
    <2>1. /\ admitted' \in [0..(window_seconds - 1) -> 0..limit] /\ admitted'[0] = 0
      BY <1>5 DEF Limiter!Tick
    <2>2. /\ ttl' \in 1..window_seconds \cup {None} /\ count' \in 0..(limit + 1)
          /\ UNCHANGED <<limiter_pc, limiter_deaths>>
      BY <1>5 DEF Limiter!Tick
    <2> QED
      BY <2>1, <2>2
  <1>6. CASE UNCHANGED limiterVars
    BY <1>6 DEF limiterVars
  <1> QED
    BY <1>1, <1>2, <1>3, <1>4, <1>5, <1>6 DEF Limiter!Next, Limiter!RequestStep

\* The last window_seconds seconds fall into two: the d seconds of the present key,
\* in which no more was let in than it counts, and the ones before it, which had a
\* key of their own.  While the key has a TTL it is old enough for what is left of it
\* to push the others out.
TwoKeys(d) ==
    /\ SumOf(admitted, 0..(d - 1)) <= count /\ SumOf(admitted, 0..(d - 1)) <= limit
    /\ SumOf(admitted, d..(window_seconds - 1)) <= limit
    /\ count = 0 <=> d = 0
    /\ ttl # None => d + ttl > window_seconds

WindowsOK == \E d \in 0..window_seconds : TwoKeys(d)

\* Admissions of part of the time the limiter remembers are some of them all.
LEMMA AdmittedSums ==
    ASSUME LimiterOK, NEW a \in Nat, NEW b \in Int, b < window_seconds
    PROVE  /\ IsFiniteSet(a..b) /\ \A i \in a..b : admitted[i] \in Nat
           /\ SumOf(admitted, a..b) \in Nat
           /\ SumOf(admitted, a..b) <= SumOf(admitted, 0..(window_seconds - 1))
           /\ SumOf(admitted, 0..(window_seconds - 1)) \in Nat
  <1>1. window_seconds \in Nat \ {0} /\ limit \in Nat
    BY ServicesAssumption DEF Limiter!LimiterAssumption
  <1>2. \A i \in 0..(window_seconds - 1) : admitted[i] \in Nat
    BY <1>1 DEF LimiterOK, Limiter!TypeOK
  <1>3. IsFiniteSet(a..b) /\ IsFiniteSet(0..(window_seconds - 1))
    BY <1>1, FS_Interval
  <1>4. a..b \in SUBSET (0..(window_seconds - 1))
    BY <1>1
  <1>5. SumOf(admitted, a..b) \in Nat /\ SumOf(admitted, 0..(window_seconds - 1)) \in Nat
    BY <1>2, <1>3, <1>4, SumType
  <1> QED
    BY <1>2, <1>3, <1>4, <1>5, SumOfPart

\* Twice the limit is what two keys let in.
LEMMA TwoKeysBound == LimiterOK /\ WindowsOK => BurstBound
  <1> SUFFICES ASSUME LimiterOK, NEW d \in 0..window_seconds, TwoKeys(d) PROVE BurstBound
    BY DEF WindowsOK
  <1>1. window_seconds \in Nat \ {0} /\ limit \in Nat
    BY ServicesAssumption DEF Limiter!LimiterAssumption
  <1>2. DOMAIN admitted = 0..(window_seconds - 1)
    BY DEF LimiterOK, Limiter!TypeOK
  <1>3. Limiter!Burst = SumOf(admitted, 0..(window_seconds - 1))
    BY <1>2 DEF Limiter!Burst, Limiter!MapThenSumSet, Limiter!MapThenFoldSet, SumOf,
       MapThenSumSet, MapThenFoldSet
  <1>4. /\ 0..(d - 1) \in SUBSET (0..(window_seconds - 1))
        /\ (0..(window_seconds - 1)) \ (0..(d - 1)) = d..(window_seconds - 1)
    BY <1>1
  <1>5. /\ IsFiniteSet(0..(window_seconds - 1))
        /\ \A i \in 0..(window_seconds - 1) : admitted[i] \in Nat
        /\ SumOf(admitted, 0..(d - 1)) \in Nat
        /\ SumOf(admitted, d..(window_seconds - 1)) \in Nat
    BY <1>1, AdmittedSums
  <1>6. SumOf(admitted, 0..(window_seconds - 1))
          = SumOf(admitted, 0..(d - 1)) + SumOf(admitted, d..(window_seconds - 1))
    <2>1. PICK W : W = 0..(window_seconds - 1)
      OBVIOUS
    <2>2. IsFiniteSet(W) /\ \A i \in W : admitted[i] \in Nat
      BY <1>5, <2>1
    <2>3. PICK R \in SUBSET W : R = 0..(d - 1)
      BY <1>4, <2>1
    <2>4. SumOf(admitted, W) = SumOf(admitted, R) + SumOf(admitted, W \ R)
      BY <2>2, SumSplit
    <2> QED
      BY <1>4, <2>1, <2>3, <2>4
  <1>7. SumOf(admitted, 0..(window_seconds - 1)) <= 2 * limit
    BY <1>1, <1>5, <1>6 DEF TwoKeys
  <1> QED
    BY <1>3, <1>7 DEF BurstBound, Limiter!BurstBound

\* A request let in is counted by the present key.
LEMMA OneMoreAtZero ==
    ASSUME NEW w \in Nat \ {0}, NEW f \in [0..(w - 1) -> Nat], NEW g \in [0..(w - 1) -> Nat],
           g[0] = f[0] + 1, \A i \in 1..(w - 1) : g[i] = f[i]
    PROVE  /\ \A b \in 0..(w - 1) : SumOf(g, 0..b) = SumOf(f, 0..b) + 1
           /\ \A e \in 1..w : SumOf(g, e..(w - 1)) = SumOf(f, e..(w - 1))
           /\ SumOf(f, 0..0) = f[0] /\ SumOf(g, 0..0) = g[0]
  <1>1. g[0] = f[0] + 1 /\ f[0] \in Nat /\ \A i \in 1..(w - 1) : g[i] = f[i]
    OBVIOUS
  <1>2. ASSUME NEW b \in 0..(w - 1)
        PROVE  /\ SumOf(f, 0..b) = f[0] + SumOf(f, 1..b)
               /\ SumOf(g, 0..b) = g[0] + SumOf(g, 1..b)
    <2>1. PICK last \in Nat : last = w - 1
      OBVIOUS
    <2> QED
      BY <2>1, SumFromZero
  <1>3. ASSUME NEW b \in 0..(w - 1) PROVE SumOf(g, 0..b) = SumOf(f, 0..b) + 1
    <2>1. IsFiniteSet(1..b)
      BY FS_Interval
    <2>2. \A i \in 1..b : f[i] \in Nat /\ g[i] = f[i]
      BY <1>1
    <2>3. SumOf(f, 1..b) \in Nat
      BY <2>1, <2>2, SumType
    <2>4. SumOf(g, 1..b) = SumOf(f, 1..b)
      BY <2>1, <2>2, SumCongruence
    <2> QED
      BY <1>1, <1>2, <2>3, <2>4
  <1>4. ASSUME NEW e \in 1..w PROVE SumOf(g, e..(w - 1)) = SumOf(f, e..(w - 1))
    <2>1. IsFiniteSet(e..(w - 1))
      BY FS_Interval
    <2>2. \A i \in e..(w - 1) : g[i] = f[i]
      BY <1>1
    <2> QED
      BY <2>1, <2>2, SumCongruence
  <1>5. SumOf(f, 0..0) = f[0] /\ SumOf(g, 0..0) = g[0]
    <2>1. PICK b \in 0..(w - 1) : b = 0
      OBVIOUS
    <2>2. /\ SumOf(f, 0..b) = f[0] + SumOf(f, 1..b)
          /\ SumOf(g, 0..b) = g[0] + SumOf(g, 1..b)
      BY <1>2
    <2>3. 1..b = {} /\ g[0] \in Nat
      BY <1>1, <2>1
    <2>4. SumOf(f, 1..b) = 0 /\ SumOf(g, 1..b) = 0
      BY <2>3, SumOfNone
    <2> QED
      BY <1>1, <2>1, <2>2, <2>3, <2>4
  <1> QED
    BY <1>3, <1>4, <1>5

\* An admission keeps the split: it belongs to the present key.
LEMMA WindowsIncr ==
    ASSUME LimiterOK, LimiterOK', WindowsOK, NEW q \in Requests, Limiter!Incr(q)
    PROVE  WindowsOK'
  <1>1. PICK d \in 0..window_seconds : TwoKeys(d)
    BY DEF WindowsOK
  <1>2. /\ window_seconds \in Nat \ {0} /\ limit \in Nat \ {0}
        /\ count \in Nat /\ count' \in Nat /\ ttl' = ttl
    BY ServicesAssumption DEF Limiter!LimiterAssumption, LimiterOK, Limiter!TypeOK, Limiter!Incr
  <1>3. count' = IF count > limit THEN count ELSE count + 1
    BY DEF Limiter!Incr, Limiter!Incremented
  <1>4. CASE count' > limit
    <2>1. admitted' = admitted
      BY <1>4 DEF Limiter!Incr, Limiter!OverLimit
    <2>2. count # 0 /\ count' # 0 /\ count <= count'
      BY <1>2, <1>3, <1>4
    <2>3. SumOf(admitted, 0..(d - 1)) \in Nat
      BY <1>2, AdmittedSums
    <2>4. SumOf(admitted, 0..(d - 1)) <= count'
      BY <1>1, <1>2, <2>2, <2>3 DEF TwoKeys
    <2>5. TwoKeys(d)'
      BY <1>1, <1>2, <2>1, <2>2, <2>4 DEF TwoKeys
    <2> QED
      BY <1>2, <2>5 DEF WindowsOK
  <1>5. CASE count' <= limit
    <2>0. count' = count + 1 /\ count' # 0
      BY <1>2, <1>3, <1>5
    <2>1. admitted' = [admitted EXCEPT ![0] = @ + 1]
      BY <1>2, <1>5 DEF Limiter!Incr, Limiter!OverLimit
    <2>2. PICK A \in [0..(window_seconds - 1) -> Nat] :
             /\ A = admitted' /\ A[0] = admitted[0] + 1
             /\ \A i \in 1..(window_seconds - 1) : A[i] = admitted[i]
      <3>1. admitted' \in [0..(window_seconds - 1) -> Nat]
        BY <1>2 DEF LimiterOK, Limiter!TypeOK
      <3>2. /\ admitted'[0] = admitted[0] + 1
            /\ \A i \in 1..(window_seconds - 1) : admitted'[i] = admitted[i]
        BY <1>2, <2>1 DEF LimiterOK, Limiter!TypeOK
      <3> QED
        BY <3>1, <3>2
    <2>3. admitted \in [0..(window_seconds - 1) -> Nat]
      BY <1>2 DEF LimiterOK, Limiter!TypeOK
    <2>4. /\ \A b \in 0..(window_seconds - 1) : SumOf(A, 0..b) = SumOf(admitted, 0..b) + 1
          /\ \A e \in 1..window_seconds :
                SumOf(A, e..(window_seconds - 1)) = SumOf(admitted, e..(window_seconds - 1))
          /\ SumOf(A, 0..0) = A[0]
      BY <1>2, <2>2, <2>3, OneMoreAtZero
    <2>5. CASE d = 0
      <3>1. count = 0 /\ count' = 1 /\ ttl = None
        <4>1. count = 0 /\ (ttl # None => 0 + ttl > window_seconds)
          BY <1>1, <2>5 DEF TwoKeys
        <4>2. ttl \in 1..window_seconds \cup {None}
          BY DEF LimiterOK, Limiter!TypeOK
        <4> QED
          BY <1>2, <2>0, <4>1, <4>2
      <3>2. SumOf(A, 0..0) = 1
        <4>1. admitted[0] = 0
          BY <1>2, <2>3, <3>1 DEF LimiterOK
        <4> QED
          BY <2>2, <2>4, <4>1
      <3>3. SumOf(A, 1..(window_seconds - 1)) <= limit
        <4>1. /\ SumOf(admitted, 1..(window_seconds - 1)) \in Nat
              /\ SumOf(admitted, 1..(window_seconds - 1)) <= SumOf(admitted, 0..(window_seconds - 1))
              /\ SumOf(admitted, 0..(window_seconds - 1)) \in Nat
          <5>1. PICK last \in Int : last = window_seconds - 1 /\ last < window_seconds
            BY <1>2
          <5> QED
            BY <1>2, <5>1, AdmittedSums
        <4>2. SumOf(admitted, 0..(window_seconds - 1)) <= limit
          BY <1>1, <2>5 DEF TwoKeys
        <4>3. SumOf(admitted, 1..(window_seconds - 1)) <= limit
          BY <1>2, <4>1, <4>2
        <4>4. 1 \in 1..window_seconds
          BY <1>2
        <4> QED
          BY <2>4, <4>3, <4>4
      <3>4. TwoKeys(1)'
        <4>1. 1 - 1 = 0 /\ 1 <= limit /\ 1 <= count'
          BY <1>2, <3>1
        <4> QED
          BY <1>2, <2>2, <3>1, <3>2, <3>3, <4>1 DEF TwoKeys
      <3>5. 1 \in 0..window_seconds
        BY <1>2
      <3> QED
        BY <1>2, <3>4, <3>5 DEF WindowsOK
    <2>6. CASE d # 0
      <3>1. d \in 1..window_seconds /\ d - 1 \in 0..(window_seconds - 1)
        BY <1>2, <2>6
      <3>2. SumOf(admitted, 0..(d - 1)) \in Nat
        <4>1. PICK last \in Int : last = d - 1 /\ last < window_seconds
          BY <1>2, <3>1
        <4> QED
          BY <1>2, <4>1, AdmittedSums
      <3>3. SumOf(admitted, 0..(d - 1)) <= count
        BY <1>1 DEF TwoKeys
      <3>4. SumOf(A, 0..(d - 1)) = SumOf(admitted, 0..(d - 1)) + 1
        BY <2>4, <3>1
      <3>5. SumOf(A, 0..(d - 1)) <= count' /\ SumOf(A, 0..(d - 1)) <= limit
        BY <1>2, <1>5, <2>0, <3>2, <3>3, <3>4
      <3>6. SumOf(A, d..(window_seconds - 1)) <= limit
        BY <1>1, <2>4, <3>1 DEF TwoKeys
      <3>7. TwoKeys(d)'
        BY <1>1, <1>2, <2>0, <2>2, <2>6, <3>5, <3>6 DEF TwoKeys
      <3> QED
        BY <1>2, <3>7 DEF WindowsOK
    <2> QED
      BY <2>5, <2>6
  <1> QED
    BY <1>2, <1>4, <1>5

\* A second later every admission has moved on by one.
LEMMA OneSecondOlder ==
    ASSUME NEW w \in Nat \ {0}, NEW f \in [0..(w - 1) -> Nat], NEW g \in [0..(w - 1) -> Nat],
           \A i \in {0} : g[i] = 0, \A i \in 0..(w - 2) : g[i + 1] = f[i]
    PROVE  /\ \A d \in 0..(w - 1) : SumOf(g, 0..d) = SumOf(f, 0..(d - 1))
           /\ \A d \in 0..(w - 1) : SumOf(g, (d + 1)..(w - 1)) <= SumOf(f, d..(w - 1))
  <1>1. ASSUME NEW d \in 0..(w - 1) PROVE SumOf(g, 0..d) = SumOf(f, 0..(d - 1))
    <2>1. PICK last \in Nat : last = w - 1
      OBVIOUS
    <2>2. SumOf(g, 0..d) = g[0] + SumOf(g, 1..d)
      BY <2>1, SumFromZero
    <2>3. SumOf(g, 1..d) = SumOf(f, 0..(d - 1))
      <3>1. Shifted(f, g, 0, d)
        BY DEF Shifted
      <3>2. SameSum(f, g, 0, d)
        BY <3>1, SumShifted
      <3>3. 0 + 1 = 1 /\ 0 + d = d /\ 0 + d - 1 = d - 1
        OBVIOUS
      <3> QED
        BY <3>2, <3>3 DEF SameSum
    <2>4. SumOf(g, 1..d) \in Nat
      <3>1. IsFiniteSet(1..d)
        BY FS_Interval
      <3>2. \A i \in 1..d : g[i] \in Nat
        OBVIOUS
      <3> QED
        BY <3>1, <3>2, SumType
    <2>5. g[0] = 0
      OBVIOUS
    <2> QED
      BY <2>2, <2>3, <2>4, <2>5
  <1>2. ASSUME NEW d \in 0..(w - 1)
        PROVE  SumOf(g, (d + 1)..(w - 1)) <= SumOf(f, d..(w - 1))
    <2>1. PICK n : n = w - 1 - d
      OBVIOUS
    <2>2. /\ n \in Nat /\ d \in Int /\ d + n = w - 1 /\ d + n - 1 = w - 2
          /\ Shifted(f, g, d, n)
      BY <2>1 DEF Shifted
    <2>3. SameSum(f, g, d, n)
      BY <2>2, SumShifted
    <2>4. SumOf(f, d..(w - 2)) <= SumOf(f, d..(w - 1))
      <3>1. IsFiniteSet(d..(w - 1))
        BY FS_Interval
      <3>2. \A i \in d..(w - 1) : f[i] \in Nat
        OBVIOUS
      <3>3. d..(w - 2) \in SUBSET (d..(w - 1))
        OBVIOUS
      <3> QED
        BY <3>1, <3>2, <3>3, SumOfPart
    <2> QED
      BY <2>2, <2>3, <2>4 DEF SameSum
  <1> QED
    BY <1>1, <1>2

\* A second keeps the split, or begins a new window with a new key.
LEMMA WindowsTick ==
    ASSUME LimiterOK, LimiterOK', WindowsOK, Limiter!Tick
    PROVE  WindowsOK'
  <1>1. PICK d \in 0..window_seconds : TwoKeys(d)
    BY DEF WindowsOK
  <1>2. /\ window_seconds \in Nat \ {0} /\ limit \in Nat \ {0} /\ count \in Nat
        /\ None \notin Nat /\ ttl \in 1..window_seconds \cup {None}
        /\ admitted \in [0..(window_seconds - 1) -> Nat]
    BY ServicesAssumption DEF Limiter!LimiterAssumption, LimiterOK, Limiter!TypeOK
  <1>3. PICK A \in [0..(window_seconds - 1) -> Nat] :
           /\ A = admitted' /\ A[0] = 0
           /\ \A i \in 0..(window_seconds - 2) : A[i + 1] = admitted[i]
    <2>1. admitted' \in [0..(window_seconds - 1) -> Nat]
      BY <1>2 DEF LimiterOK, Limiter!TypeOK
    <2>2. admitted' = [a \in 0..(window_seconds - 1) |-> IF a = 0 THEN 0 ELSE admitted[a - 1]]
      BY <1>2 DEF Limiter!Tick
    <2>3. admitted'[0] = 0
      BY <1>2, <2>2
    <2>4. ASSUME NEW i \in 0..(window_seconds - 2) PROVE admitted'[i + 1] = admitted[i]
      <3>1. i + 1 \in 0..(window_seconds - 1) /\ i + 1 # 0 /\ i + 1 - 1 = i
        BY <1>2
      <3> QED
        BY <2>2, <3>1
    <2> QED
      BY <2>1, <2>3, <2>4
  <1>4. /\ \A k \in 0..(window_seconds - 1) : SumOf(A, 0..k) = SumOf(admitted, 0..(k - 1))
        /\ \A k \in 0..(window_seconds - 1) :
              SumOf(A, (k + 1)..(window_seconds - 1)) <= SumOf(admitted, k..(window_seconds - 1))
    <2>1. \A i \in {0} : A[i] = 0
      BY <1>3
    <2> QED
      BY <1>2, <1>3, <2>1, OneSecondOlder
  <1>5. /\ ttl' = IF ttl \in {None, 1} THEN None ELSE ttl - 1
        /\ count' = IF ttl = 1 THEN 0 ELSE count
    BY DEF Limiter!Tick
  <1>6. PICK last \in Nat : last = window_seconds - 1
    BY <1>2
  <1>7. \A k \in 0..last : /\ SumOf(A, 0..k) \in Nat /\ SumOf(A, (k + 1)..last) \in Nat
                           /\ SumOf(admitted, 0..(k - 1)) \in Nat
                           /\ SumOf(admitted, k..last) \in Nat
    <2> TAKE k \in 0..last
    <2>1. A \in [0..last -> Nat] /\ admitted \in [0..last -> Nat] /\ last \in Nat
      BY <1>2, <1>3, <1>6
    <2> QED
      BY <2>1, IntervalSums
  \* Everything there is has been let in by one key or before it.
  <1>8. ASSUME SumOf(admitted, 0..last) <= limit PROVE SumOf(A, 0..last) <= limit
    <2>1. SumOf(A, 0..last) = SumOf(admitted, 0..(last - 1))
      BY <1>4, <1>6
    <2>2. SumOf(admitted, 0..(last - 1)) <= SumOf(admitted, 0..last)
      <3>1. IsFiniteSet(0..last)
        BY FS_Interval
      <3>2. \A i \in 0..last : admitted[i] \in Nat
        BY <1>2, <1>6
      <3>3. 0..(last - 1) \in SUBSET (0..last)
        OBVIOUS
      <3> QED
        BY <3>1, <3>2, <3>3, SumOfPart
    <2>3. SumOf(admitted, 0..last) \in Nat /\ SumOf(admitted, 0..(last - 1)) \in Nat
      BY <1>7
    <2> QED
      BY <1>2, <1>8, <2>1, <2>2, <2>3
  <1>9. CASE ttl = 1
    <2>1. d = last + 1 /\ d - 1 = last
      BY <1>1, <1>2, <1>6, <1>9 DEF TwoKeys
    <2>2. SumOf(A, 0..last) <= limit
      BY <1>1, <1>8, <2>1 DEF TwoKeys
    <2>3. TwoKeys(0)'
      <3>1. 0..(0 - 1) = {}
        OBVIOUS
      <3>2. SumOf(A, 0..(0 - 1)) = 0
        BY <3>1, SumOfNone
      <3> QED
        BY <1>2, <1>3, <1>5, <1>6, <1>9, <2>2, <3>2 DEF TwoKeys
    <2> QED
      BY <1>2, <2>3 DEF WindowsOK
  <1>10. CASE ttl # 1 /\ d = 0
    <2>1. count = 0 /\ ttl = None /\ SumOf(admitted, 0..last) <= limit
      BY <1>1, <1>2, <1>6, <1>10 DEF TwoKeys
    <2>2. SumOf(A, 0..last) <= limit
      BY <1>8, <2>1
    <2>3. TwoKeys(0)'
      <3>1. 0..(0 - 1) = {}
        OBVIOUS
      <3>2. SumOf(A, 0..(0 - 1)) = 0
        BY <3>1, SumOfNone
      <3> QED
        BY <1>2, <1>3, <1>5, <1>6, <1>10, <2>1, <2>2, <3>2 DEF TwoKeys
    <2> QED
      BY <1>2, <2>3 DEF WindowsOK
  <1>11. CASE ttl # 1 /\ d \in 1..last
    <2>1. count # 0 /\ count' = count
      BY <1>1, <1>5, <1>11 DEF TwoKeys
    <2>2. SumOf(A, 0..d) = SumOf(admitted, 0..(d - 1)) /\ d + 1 - 1 = d
      BY <1>4, <1>6, <1>11
    <2>3. SumOf(A, (d + 1)..last) <= limit
      <3>1. /\ SumOf(A, (d + 1)..last) <= SumOf(admitted, d..last)
            /\ SumOf(A, (d + 1)..last) \in Nat /\ SumOf(admitted, d..last) \in Nat
        BY <1>4, <1>6, <1>7, <1>11
      <3>2. SumOf(admitted, d..last) <= limit
        BY <1>1, <1>6 DEF TwoKeys
      <3> QED
        BY <1>2, <3>1, <3>2
    <2>4. ttl' # None => d + 1 + ttl' > window_seconds
      BY <1>1, <1>2, <1>5, <1>11 DEF TwoKeys
    <2>5. TwoKeys(d + 1)'
      BY <1>1, <1>2, <1>3, <1>6, <1>11, <2>1, <2>2, <2>3, <2>4 DEF TwoKeys
    <2>6. d + 1 \in 0..window_seconds
      BY <1>2, <1>6, <1>11
    <2> QED
      BY <1>2, <2>5, <2>6 DEF WindowsOK
  <1>12. CASE ttl # 1 /\ d = last + 1
    <2>1. count # 0 /\ count' = count /\ d - 1 = last
      BY <1>1, <1>5, <1>12 DEF TwoKeys
    <2>2. SumOf(A, 0..last) = SumOf(admitted, 0..(last - 1))
      BY <1>4, <1>6
    <2>3. SumOf(A, 0..last) <= limit /\ SumOf(A, 0..last) <= count
      <3>1. SumOf(admitted, 0..last) <= limit /\ SumOf(admitted, 0..last) <= count
        BY <1>1, <2>1 DEF TwoKeys
      <3>2. SumOf(admitted, 0..(last - 1)) <= SumOf(admitted, 0..last)
        <4>1. IsFiniteSet(0..last)
          BY FS_Interval
        <4>2. \A i \in 0..last : admitted[i] \in Nat
          BY <1>2, <1>6
        <4>3. 0..(last - 1) \in SUBSET (0..last)
          OBVIOUS
        <4> QED
          BY <4>1, <4>2, <4>3, SumOfPart
      <3>3. SumOf(admitted, 0..last) \in Nat /\ SumOf(admitted, 0..(last - 1)) \in Nat
        <4>1. IsFiniteSet(0..last) /\ IsFiniteSet(0..(last - 1))
          BY FS_Interval
        <4>2. \A i \in 0..last : admitted[i] \in Nat
          BY <1>2, <1>6
        <4> QED
          BY <4>1, <4>2, SumType
      <3> QED
        BY <1>2, <2>2, <3>1, <3>2, <3>3
    <2>4. ttl' # None => d + ttl' > window_seconds
      BY <1>2, <1>5, <1>6, <1>12
    <2>5. d..last = {}
      BY <1>12
    <2>6. SumOf(A, d..last) = 0
      BY <2>5, SumOfNone
    <2>7. TwoKeys(d)'
      BY <1>1, <1>2, <1>3, <1>6, <1>12, <2>1, <2>3, <2>4, <2>6 DEF TwoKeys
    <2> QED
      BY <1>2, <2>7 DEF WindowsOK
  <1> QED
    BY <1>2, <1>6, <1>9, <1>10, <1>11, <1>12

\* Each step of the limiter keeps the split.
LEMMA WindowsKept ==
    LimiterOK /\ LimiterOK' /\ WindowsOK /\ [Limiter!Next]_limiterVars => WindowsOK'
  <1> SUFFICES ASSUME LimiterOK, LimiterOK', WindowsOK, [Limiter!Next]_limiterVars
               PROVE  WindowsOK'
    OBVIOUS
  <1>0. window_seconds \in Nat \ {0} /\ None \notin Nat
    BY ServicesAssumption DEF Limiter!LimiterAssumption
  <1>1. ASSUME NEW q \in Requests, Limiter!Incr(q) PROVE WindowsOK'
    BY <1>1, WindowsIncr
  <1>2. ASSUME NEW q \in Requests, Limiter!Expire(q) PROVE WindowsOK'
    <2>1. PICK d \in 0..window_seconds : TwoKeys(d)
      BY DEF WindowsOK
    <2>2. /\ ttl' = IF count > 0 THEN window_seconds ELSE ttl
          /\ count' = count /\ admitted' = admitted /\ count \in Nat
      BY <1>2 DEF Limiter!Expire, LimiterOK, Limiter!TypeOK
    <2>3. ttl' # None => d + ttl' > window_seconds
      BY <1>0, <2>1, <2>2 DEF TwoKeys
    <2>4. TwoKeys(d)'
      BY <2>1, <2>2, <2>3 DEF TwoKeys
    <2> QED
      BY <2>4 DEF WindowsOK
  <1>3. ASSUME NEW q \in Requests, Limiter!Answer(q) \/ Limiter!Die(q) PROVE WindowsOK'
    BY <1>3 DEF Limiter!Answer, Limiter!Die, WindowsOK, TwoKeys
  <1>4. CASE Limiter!Tick
    BY <1>4, WindowsTick
  <1>5. CASE UNCHANGED limiterVars
    BY <1>5 DEF limiterVars, WindowsOK, TwoKeys
  <1> QED
    BY <1>1, <1>2, <1>3, <1>4, <1>5 DEF Limiter!Next, Limiter!RequestStep

-----------------------------------------------------------------------------
(* The policy cache, the connectivity flag and the quiet hours.            *)

LEMMA PolicyKept == Policy!TypeOK /\ [Policy!Next]_policyVars => Policy!TypeOK'
  <1> SUFFICES ASSUME Policy!TypeOK, [Policy!Next]_policyVars PROVE Policy!TypeOK'
    OBVIOUS
  <1> USE ServicesAssumption DEF Policy!TypeOK, Policy!PolicyAssumption, Policy!Goto, Policy!RedisFails
  <1>1. ASSUME NEW r \in Readers, Policy!CacheHit(r) PROVE Policy!TypeOK'
    BY <1>1 DEF Policy!CacheHit
  <1>2. ASSUME NEW r \in Readers, Policy!CacheMiss(r) PROVE Policy!TypeOK'
    BY <1>2 DEF Policy!CacheMiss
  <1>3. ASSUME NEW r \in Readers, Policy!QueryBusiness(r) PROVE Policy!TypeOK'
    BY <1>3 DEF Policy!QueryBusiness
  <1>4. ASSUME NEW r \in Readers, Policy!FillCache(r) PROVE Policy!TypeOK'
    BY <1>4 DEF Policy!FillCache, Policy!FillTtl
  <1>5. CASE Policy!SavePolicy
    BY <1>5 DEF Policy!SavePolicy
  <1>6. CASE Policy!Tick
    BY <1>6 DEF Policy!Tick
  <1>7. CASE UNCHANGED policyVars
    BY <1>7 DEF policyVars
  <1> QED
    BY <1>1, <1>2, <1>3, <1>4, <1>5, <1>6, <1>7 DEF Policy!Next, Policy!LoadPolicy

LEMMA NetworkKept == Network!TypeOK /\ [Network!Next]_networkVars => Network!TypeOK'
  <1> SUFFICES ASSUME Network!TypeOK, [Network!Next]_networkVars PROVE Network!TypeOK'
    OBVIOUS
  <1> USE ServicesAssumption DEF Network!TypeOK, Network!ConnectivityAssumption, Network!Goto
  <1>1. ASSUME NEW w \in Watchers, Network!GetPrevious(w) PROVE Network!TypeOK'
    BY <1>1 DEF Network!GetPrevious
  <1>2. ASSUME NEW w \in Watchers, Network!Ping(w) PROVE Network!TypeOK'
    BY <1>2 DEF Network!Ping
  <1>3. ASSUME NEW w \in Watchers, Network!SetFlag(w) PROVE Network!TypeOK'
    BY <1>3 DEF Network!SetFlag, Network!NewFlag
  <1>4. ASSUME NEW w \in Watchers, Network!AuditRaises(w) PROVE Network!TypeOK'
    BY <1>4 DEF Network!AuditRaises
  <1>5. ASSUME NEW m \in Messages, Network!PollAndSend(m) PROVE Network!TypeOK'
    BY <1>5 DEF Network!PollAndSend
  <1>6. CASE Network!NetworkChanges
    BY <1>6 DEF Network!NetworkChanges
  <1>7. CASE UNCHANGED networkVars
    BY <1>7 DEF networkVars
  <1> QED
    BY <1>1, <1>2, <1>3, <1>4, <1>5, <1>6, <1>7
    DEF Network!Next, Network!UpdateConnectivityStatus

\* The last watcher to write has not pinged again, or is about to write again.
LEMMA FlagKept ==
    Network!TypeOK /\ Network!FlagIsAnAnswer /\ [Network!Next]_networkVars
        => Network!FlagIsAnAnswer'
  <1> SUFFICES ASSUME Network!TypeOK, Network!FlagIsAnAnswer, [Network!Next]_networkVars
               PROVE  Network!FlagIsAnAnswer'
    OBVIOUS
  <1> USE ServicesAssumption
      DEF Network!TypeOK, Network!FlagIsAnAnswer, Network!ConnectivityAssumption, Network!Goto
  <1>1. ASSUME NEW w \in Watchers, Network!GetPrevious(w) PROVE Network!FlagIsAnAnswer'
    BY <1>1 DEF Network!GetPrevious
  <1>2. ASSUME NEW w \in Watchers, Network!Ping(w) PROVE Network!FlagIsAnAnswer'
    BY <1>2 DEF Network!Ping
  <1>3. ASSUME NEW w \in Watchers, Network!SetFlag(w) PROVE Network!FlagIsAnAnswer'
    BY <1>3 DEF Network!SetFlag, Network!NewFlag
  <1>4. ASSUME NEW w \in Watchers, Network!AuditRaises(w) PROVE Network!FlagIsAnAnswer'
    BY <1>4 DEF Network!AuditRaises
  <1>5. ASSUME NEW m \in Messages, Network!PollAndSend(m) PROVE Network!FlagIsAnAnswer'
    BY <1>5 DEF Network!PollAndSend
  <1>6. CASE Network!NetworkChanges \/ UNCHANGED networkVars
    BY <1>6 DEF Network!NetworkChanges, networkVars
  <1> QED
    BY <1>1, <1>2, <1>3, <1>4, <1>5, <1>6
    DEF Network!Next, Network!UpdateConnectivityStatus

LEMMA QuietKept == Quiet!TypeOK /\ [Quiet!Next]_quietVars => Quiet!TypeOK'
  <1> SUFFICES ASSUME Quiet!TypeOK, [Quiet!Next]_quietVars PROVE Quiet!TypeOK'
    OBVIOUS
  <1> USE DEF Quiet!TypeOK, Quiet!Slots
  <1>1. CASE Quiet!PollAndSend
    BY <1>1 DEF Quiet!PollAndSend
  <1>2. CASE Quiet!Tick
    <2>1. now + 1 \in Int /\ Quiet!Day \in Nat \ {0}
      BY QuietNumbers
    <2>2. Quiet!NextSlot \in Quiet!Slots
      BY <2>1, Division DEF Quiet!NextSlot
    <2> QED
      BY <1>2, <2>2 DEF Quiet!Tick
  <1>3. CASE UNCHANGED quietVars
    BY <1>3 DEF quietVars
  <1> QED
    BY <1>1, <1>2, <1>3 DEF Quiet!Next

-----------------------------------------------------------------------------
(* Credit terms: a request somebody loaded as decided is decided.          *)

Decided == {"approved", "denied", "resolved"}

SeenDecided == \A s \in Staff :
    cur[s] # None /\ seen[s] \in Decided => request[cur[s]].status \in Decided

TermsOK == Terms!TypeOK /\ SeenDecided

\* A decision on a copy: the request was not decided before, or was when it was loaded.
LEMMA DecisionsStand ==
    ASSUME TermsOK, NEW s \in Staff,
           NEW status_ \in {"approved", "denied", "resolved"}, Terms!UpdateStatus(s, status_)
    PROVE  /\ cur[s] \in TermsRequests
           /\ request' = [request EXCEPT ![cur[s]] =
                             [status |-> status_, resolved_at |-> Terms!ResolvedAt(cur[s], status_)]]
           /\ Terms!ResolvedAt(cur[s], status_) \in BOOLEAN
           /\ status_ = "resolved" => request[cur[s]].status \in Decided
           /\ cur' = [cur EXCEPT ![s] = None] /\ seen' = [seen EXCEPT ![s] = "none"]
           /\ sla_age' = sla_age
  <1> USE DEF TermsOK, Terms!TypeOK, Terms!UpdateStatus, Terms!Stored, Terms!Leave
  <1>1. cur[s] \in TermsRequests
    OBVIOUS
  <1>2. Terms!ResolvedAt(cur[s], status_) \in BOOLEAN
    BY <1>1 DEF Terms!ResolvedAt
  <1>3. status_ = "resolved" => seen[s] \in Decided
    BY DEF Terms!Valid, Decided, Terms!CreditTermsStatus
  <1> QED
    BY <1>1, <1>2, <1>3 DEF SeenDecided

LEMMA TermsKept == TermsOK /\ [Terms!Next]_termsVars => TermsOK'
  <1> SUFFICES ASSUME TermsOK, [Terms!Next]_termsVars PROVE TermsOK'
    OBVIOUS
  <1> USE ServicesAssumption DEF TermsOK, Terms!TypeOK, Terms!CreditTermsAssumption,
          Terms!CreditTermsStatus, SeenDecided
  <1>1. ASSUME NEW r \in TermsRequests, Terms!CreateRequest(r) PROVE TermsOK'
    BY <1>1 DEF Terms!CreateRequest, Decided
  <1>2. ASSUME NEW r \in TermsRequests, Terms!Hour(r) PROVE TermsOK'
    BY <1>2 DEF Terms!Hour
  <1>3. ASSUME NEW r \in TermsRequests, NEW s \in Staff, Terms!Load(s, r) PROVE TermsOK'
    BY <1>3 DEF Terms!Load
  <1>4. ASSUME NEW s \in Staff, NEW status_ \in Decided, Terms!UpdateStatus(s, status_)
        PROVE  TermsOK'
    <2>1. PICK r \in TermsRequests, at \in BOOLEAN :
             /\ request' = [request EXCEPT ![r] = [status |-> status_, resolved_at |-> at]]
             /\ cur' = [cur EXCEPT ![s] = None] /\ seen' = [seen EXCEPT ![s] = "none"]
             /\ sla_age' = sla_age
      BY <1>4, DecisionsStand DEF Decided
    <2>2. /\ \A x \in TermsRequests : request[x].status \in Decided => request'[x].status \in Decided
          /\ request' \in [TermsRequests ->
                  [status : Terms!CreditTermsStatus \cup {"none"}, resolved_at : BOOLEAN]]
      BY <1>4, <2>1 DEF Decided
    <2>3. SeenDecided'
      BY <2>1, <2>2
    <2> QED
      BY <2>1, <2>2, <2>3
  <1>5. ASSUME NEW s \in Staff, NEW status_ \in Decided, Terms!RejectTransition(s, status_)
        PROVE  TermsOK'
    BY <1>5 DEF Terms!RejectTransition, Terms!Leave
  <1>6. CASE UNCHANGED termsVars
    BY <1>6 DEF termsVars
  <1> QED
    BY <1>1, <1>2, <1>3, <1>4, <1>5, <1>6 DEF Terms!Next, Decided

\* A decision, however stale the copy it was made on, takes a request off the list of
\* overdue ones and puts none back.
LEMMA OverdueStep == TermsOK /\ [Terms!Next]_termsVars =>
    \A r \in TermsRequests :
        /\ r \in Terms!Overdue => r \in Terms!Overdue' \/ request'[r].status \in {"approved", "denied"}
        /\ request[r].status \in {"approved", "denied", "resolved"} => r \notin Terms!Overdue'
  <1> SUFFICES ASSUME TermsOK, [Terms!Next]_termsVars, NEW r \in TermsRequests
               PROVE  /\ r \in Terms!Overdue =>
                            r \in Terms!Overdue' \/ request'[r].status \in {"approved", "denied"}
                      /\ request[r].status \in Decided => r \notin Terms!Overdue'
    BY DEF Decided
  <1> DEFINE Kept == /\ r \in Terms!Overdue =>
                            r \in Terms!Overdue' \/ request'[r].status \in {"approved", "denied"}
                     /\ request[r].status \in Decided => r \notin Terms!Overdue'
  <1> USE ServicesAssumption DEF TermsOK, Terms!TypeOK, Terms!CreditTermsAssumption,
          Terms!CreditTermsStatus, Terms!Overdue, Decided
  <1>1. ASSUME NEW q \in TermsRequests, Terms!CreateRequest(q) PROVE Kept
    BY <1>1 DEF Terms!CreateRequest
  <1>2. ASSUME NEW q \in TermsRequests, Terms!Hour(q) PROVE Kept
    BY <1>2 DEF Terms!Hour
  <1>3. ASSUME NEW q \in TermsRequests, NEW s \in Staff, Terms!Load(s, q) PROVE Kept
    BY <1>3 DEF Terms!Load
  <1>4. ASSUME NEW s \in Staff, NEW status_ \in Decided, Terms!UpdateStatus(s, status_)
        PROVE  Kept
    <2>1. PICK q \in TermsRequests, at \in BOOLEAN :
             /\ request' = [request EXCEPT ![q] = [status |-> status_, resolved_at |-> at]]
             /\ status_ = "resolved" => request[q].status \in Decided
             /\ sla_age' = sla_age
      BY <1>4, DecisionsStand
    <2> QED
      BY <1>4, <2>1
  <1>5. ASSUME NEW s \in Staff, NEW status_ \in Decided, Terms!RejectTransition(s, status_)
        PROVE  Kept
    BY <1>5 DEF Terms!RejectTransition
  <1>6. CASE UNCHANGED termsVars
    BY <1>6 DEF termsVars
  <1> QED
    BY <1>1, <1>2, <1>3, <1>4, <1>5, <1>6 DEF Terms!Next

-----------------------------------------------------------------------------
(* The services together.                                                  *)

ServicesOK ==
    /\ TypeOK
    /\ LimiterOK /\ WindowsOK
    /\ Policy!TypeOK /\ Network!TypeOK /\ Quiet!TypeOK /\ TermsOK
    /\ Network!FlagIsAnAnswer

LEMMA ServicesInitOK == ServicesInit => ServicesOK
  <1> SUFFICES ASSUME ServicesInit PROVE ServicesOK
    OBVIOUS
  <1>1. TypeOK
    BY InitTypeOK DEF ServicesInit
  <1>2. LimiterOK
    <2>1. Limiter!Init
      BY DEF ServicesInit
    <2>2. 0 \in 0..(window_seconds - 1) /\ limit \in Nat /\ MaxDeaths \in Nat
      BY ServicesAssumption, BreakerAssumption DEF Limiter!LimiterAssumption
    <2> QED
      BY <2>1, <2>2 DEF LimiterOK, Limiter!Init, Limiter!TypeOK
  <1>3. Policy!TypeOK
    <2>1. Policy!Init
      BY DEF ServicesInit
    <2> QED
      BY <2>1, ServicesAssumption DEF Policy!Init, Policy!TypeOK, Policy!PolicyAssumption
  <1>4. Network!TypeOK /\ Network!FlagIsAnAnswer
    <2>1. Network!Init
      BY DEF ServicesInit
    <2> QED
      BY <2>1, ServicesAssumption
      DEF Network!Init, Network!TypeOK, Network!FlagIsAnAnswer, Network!ConnectivityAssumption
  <1>5. Quiet!TypeOK
    BY DEF ServicesInit, Quiet!Init, Quiet!TypeOK
  <1>6. TermsOK
    <2>1. Terms!Init
      BY DEF ServicesInit
    <2> QED
      BY <2>1, ServicesAssumption DEF TermsOK, SeenDecided, Terms!Init, Terms!TypeOK,
         Terms!CreditTermsAssumption, Terms!CreditTermsStatus
  <1>7. WindowsOK
    <2>1. Limiter!Init
      BY DEF ServicesInit
    <2>2. window_seconds \in Nat \ {0} /\ limit \in Nat \ {0} /\ 0..(0 - 1) = {}
      BY ServicesAssumption DEF Limiter!LimiterAssumption
    <2>3. SumOf(admitted, 0..(0 - 1)) = 0
      BY <2>2, SumOfNone
    <2>4. SumOf(admitted, 0..(window_seconds - 1)) = 0
      <3>1. IsFiniteSet(0..(window_seconds - 1))
        BY <2>2, FS_Interval
      <3>2. \A i \in 0..(window_seconds - 1) : admitted[i] = 0
        BY <2>1 DEF Limiter!Init
      <3> QED
        BY <3>1, <3>2, SumOfZeros
    <2>5. TwoKeys(0)
      BY <2>1, <2>2, <2>3, <2>4 DEF TwoKeys, Limiter!Init
    <2> QED
      BY <2>2, <2>5 DEF WindowsOK
  <1> QED
    BY <1>1, <1>2, <1>3, <1>4, <1>5, <1>6, <1>7 DEF ServicesOK

\* A step of the services is one of each of them, or leaves it alone.
LEMMA StepOfEach == [ServicesNext]_allVars =>
    /\ [Next]_vars /\ [Limiter!Next]_limiterVars /\ [Policy!Next]_policyVars
    /\ [Network!Next]_networkVars /\ [Quiet!Next]_quietVars /\ [Terms!Next]_termsVars
  BY DEF ServicesNext, allVars, Breaker, RateLimiter, LimiterNoDeath, PolicyService,
     ConnectivityWatcher, QuietHoursGate, CreditTermsService, Limiter!Next

LEMMA ServicesStep == ServicesOK /\ [ServicesNext]_allVars => ServicesOK'
  BY StepOfEach, TypeStep, LimiterKept, WindowsKept, PolicyKept, NetworkKept, FlagKept,
     QuietKept, TermsKept DEF ServicesOK

\* What every step of the services keeps: the types, the split of the last
\* seconds of the rate limiter in those of two keys, a flag that is some watcher's answer,
\* and no copy of a credit terms request that says decided of one that is not.
THEOREM ServicesInvariant == ServicesSpec => []ServicesOK
  <1>1. ServicesInit => ServicesOK
    BY ServicesInitOK
  <1>2. ServicesOK /\ [ServicesNext]_allVars => ServicesOK'
    BY ServicesStep
  <1> QED
    BY <1>1, <1>2, PTL DEF ServicesSpec

\* Type correctness of all services; that no second lets more than the limit in is
\* part of it.
THEOREM ServicesTypeCorrect == ServicesSpec => []ServicesTypeOK
  <1>1. ServicesOK => ServicesTypeOK
    BY DEF ServicesOK, ServicesTypeOK, LimiterOK, TermsOK
  <1> QED
    BY <1>1, ServicesInvariant, PTL

\* The flag says what some watcher's last ping said whenever none is about to write, for
\* any number of watchers that overlap in any way.
THEOREM FlagIsSomeAnswer == ServicesSpec => []FlagIsAnAnswer
  <1>1. ServicesOK => FlagIsAnAnswer
    BY DEF ServicesOK, FlagIsAnAnswer
  <1> QED
    BY <1>1, ServicesInvariant, PTL

\* No stretch of window_seconds lets in more than twice the limit, however the INCRs and
\* EXPIREs of any number of requests interleave, however late an EXPIRE comes and
\* whichever request dies between the two.
THEOREM BurstIsBounded == ServicesSpec => []BurstBound
  <1>1. ServicesOK => BurstBound
    BY TwoKeysBound DEF ServicesOK
  <1> QED
    BY <1>1, ServicesInvariant, PTL

\* The moment quiet hours defer a message to is the first one outside them, for every
\* window, every hour of the day and every offset of local time.
THEOREM DeferralIsExact == ServicesSpec => []NextAllowedIsFirst
  <1>1. ServicesOK => NextAllowedIsFirst
    BY DeferredToTheFirst DEF ServicesOK
  <1> QED
    BY <1>1, ServicesInvariant, PTL

\* An overdue request of credit terms is listed until somebody decides it.
THEOREM OverdueStaysListed == ServicesSpec => OverdueUntilDecided
  <1>1. ServicesOK /\ [ServicesNext]_allVars =>
        [\A r \in TermsRequests :
            /\ r \in Terms!Overdue =>
                  r \in Terms!Overdue' \/ request'[r].status \in {"approved", "denied"}
            /\ request[r].status \in {"approved", "denied", "resolved"} =>
                  r \notin Terms!Overdue']_termsVars
    BY StepOfEach, OverdueStep DEF ServicesOK
  <1> QED
    BY <1>1, ServicesInvariant, PTL
    DEF ServicesSpec, OverdueUntilDecided, Terms!OverdueUntilDecided, Terms!vars, termsVars

=============================================================================
