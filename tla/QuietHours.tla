----------------------------- MODULE QuietHours -----------------------------
(***************************************************************************)
(* The quiet hours of a business as two services read them                 *)
(* (domain/quiet_hours.py, which nothing calls, and is_quiet_hours of      *)
(* domain/policy_service.py), and the gate of workers/sends.py, which asks *)
(* the second one with the hour of UTC.  Time is a number of slots since   *)
(* midnight UTC; the send worker polls in every slot.                      *)
(***************************************************************************)
EXTENDS Integers

CONSTANTS PerHour,      \* slots of an hour
          utcoffset,    \* hours of local time before UTC
          Starts, Ends  \* quiet_hours.start_hour, end_hour

QuietHoursAssumption ==
    PerHour \in Nat \ {0} /\ utcoffset \in 0..23 /\ Starts \subseteq 0..23 /\ Ends \subseteq 0..23

VARIABLES
    start, end,   \* the policy
    now,          \* slot of the day, UTC
    polled,       \* the worker has polled in this slot
    status,       \* of one message
    sentAt        \* when it was sent

vars == <<start, end, now, polled, status, sentAt>>

Day == 24 * PerHour
Slots == 0..(Day - 1)

Init ==
    /\ start \in Starts /\ end \in Ends /\ now \in Slots
    /\ polled = FALSE /\ status = "pending" /\ sentAt = now

-----------------------------------------------------------------------------
UtcHour(t) == (t % Day) \div PerHour
LocalHour(t) == UtcHour(t + utcoffset * PerHour)

\* QuietHoursService.is_within_quiet_hours.
IsWithinQuietHours(t) ==
    LET hour == LocalHour(t)
    IN  /\ start # end
        /\ IF start > end THEN hour >= start \/ hour < end ELSE start <= hour /\ hour < end

\* Fault: the hour the quiet hours end is one of them.
IsQuietInclusive(hour) ==
    IF start < end THEN start <= hour /\ hour <= end ELSE hour >= start \/ hour <= end

\* PolicyService.is_quiet_hours.
IsQuietHours(hour) ==
    IF start < end THEN start <= hour /\ hour < end ELSE hour >= start \/ hour < end

\* Fault: the end is always one of today.
EndOfToday(local) == local - (local % Day) + end * PerHour

\* The next end_hour:00 of local time.
NextEnd(local) ==
    LET today == local - (local % Day) + end * PerHour
    IN  IF today <= local THEN today + Day ELSE today

NextAllowedSendTime(t) ==
    IF IsWithinQuietHours(t)
    THEN NextEnd(t + utcoffset * PerHour) - utcoffset * PerHour
    ELSE t

\* The gate of poll_and_send_messages, with datetime.utcnow().hour.
PollAndSend ==
    /\ ~polled /\ polled' = TRUE
    /\ IF status = "pending" /\ ~IsQuietHours(UtcHour(now))
       THEN status' = "sent" /\ sentAt' = now
       ELSE UNCHANGED <<status, sentAt>>
    /\ UNCHANGED <<start, end, now>>

NextSlot == (now + 1) % Day

Tick ==
    /\ polled /\ polled' = FALSE
    /\ now' = NextSlot
    /\ UNCHANGED <<start, end, status, sentAt>>

Next == PollAndSend \/ Tick

Spec == Init /\ [][Next]_vars

LiveSpec == Spec /\ WF_vars(PollAndSend) /\ WF_vars(Tick)

-----------------------------------------------------------------------------
TypeOK ==
    /\ start \in Starts /\ end \in Ends /\ now \in Slots /\ polled \in BOOLEAN
    /\ status \in {"pending", "sent"} /\ sentAt \in Slots

\* A deferred message waits for the first moment it may be sent, for every
\* window, also one across midnight, and every hour: no allowed moment before
\* it, and it is allowed.
NextAllowedIsFirst ==
    LET next == NextAllowedSendTime(now)
    IN  /\ next >= now /\ ~IsWithinQuietHours(next)
        /\ \A t \in now..(next - 1) : IsWithinQuietHours(t)

\* Quiet hours end: a message is sent once a day at the latest, for every window
\* that has a beginning and an end.
NightEnds == (start # end) => <>(status = "sent")
=============================================================================
