\* Each service by itself, with the callers, deaths and errors it may meet.
SPECIFICATION ServicesLiveSpec
CONSTANTS
    Callers = {c1, c2, c3}
    failure_threshold = 2
    cooldown_seconds = 2
    NoKey = None
    MaxDeaths = 1
    Requests = {q1, q2, q3}
    Readers = {r1, r2}
    Watchers = {w1, w2}
    Messages = {m1, m2}
    TermsRequests = {t1, t2}
    Staff = {s1, s2}
    limit = 2
    window_seconds = 3
    Ttl = 3
    MaxSaves = 2
    MaxRedisErrors = 1
    MaxChanges = 3
    PerHour = 2
    utcoffset = 3
    Starts = {0, 7, 20, 23}
    Ends = {0, 6, 7, 21}
    SLA_HOURS = 1
    None = None
    Parts <- AllParts
INVARIANTS ServicesTypeOK FlagIsAnAnswer BurstBound NextAllowedIsFirst
PROPERTIES Recovers TripsAgain LetInAgain PolicyConverges NightEnds OverdueUntilDecided
CHECK_DEADLOCK FALSE
