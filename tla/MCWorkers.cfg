\* Each task by itself, with the deaths and faults it may meet.
SPECIFICATION WorkersLiveSpec
CONSTANTS
    Job = "worker"
    Key = "fernet"
    keep_daily = 2
    keep_weekly = 1
    DaysOfWeek = 3
    Faults = {"dump", "write", "unlink", "death"}
    LastDay = 7
    MaxFaults = 2
    Messages = {m1, m2}
    Contacts = {c1}
    Transactions = {t1}
    Campaigns = {p1, p2}
    Members = {k1}
    Workers = {w1, w2}
    Rows = {r1, r2}
    None = None
    Bodies <- Texts
    DueDates <- TwoWeeksAhead
    MIN_SAMPLE_SIZE = 2
    Percent = 50
    max_per_customer_per_week = 3
    LastReminderDay = 16
    MaxOrders = 2
    MaxMessages = 4
    MaxReopened = 1
    MaxMinutes = 1
    MaxCrashes = 1
    Parts <- AllParts
INVARIANTS
    WorkersTypeOK WorkingBackup RecoveryPoints ProcessedIffAnswered AnsweredTwiceNeedsACrash
    OneReminderADay RateIsAFraction
PROPERTIES
    EveryMessageAnswered LateDebtIsNoticed EveryDueCampaignTried FailuresAreReported
CHECK_DEADLOCK FALSE
