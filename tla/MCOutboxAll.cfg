\* Every writer of one row at once, all tasks fair: two senders, the reconciliation worker,
\* a payment that suppresses the reminder, two webhook calls; two sessions may die.
SPECIFICATION LiveSpec
CONSTANTS
    Messages = {m1}
    Senders = {s1, s2}
    Reconcilers = {r1}
    Payers = {p1}
    MpesaPayers = {}
    Hooks = {h1, h2}
    NoProc = NoProc
    NoMsg = NoMsg
    MaxRetries = 2
    BatchSize = 1
    DailyBudget = 2
    Adapter = "contract"
    MaxAborts = 2
INVARIANTS InductiveInvariant SentWasAccepted DeliveredWasReported
PROPERTIES NoResendFromSent PendingDrains
CHECK_DEADLOCK FALSE
