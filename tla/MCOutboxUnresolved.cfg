\* Ambiguous outcomes with the Africa's Talking adapter, all tasks running fairly, and
\* a webhook that would take a report: the reconciliation asks for ever.
SPECIFICATION LiveSpec
CONSTANTS
    Messages = {m1}
    Senders = {s1}
    Reconcilers = {r1}
    Payers = {}
    MpesaPayers = {}
    Hooks = {h1}
    NoProc = NoProc
    NoMsg = NoMsg
    MaxRetries = 2
    BatchSize = 1
    DailyBudget = 2
    Adapter = "africas_talking"
    MaxAborts = 0
PROPERTIES UnknownResolves
CHECK_DEADLOCK FALSE
