\* A session that dies after its call makes the next batch send the SMS again.
SPECIFICATION Spec
CONSTANTS
    Messages = {m1}
    Senders = {s1}
    Reconcilers = {}
    Payers = {}
    MpesaPayers = {}
    Hooks = {}
    NoProc = NoProc
    NoMsg = NoMsg
    MaxRetries = 2
    BatchSize = 1
    DailyBudget = 2
    Adapter = "contract"
    MaxAborts = 1
SYMMETRY Symmetry
INVARIANTS AtMostOneSms
CHECK_DEADLOCK FALSE
