\* The Twilio adapter does not find a message it has sent.
SPECIFICATION Spec
CONSTANTS
    Messages = {m1}
    Senders = {s1}
    Reconcilers = {r1}
    Payers = {}
    MpesaPayers = {}
    Hooks = {}
    NoProc = NoProc
    NoMsg = NoMsg
    MaxRetries = 2
    BatchSize = 1
    DailyBudget = 2
    Adapter = "twilio"
    MaxAborts = 0
SYMMETRY Symmetry
INVARIANTS DuplicatesNeedACrash
CHECK_DEADLOCK FALSE
