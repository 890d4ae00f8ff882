\* Two reconciliation runs overlap: the later one resends a message already sent.
SPECIFICATION Spec
CONSTANTS
    Messages = {m1}
    Senders = {s1}
    Reconcilers = {r1, r2}
    Payers = {}
    MpesaPayers = {}
    Hooks = {}
    NoProc = NoProc
    NoMsg = NoMsg
    MaxRetries = 2
    BatchSize = 1
    DailyBudget = 2
    Adapter = "contract"
    MaxAborts = 0
SYMMETRY Symmetry
PROPERTIES NoResendFromSent
CHECK_DEADLOCK FALSE
