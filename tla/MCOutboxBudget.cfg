\* Two senders race through a daily budget of one message in batches of two.
SPECIFICATION Spec
CONSTANTS
    Messages = {m1, m2, m3, m4}
    Senders = {s1, s2}
    Reconcilers = {}
    Payers = {}
    MpesaPayers = {}
    Hooks = {}
    NoProc = NoProc
    NoMsg = NoMsg
    MaxRetries = 1
    BatchSize = 2
    DailyBudget = 1
    Adapter = "contract"
    MaxAborts = 0
SYMMETRY Symmetry
INVARIANTS BudgetOvershoot
CHECK_DEADLOCK FALSE
