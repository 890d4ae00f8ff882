\* Two senders, the reconciliation worker and an M-Pesa payment, which rolls back, on two
\* messages; one session may die before its commit; they implement MessageLifecycle.
SPECIFICATION Spec
CONSTANTS
    Messages = {m1, m2}
    Senders = {s1, s2}
    Reconcilers = {r1}
    Payers = {p1}
    MpesaPayers = {p1}
    Hooks = {}
    NoProc = NoProc
    NoMsg = NoMsg
    MaxRetries = 2
    BatchSize = 2
    DailyBudget = 2
    Adapter = "contract"
    MaxAborts = 1
SYMMETRY Symmetry
INVARIANTS TypeOK ClaimExclusive RetryBudget DuplicatesNeedACrash
PROPERTY ImplementsLifecycle
CHECK_DEADLOCK FALSE
