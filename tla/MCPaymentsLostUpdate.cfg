\* Two M-Pesa payments for one transaction.
SPECIFICATION Spec
CONSTANTS
    Txns = {1}
    Due <- MCDue
    MpesaRefs = {r1, r3}
    CsvRefs = {}
    Amount <- MCAmount
    AccountRef <- MCAccountRef
    RecordTxn <- MCRecordTxn
    C2B = {c1, c3}
    STK = {}
    Confirms = {}
    Polls = {}
    MpesaTasks = {}
    Staff = {}
    Together <- TwoAtOnce
    Item <- MCItem
    Target <- MCTarget
    Connector = "conforming"
    NoTxn = NoTxn
    NoTask = NoTask
    NoRef = NoRef
    NoRow = NoRow
    Early = {1}
    MaxAborts = 0
    r1 = r1
    r2 = r2
    r3 = r3
    c1 = c1
    c2 = c2
    c3 = c3
    k1 = k1
    h1 = h1
    p1 = p1
    p2 = p2
    t1 = t1
    s1 = s1
    s2 = s2
INVARIANT StoredPaidIsReceived
CHECK_DEADLOCK FALSE
