\* Services, webhook, polls, task and staff on two payments; polls do not overlap, nor do
\* members of staff; one session may die.
SPECIFICATION ApartSpec
CONSTANTS
    Txns = {1, 2}
    Due <- MCDue
    MpesaRefs = {r1, r2}
    CsvRefs = {1}
    Amount <- MCAmount
    AccountRef <- MCAccountRef
    RecordTxn <- MCRecordTxn
    C2B = {c1, c2}
    STK = {k1}
    Confirms = {h1}
    Polls = {p1, p2}
    MpesaTasks = {t1}
    Staff = {s1, s2}
    Together <- MCTogether
    Item <- MCItem
    Target <- MCTarget
    Connector = "conforming"
    NoTxn = NoTxn
    NoTask = NoTask
    NoRef = NoRef
    NoRow = NoRow
    Early = {}
    MaxAborts = 1
    r1 = r1
    r2 = r2
    r3 = r3
    c1 = c1
    c2 = c2
    c3 = c3
    k1 = k1
    h1 = h1
    p1 = p1
    p2 = p2
    t1 = t1
    s1 = s1
    s2 = s2
INVARIANTS InductiveInvariant ConfirmedIffCredited CreditedOnce NoMoneyInvented
PROPERTY ImplementsLedger
CHECK_DEADLOCK FALSE
