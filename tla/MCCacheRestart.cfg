SPECIFICATION Spec
CONSTANTS
    u = u
    n = n
    d = d
    t1 = t1
    t2 = t2
    w1 = w1
    d1 = d1
    d2 = d2
    v1 = v1
    Addr <- MCAddr
    Tasks <- OneTask
    Withdraws = {}
    Deposits = {}
    Vestings = {}
    Creator <- MCCreator
    Node <- MCNode
    Dao = d
    FeeAddr = d
    TaskFee = 2
    DaoShare = 1
    WithdrawalFee = 1
    Owner <- MCOwner
    Benefit <- MCBenefit
    Amount <- MCAmount
    MaxPerDay = 2
    InitialBalance <- Rows
    BatchSize = 2
    FaultKinds = {"crash"}
    MaxFaults = 1
    SerialWallet = TRUE
INVARIANT QuiescentCacheAgrees
CHECK_DEADLOCK FALSE
