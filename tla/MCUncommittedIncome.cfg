SPECIFICATION Spec
CONSTANTS
    u = u
    n = n
    d = d
    t1 = t1
    t2 = t2
    w1 = w1
    d1 = d1
    d2 = d2
    v1 = v1
    Addr <- MCAddr
    Tasks <- TwoTasks
    Withdraws = {}
    Deposits = {}
    Vestings = {}
    Creator <- ChainCreator
    Node <- MCNode
    Dao = d
    FeeAddr = d
    TaskFee = 2
    DaoShare = 1
    WithdrawalFee = 1
    Owner <- MCOwner
    Benefit <- MCBenefit
    Amount <- MCAmount
    MaxPerDay = 2
    InitialBalance <- Rows
    BatchSize = 2
    FaultKinds = {}
    MaxFaults = 0
    SerialWallet = TRUE
INVARIANT PaymentStands
CHECK_DEADLOCK FALSE
