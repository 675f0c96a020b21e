SPECIFICATION FairSpec
CONSTANTS
    u = u
    n = n
    d = d
    t1 = t1
    t2 = t2
    w1 = w1
    d1 = d1
    d2 = d2
    v1 = v1
    Addr <- MCAddr
    Tasks = {}
    Withdraws = {}
    Deposits <- OneDeposit
    Vestings <- OneVesting
    Creator <- MCCreator
    Node <- MCNode
    Dao = d
    FeeAddr = d
    TaskFee = 2
    DaoShare = 1
    WithdrawalFee = 1
    Owner <- MCOwner
    Benefit <- MCBenefit
    Amount <- MCAmount
    MaxPerDay = 2
    InitialBalance <- Rows
    BatchSize = 1
    FaultKinds = {"crash", "projector", "reorg"}
    MaxFaults = 2
    SerialWallet = TRUE
INVARIANT CacheFollowsLog
INVARIANT VestingReleasesStand
PROPERTY SlashedReleasesNothing
PROPERTY EventsSettle
CHECK_DEADLOCK FALSE
