SPECIFICATION Spec
CONSTANTS
    x = x
    y = y
    z = z
    Fees = {0, 1, 7, 100}
    Percents = {0, 5, 100}
    Shares = {0, 33}
    Delegators <- MCDelegators
    Stakes = {1, 3}
INVARIANT SplitIsExact
INVARIANT DelegatorsShareByStake
INVARIANT GroupNotUnderpaid
CHECK_DEADLOCK FALSE
