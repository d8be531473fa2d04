SPECIFICATION LiveSpec
CONSTANTS
    k1 = k1
    k2 = k2
    None = None
    Clients = {k1, k2}
    Mode1 = "batch"
    Mode2 = "benchmark"
    Mode <- MCMode
    Supply = 2
    Amount = 1
    Deposit <- MCDeposit
    Lifetime = 1
    MaxFaults = 1
    MaxTime = 2
PROPERTIES
    EventuallyCanPay
