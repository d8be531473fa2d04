SPECIFICATION LiveSpec
CONSTANTS
    k1 = k1
    k2 = k2
    h1 = h1
    h2 = h2
    None = None
    Payee = Payee
    Clients = {k1}
    Mode1 = "batch"
    Mode2 = "batch"
    Mode <- MCMode
    Handlers = {h1, h2}
    Price = 2
    Balance = 5
    Expiry = 2
    RefusalStatus = 400
    MaxFaults = 2
    MaxTime = 2
INVARIANTS
    CacheInStep
    SteadyWorkPaid
PROPERTIES
    StaleCacheRecovers
    EveryPaymentAnswered
