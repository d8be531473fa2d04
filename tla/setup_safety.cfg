SPECIFICATION Spec
CONSTANTS
    k1 = k1
    k2 = k2
    None = None
    Clients = {k1, k2}
    Mode1 = "batch"
    Mode2 = "benchmark"
    Mode <- MCMode
    Supply = 2
    Amount = 1
    Deposit <- MCDeposit
    Lifetime = 2
    MaxFaults = 1
    MaxTime = 3
INVARIANTS
    TypeOK
PROPERTIES
    ListFaithful
    OpensOnlyWithout
