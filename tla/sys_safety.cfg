SPECIFICATION SystemSpec
CONSTANTS
    o1 = o1
    None = None
    r1 = r1
    Payee = r1
    Address = {o1, r1, Escrow}
    Owners = {o1}
    Escrow = Escrow
    Zero = Zero
    Tokens = 4
    Supply <- MCSupply
    Amounts = {2}
    Expiries = {2}
    Calls = {}
    Skew = 1
    Lifetime = 2
    MaxOpens = 3
    MaxTime = 3
    MaxSent = 2
INVARIANTS
    SystemTypeOK
PROPERTIES
    ClosingPaysAccepted
    SentClosingLands
    DepositReleased
    ImplementsPromise
CHECK_DEADLOCK FALSE
