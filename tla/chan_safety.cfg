SPECIFICATION Spec
CONSTANTS
    o1 = o1
    r1 = r1
    r2 = o1
    None = None
    Escrow = Escrow
    Zero = Zero
    Address = {o1, r1, Escrow, Zero}
    Owners = {o1}
    Amounts = {3}
    Expiries = {1, 2, 3}
    Supply <- MCSupply
    Calls <- MCCalls
    Skew = 1
    Lifetime = 2
    MaxOpens = 4
    MaxTime = 4
INVARIANTS
    TypeOK
    Solvent
    IndexConsistent
    ExpiredClosable
PROPERTIES
    PublishedIsFloor
