SPECIFICATION Spec
CONSTANTS
    a1 = a1
    a2 = a2
    c1 = c1
    p1 = p1
    p2 = p2
    k1 = k1
    None = None
    Address = {a1, a2}
    Channels = {c1}
    Requests = {p1, p2}
    Setups = {k1}
    Timestamps = {1, 2}
    Payments <- MCPayments
    Balance <- MCChannelBalance
    Expiry <- MCChannelExpiry
    MCBalance = 3
    MCExpiry = 2
    MaxRecipients = 2
    Skew = 1
    Faults = {"abort"}
    MaxSeq = 3
    MaxSigned = 3
    MaxTime = 1
SYMMETRY RequestSymmetry
INVARIANTS
    ReceiptPersisted
