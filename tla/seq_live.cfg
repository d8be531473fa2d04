SPECIFICATION LiveSpec
CONSTANTS
    a1 = a1
    a2 = a2
    c1 = c1
    c2 = c2
    p1 = p1
    p2 = p2
    k1 = k1
    k2 = k2
    None = None
    Address = {a1, a2}
    Channels = {c1, c2}
    Requests = {p1, p2}
    Setups = {k1, k2}
    Timestamps = {1}
    Payments <- MCPaymentWithFee
    Balance <- MCChannelBalance
    Expiry <- MCChannelExpiry
    MCBalance = 3
    MCExpiry = 2
    MaxRecipients = 2
    Skew = 1
    Faults = {}
    MaxSeq = 2
    MaxSigned = 2
    MaxTime = 0
PROPERTIES
    EveryRequestAnswered
