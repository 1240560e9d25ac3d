SPECIFICATION FairSpec
CONSTANTS
    a = a
    b = b
    c = c
    None = None
    Never = Never
    Plan = {p1}
    Ttl = 0
    MaxTime = 1
    Provider <- MCProvider
    Chain <- MCChain
    ByScore <- MCByScore
    Paid <- MCPaid
    BelowFloor <- MCBelowFloor
    ResetDelays <- MCResetDelays
    DailyCap = 0
    DefaultConsent = "paid_only"
    MaxChanges = 0
INVARIANT PaidCallsApproved
