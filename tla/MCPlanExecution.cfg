SPECIFICATION FairSpec
CONSTANTS
    a = a
    b = b
    c = c
    None = None
    Never = Never
    Plan = {p1, p2}
    Ttl = 0
    MaxTime = 1
    Provider <- MCProvider
    Chain <- MCChain
    ByScore <- MCByScore
    Paid <- MCPaid
    BelowFloor <- MCBelowFloor
    ResetDelays <- MCResetDelays
    DailyCap = 1
    DefaultConsent = "paid_only"
    MaxChanges = 1
INVARIANTS
    LedgerFollowsPlan
    RoutesStayEligible
    CallsBounded
PROPERTY WorkEnds
