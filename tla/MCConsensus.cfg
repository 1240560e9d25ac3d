SPECIFICATION FairSpec
CONSTANTS
    a = a
    b = b
    c = c
    u = u
    None = None
    Never = Never
    Plan = {p1}
    Ttl = 0
    MaxTime = 1
    Provider <- MCProvider
    Chain <- MCChain
    ByScore <- MCByScore
    Paid <- MCPaid
    Unpriced <- MCUnpriced
    Avoidable <- MCAvoidable
    BelowFloor = {}
    DailyCap = 2
    DefaultConsent = "paid_only"
    Opinion = {yes, no}
    VoterCounts = {1, 2, 3}
    MaxParallel = 1
    MaxChanges = 2
INVARIANTS
    BilledCallsCleared
    SynthesisSeesEveryVote
    CompletedOnEvidence
    LedgerFollowsRun
PROPERTIES
    QuorumIsIndependent
    ConsensusEnds
