SPECIFICATION FairSpec
CONSTANTS
    NoProbe = NoProbe
    NoRow = NoRow
    Caller = {c1, c2}
    Probe = {t1, t2, t3}
    Setting = {s1, s2}
    MaxTime = 2
    SuccessTtl = 2
    FailureTtl = 1
    MaxChanges = 2
INVARIANTS
    ProbesCoalesce
    AnswersAreTrue
PROPERTY CallersAnswered
