CONSTANTS
    Plan = {q1, q2, q3}
    Ttl = 1
    MaxTime = 3
    TaskId = {t1}
    Agent = {a1, a2}
    Nobody = Nobody
    MaxEvents = 5
    Process = {p1, p2}
    TaskKey = {k1}
    Writer = {w1, w2}
    Scope <- MCScope
    Scopes <- MCScopes
    MaxRecords = 3
    Runner = {r1, r2}
    Commit = {c1, c2}
    NoCommit = NoCommit
    Unreadable = Unreadable
    MaxTries = 3
    Saver = {"t1", "t2", "w"}
    ProcessOf <- MCProcessOf
    Name = {"n1"}
    Wizard <- MCWizard
    MaxSaves = 3
    NoInode = NoInode
    Provider = {v1, v2}
    Refresh = {f1, f2}
    QuotaCall = {u1}
    MaxCalls = 2
SYMMETRY Symmetry
SPECIFICATION Spec
INVARIANT SavesAreAtomic
