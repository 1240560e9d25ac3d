SPECIFICATION FairSpec
CONSTANTS
    NoSession = NoSession
    Client = {c1, c2, c3}
    Session = {s1, s2}
    MaxSessions = 1
INVARIANTS
    ClientsHaveTheirSlot
    ChildrenAreRegistered
PROPERTY LeftSessionsEnd
