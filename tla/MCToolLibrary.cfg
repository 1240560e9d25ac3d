SPECIFICATION Spec
CONSTANTS
    Truncated = Truncated
    Garbled = Garbled
    Absent = Absent
    NoOp = NoOp
    Process = {p1, p2}
    Pattern = {g}
    Added = {s1, s2}
    MinSuccesses = 1
    AutoActivate = TRUE
    MaxObservations = 2
    RunsScripts = TRUE
    MaxRegistrations = 2
    MaxChanges = 3
    Proc = {p3, p4}
    Row = {x1}
    FileId = {f1, f2, f3}
    NoFile = NoFile
    MaxSecond = 1
INVARIANTS
    ScriptsNeedReview
    RowsAreKept
SYMMETRY Interchangeable
PROPERTY ToolsSurviveAlone
