CONSTANTS
    Launch = {l1, l2}
    NoLaunch = NoLaunch
    Modes <- MCModes
    WaitsForConnections = TRUE
    Kinds <- MCModes
    Task = {t1, t2}
    NoTask = NoTask
    FeedMax = 3
    StatusKeep = 2
    Pet = {"p1", "p2"}
    NoPet = NoPet
    AssetDirs <- MCAssetDirs
    NoDir = NoDir
    LengthOf <- MCLengthOf
    MaxLoads = 3
SPECIFICATION Spec
INVARIANTS
    NothingIsLeft
    KeysNameLaunches
    BusyTellsTheTruth
    SelectionsNameText
    PetShowsItsState
PROPERTIES
    SurfacesEnd
    ExitCompletes
