SPECIFICATION WidgetsSpec
CONSTANTS
    Fields = {"reel"}
    Texts = {"", "("}
    EmptyText = ""
    Frames <- MCFrames
    Broken = {"("}
    Toggles = {"regex"}
    TrackKinds <- MCTrackKinds
    EditTypes <- MCEditTypes
    EventFields <- MCEventFields
    NoTemplate = NoTemplate
    t1 = t1
    t2 = t2
    Names = {"a", "b"}
    Projections <- MCProjections
    InitialCatalogs <- MCInitialCatalogs
    MaxRows = 2
    MaxCommands = 1
    MaxSaved = 1
INVARIANTS
    WindowAgrees
    OnlyAFileThatLeftIsReplacedUnasked
