SPECIFICATION Spec
CONSTANTS
    MaximumFiles = 3
    MaximumSize = 2
    Sizes = {1, 2}
    Missing = Missing
    Foreign = Foreign
    Bundle = Bundle
    MaxMessages = 2
INVARIANTS
    LogsAreInOrder
    LogsAreBounded
    BundleIsComplete
PROPERTIES
    OnlyTheOldestIsLost
    CloseLeavesNothingRunning
