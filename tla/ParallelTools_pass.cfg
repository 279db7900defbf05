SPECIFICATION ToolsSpec
CONSTANTS
    MaxTasks = 5
    MaxLength = 5
    Workers = 2
    MaxRanges = {0, 2}
    Keys = {0, 1}
    MaxElements = 6
    MaxCutOff = 4
    StorageSize = 3
    MaxObjectSize = 4
    MaxObjects = 3
    MaxUses = 2
INVARIANTS
    ToolsTypeOK RangesAreSorted TrueMeansSorted AllTasksAreReleased
    CalledAtMostOnce ForEachFramesOutliveTheirTasks
    RoundTrip LambdaIsIntact
PROPERTY CallsSucceed
CHECK_DEADLOCK FALSE
