SPECIFICATION ToolsSpec
CONSTANTS
    MaxTasks = 5
    MaxLength = 5
    Workers = 2
    MaxRanges = {1}
    Keys = {0, 1}
    MaxElements = 6
    MaxCutOff = 4
    StorageSize = 3
    MaxObjectSize = 4
    MaxObjects = 3
    MaxUses = 2
INVARIANT TrueMeansSorted
CHECK_DEADLOCK FALSE
