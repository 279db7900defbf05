SPECIFICATION Spec
CONSTANTS
    a = a  b = b  c = c  g = g
    Main = Main  NoTask = NoTask  NoFiber = NoFiber  NoInstance = NoInstance
    Tasks <- ThreeTasks
    NumFibers = 4
    MaxDependants = 2
    MaxWorkers = 2
    Programs <- AstrayPrograms
INVARIANTS
    FibersReturnHome
CHECK_DEADLOCK FALSE
