SPECIFICATION FairSpec
CONSTANTS
    a = a  b = b  c = c  g = g
    Main = Main  NoTask = NoTask  NoFiber = NoFiber  NoInstance = NoInstance
    Tasks <- FourTasks
    NumFibers = 5
    MaxDependants = 2
    MaxWorkers = 2
    Programs <- AllPrograms
INVARIANTS
    TypeOK
    SleepersHaveNoWork
    NothingForgotten
    FibersReturnHome
    AllFibersReleased
PROPERTIES
    ImplementsTaskGraph
    CurrentFiberIsIdle
    EventuallyAllDone
CHECK_DEADLOCK FALSE
