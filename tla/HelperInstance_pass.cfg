SPECIFICATION Spec
CONSTANTS
    e1 = e1  e2 = e2  e3 = e3
    NoThread = NoThread  NoFiber = NoFiber  Worker = Worker
    Threads <- ThreeThreads
    FiberUsers <- AllOrNone
    NumFibers = 4
    MaxCalls = 2
    MaxPending = 2
INVARIANTS
    TypeOK
    LeavesAsEntered
    FibersReturnToTheirThread
    OneThreadInside
    NothingIsStranded
CHECK_DEADLOCK FALSE
