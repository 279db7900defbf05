SPECIFICATION QueuesSpec
CONSTANTS
    p1 = p1  p2 = p2  p3 = p3  x1 = x1  x2 = x2
    NoItem = NoItem
    Threads <- ThreeThreads
    Items <- TwoItems
    Size = 2
    CounterModulus = 8
    MaxWrites = 4
SYMMETRY Symmetry
INVARIANTS
    QueuesTypeOK
    SlotsAreExclusive
    SizeIsExact
PROPERTY
    ImplementsPtrQueue
