SPECIFICATION Spec
CONSTANTS
    t1 = t1  t2 = t2  t3 = t3  f1 = f1  f2 = f2  c1 = c1
    NoTask = NoTask
    NoClient = NoClient
    Tasks <- TwoTasks
    Fibers <- TwoFibers
    Clients <- OneClient
    MaxDependants = 2
    SubmitOrder = "dependantsFirst"
    ReleaseTime = "finished"
INVARIANT PrerequisitesFinishFirst
