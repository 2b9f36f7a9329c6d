SPECIFICATION WorkersFairSpec
CONSTANTS
    j1 = j1
    j2 = j2
    h1 = h1
    Jobs = {j1, h1}
    Held = {h1}
    Stops = {s1}
    Named = {}
    MaxRuns = 2
    NoJob = NoJob
    NoKind = NoKind
    Kinds <- AllKinds
    Program <- AllPrograms
    Route <- AllRoutes
    Choices <- OneJob
    Open <- OpenKinds
    Deaf <- DeafKinds
    MaxUnits = 2
INVARIANTS
    
    ResourcesGivenBack
    

    
    
CHECK_DEADLOCK FALSE
