CONSTANTS
    p1 = p1
    p2 = p2
    q1 = q1
    q2 = q2
    o1 = o1
    None = None
    Processes <- MCProcesses
    Readers <- MCReaders
    Operators <- MCOperators
    Home <- MCHome
    Categories <- MCCategories
    LiveSignals <- MCLiveSignals
    FirstSignals <- MCFirstSignals
    InitialStores <- MCInitialStores
    EventBound = 4
SPECIFICATION Spec
INVARIANTS
    RepairsTellTheTruth
PROPERTY
    CountsAreTrue
CHECK_DEADLOCK FALSE
