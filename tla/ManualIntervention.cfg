SPECIFICATION InterventionSpec
CONSTANTS
    Processes = {p1, p2}
    People = {ann, bob}
    MaxTime = 1
    MaxLetters = 2
    Calls = {first, second}
INVARIANTS
    ProcessedWasApproved
    ProcessedLeavesTrace
    RecordsAreKept
SYMMETRY Symmetry
CHECK_DEADLOCK FALSE
