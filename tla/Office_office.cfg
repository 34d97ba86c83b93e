SPECIFICATION OfficeSpec
CONSTANTS
    Usine = {"u1"}
    Touched = {"discover", "research"}
    MaxEdits = 3
    UncheckedEdits = FALSE
    InContainer = {"controleur"}
    DeadRoutes = {"r1"}
    Diggers = {"d1", "d2"}
    MaxRuns = 2
    MaxRequests = 2
    MaxCount = 3
    Proposed = {"p1", "p2"}
    MaxAttempts = 3
INVARIANTS
    WorkIsDoneOnce
    RecordsAreTrue
    SoldIsPaidOrGone
    DocumentsTellTheTruth
PROPERTIES
    WorkComesBack
CHECK_DEADLOCK FALSE
