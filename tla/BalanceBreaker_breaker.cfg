SPECIFICATION FairSpec
CONSTANTS
    c1 = c1
    c2 = c2
    c3 = c3
    jobs = jobs
    mini = mini
    getJobs = getJobs
    board = board
    NoCall = NoCall
    Calls <- ThreeCalls
    Routes <- JobsAndMini
    Unchecked <- GetJobs
    Lookers <- Board
    Floor <- Floors
    Amounts <- Balances
    Trip = 2
CHECK_DEADLOCK FALSE
INVARIANTS
    OneReader
PROPERTIES
    FlakyReadsDoNotTrip
    LowestIsEnforced
    EveryCallIsJudged
