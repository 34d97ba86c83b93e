SPECIFICATION FairSpec
CONSTANTS
    j1 = j1
    j2 = j2
    r1 = r1
    r2 = r2
    r3 = r3
    blue = blue
    NoJob = NoJob
    NoRun = NoRun
    Jobs <- TwoJobs
    Runs <- ThreeRuns
    Containers <- OneSlot
    Faults <- AllFaults
CHECK_DEADLOCK FALSE
INVARIANTS
    TypeOK
    ResultIsOwn
PROPERTIES
    RecordedRunIsLast
    EndsStay
    EveryOrderEnds
