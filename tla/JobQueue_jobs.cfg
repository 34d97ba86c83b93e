SPECIFICATION FairSpec
CONSTANTS
    j1 = j1
    j2 = j2
    blue = blue
    green = green
    NoJob = NoJob
    Jobs <- TwoJobs
    Containers <- Slots
    Faults <- WorkerFaults
    DeployEnds <- AnyDeploy
INVARIANTS
    TypeOK
    StartsBounded
PROPERTIES
    StartsInOrder
    EndsStay
    PositionOnlyFalls
    EveryJobEnds
