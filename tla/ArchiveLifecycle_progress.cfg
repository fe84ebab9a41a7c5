\* No crash and no cancellation: what is started ends, what is indexed is found.
SPECIFICATION FairSpec
CONSTANTS
    r1 = r1
    r2 = r2
    TITLE = TITLE
    Requests = {r1, r2}
    Fields = {TITLE}
    Operations <- OperationsWithoutCancel
    MaxVersion = 5
    MaxFaults = 0
INVARIANTS
    IndexedMeansSearchable
PROPERTIES
    EveryRequestEnds
    RunningOperationEnds
