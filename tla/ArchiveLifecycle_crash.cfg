\* One client and one crash: the RUNNING operation the crash leaves behind.
SPECIFICATION FairSpec
CONSTANTS
    r1 = r1
    TITLE = TITLE
    Requests = {r1}
    Fields = {TITLE}
    Operations = {"PARSE", "MANUAL_DRAFT", "UPDATE", "CONFIRM", "DELETE"}
    MaxVersion = 5
    MaxFaults = 1
PROPERTY
    RunningOperationEnds
