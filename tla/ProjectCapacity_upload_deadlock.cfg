\* Two uploads of large files and nothing else.
\* Uploads may block the event loop for ever, so the system may stop.
SPECIFICATION FairSpec
CONSTANTS
    u1 = u1
    u2 = u2
    A = A
    B = B
    Nobody = Nobody
    Uploads = {u1, u2}
    Threads = {}
    ThreadOperations = {}
    Contents = {A, B}
    Spooled = {A, B}
    Capacity = 2
    MaxVersion = 1
CHECK_DEADLOCK FALSE
PROPERTY
    EveryUploadEnds
