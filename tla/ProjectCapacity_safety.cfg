\* Two uploads and two threads around the capacity limit, large and small files.
\* Uploads may block the event loop for ever, so the system may stop.
SPECIFICATION Spec
CONSTANTS
    u1 = u1
    u2 = u2
    t1 = t1
    t2 = t2
    A = A
    B = B
    C = C
    Nobody = Nobody
    Uploads = {u1, u2}
    Threads = {t1, t2}
    ThreadOperations <- AllThreadOperations
    Contents = {A, B, C}
    Spooled = {A, B}
    Capacity = 2
    MaxVersion = 3
SYMMETRY RequestSymmetry
CHECK_DEADLOCK FALSE
INVARIANTS
    TypeOK
    AcceptedStillFits
    CountExactUnlessStale
    NoDocumentWithoutProject
    NoDuplicateItem
