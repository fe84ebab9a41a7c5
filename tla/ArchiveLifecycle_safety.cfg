\* Two concurrent requests, every operation, one crash or unrecorded failure.
\* Version 7 allows: draft, an edit of each field, confirm, edit or cancel,
\* and confirm again, with deletion at any point.
SPECIFICATION Spec
CONSTANTS
    r1 = r1
    r2 = r2
    TITLE = TITLE
    KEYWORDS = KEYWORDS
    Requests = {r1, r2}
    Fields = {TITLE, KEYWORDS}
    Operations <- AllOperations
    MaxVersion = 7
    MaxFaults = 1
SYMMETRY RequestSymmetry
INVARIANTS
    TypeOK
    FormalContentApproved
    ExclusiveExternalWork
    DeletedLeavesNothing
PROPERTIES
    NoLostEdit
    StatusFollowsDiagram
    AiKeepsManualValues
    ImplementsFormalArchive
