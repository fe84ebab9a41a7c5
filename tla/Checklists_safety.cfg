\* Three requests on one item and one document: two may deadlock, or one
\* overtake another, while a third works.  Version 3 allows two updates of the
\* item in a row and two that overlap.
SPECIFICATION Spec
CONSTANTS
    r1 = r1
    r2 = r2
    r3 = r3
    i1 = i1
    d1 = d1
    c1 = c1
    c2 = c2
    Nobody = Nobody
    Requests = {r1, r2, r3}
    Items = {i1}
    Documents = {d1}
    Criteria = {c1, c2}
    MaxVersion = 3
SYMMETRY ChecklistSymmetry
INVARIANTS
    LinkFitsItem
    NoDanglingLink
    ConfirmedAsSeen
    DeadlockNeedsDeletion
