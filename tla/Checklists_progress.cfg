\* Two requests: every one is answered, deadlocks included.
SPECIFICATION FairSpec
CONSTANTS
    r1 = r1
    r2 = r2
    i1 = i1
    d1 = d1
    c1 = c1
    c2 = c2
    Nobody = Nobody
    Requests = {r1, r2}
    Items = {i1}
    Documents = {d1}
    Criteria = {c1, c2}
    MaxVersion = 3
PROPERTIES
    EveryRequestEnds
