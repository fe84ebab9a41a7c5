\* As LegacyChat_safety, with an exchange stored before the answer got a time of
\* its own.
SPECIFICATION Spec
CONSTANTS
    w1 = w1
    w2 = w2
    c1 = c1
    c2 = c2
    Workers = {w1, w2}
    MaxFaults = 0
    Askers = {c1, c2}
    Times = {1, 2}
    OldExchanges = {0}
    HistoryLimit = 2
SYMMETRY Symmetry
INVARIANT
    HistoryInWholeExchanges
\* Nothing is left to do when the document is gone and all times are used.
CHECK_DEADLOCK FALSE
