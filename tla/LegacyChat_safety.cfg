\* Two requests on the document, two questions; two exchanges are stored
\* at neighbouring times, and the history takes one of them.
SPECIFICATION Spec
CONSTANTS
    w1 = w1
    w2 = w2
    c1 = c1
    c2 = c2
    Workers = {w1, w2}
    MaxFaults = 1
    Askers = {c1, c2}
    Times = {1, 2}
    OldExchanges = {}
    HistoryLimit = 2
SYMMETRY Symmetry
INVARIANTS
    ReadyMeansSearchable
    DeletedLeavesNothing
    HistoryInWholeExchanges
    AnswersCiteNoDeletedDocument
\* Nothing is left to do when the document is gone and all times are used.
CHECK_DEADLOCK FALSE
