\* Two starts of each script: a rerun meets what the first one left.  Once all
\* documents are gone and no start is left, nothing happens any more.
SPECIFICATION RebuildSpec
CONSTANTS
    a1 = a1
    a2 = a2
    d1 = d1
    d2 = d2
    Canary = canary
    FormalCanary = canary
    canary = canary
    Archives = {a1, a2}
    Documents = {d1, d2}
    MaxFormalRuns = 2
    MaxPolicyRuns = 2
SYMMETRY Interchangeable
INVARIANTS
    ReadyKeepsVectors
    EndsAsPromised
    RebuildLeavesWholeSet
    RebuildKeepsEntries
CHECK_DEADLOCK FALSE
