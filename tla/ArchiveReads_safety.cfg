\* One reader and two documents; readers do not disturb each other.  Version 3
\* leaves room for a draft, its confirmation and an edit.
SPECIFICATION Spec
CONSTANTS
    r1 = r1
    d1 = d1
    d2 = d2
    Nowhere = Nowhere
    Readers = {r1}
    Documents = {d1, d2}
    Operations = {"RETRIEVE", "DIAGNOSE", "ASK", "LIST", "DETAIL", "DRAFT", "PROCESS_LIST"}
    Chunks = {1, 2, 3}
    DocumentOf <- MCDocumentOf
    Distance <- MCDistance
    Scores = {0, 1}
    Threshold = 1
    CandidateK = 3
    TopK = 2
    MaxVersion = 3
INVARIANTS
    TypeOK
    OnlyFormalContentShown
    CurrentPageIsTrue
    RankingReproducible
    DiagnosisExplainsRetrieval
    AnswersRestOnEvidence
PROPERTY
    DocumentsFollowFormalArchive
