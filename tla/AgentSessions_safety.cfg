\* Two requests, each a message, a refresh or a logout, on one login session;
\* one tool call each, one crash; the second starts beside the first or after it.
SPECIFICATION Spec
CONSTANTS
    r1 = r1
    r2 = r2
    s1 = s1
    Requests = {r1, r2}
    Logins = {s1}
    MaxCalls = 1
    MaxThread = 4
    MaxBeside = 1
    MaxFaults = 1
SYMMETRY RequestSymmetry
INVARIANTS
    TypeOK
    AnswersAreOwn
    CallsAudited
PROPERTIES
    LogoutIsFinal
\* Nothing is left to do when the requests are served.
CHECK_DEADLOCK FALSE
