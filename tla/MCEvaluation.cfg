CONSTANTS
    Nothing = Nothing
    v = v
    x = x
    y = y
    People = {v, x, y}
    Quotes <- MCQuotes
    Telling <- MCTelling
    TopScore = 2
    Threshold = 2
    RequireMutual = TRUE
    RequireIntent = TRUE
    MaxPerRequest = 1
    c1 = c1
    c2 = c2
    Calls = {c1, c2}
    Requests <- MCRequests
    Replies <- MCReplies
    Found <- MCFound
    Troubles <- MCTroubles
    Fields = {"in", "out"}
    Configured = TRUE
    MaxConcurrent = 1
    MaxAttempts = 2
    BatchSize = 2
    MaxOutput = 2
    Overhead = 1
    PerCandidate = 1
SPECIFICATION FairSpec
INVARIANTS
    TypeOK
    AnswersTheRequest
    EvaluatedByOneEntry
    NoticesAreGrounded
    UsageIsHonest
    BatchesFit
    NothingOutlivesItsCall
PROPERTIES
    StoredIsTakenOver
    KeepsPromise
    CallsEnd
