CONSTANTS
    v = v
    x = x
    Users = {v, x}
    Viewers = {v}
    Workers = {w1, w2}
    Calls = {j1, j2}
    Keys <- MCKeys
    Cap = 1
    Absent = Absent
    None = None
    AskTicks = 1
    ClaimTicks = 0
    Slack = 1
    MaxChanges = 1
    MaxTroubles = 1
SPECIFICATION Spec
INVARIANTS
    TypeOK
    InflightBelongsToJobs
    OnePaidEvaluation
    NoticedOnce
PROPERTIES
    LeaseOnlyByOwner
SYMMETRY Alike
