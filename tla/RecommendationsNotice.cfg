CONSTANTS
    v = v
    x = x
    Users = {v, x}
    Viewers = {v}
    Workers = {w1}
    Calls = {j1}
    Keys <- MCKeys
    Cap = 1
    Absent = Absent
    None = None
    AskTicks = 1
    ClaimTicks = 0
    Slack = 1
    MaxChanges = 1
    MaxTroubles = 0
SPECIFICATION Spec
PROPERTIES
    NoticeIsCurrent
