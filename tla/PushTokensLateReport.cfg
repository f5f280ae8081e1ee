CONSTANTS
    None = None
    Users = {a, b}
    Tokens = {t1, t2}
    Ttl = 1
    MaxLag = 1
    MaxTime = 3
    Deliveries = {d1}
SYMMETRY Symmetry
SPECIFICATION Spec
PROPERTY LateReportSparesNewOwner
