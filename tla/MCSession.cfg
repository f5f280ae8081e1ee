CONSTANTS
    Requests = {r1, r2}
    Calls = {c1, c2, c3}
    MaxChanges = 2
    MaxReloads = 1
    None = None
SPECIFICATION Spec
INVARIANTS
    TypeOK
    OneUserPerInstallation
    AcknowledgedStays
SYMMETRY Alike
