CONSTANTS
    None = None
    Users = {a, b}
    Identifiers = {i1, i2}
    Window = 1
    RefreshAfter = 1
    Ttl = 1
    MaxTime = 2
    MaxHandlers = 2
SYMMETRY Symmetry
SPECIFICATION Spec
INVARIANT OffDropsObservations
