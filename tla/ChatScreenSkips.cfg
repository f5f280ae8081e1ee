CONSTANTS
    None = None
    Peers = {a, b}
    Limit = 1
    MaxStored = 2
SPECIFICATION Spec
INVARIANT NeverSkipped
