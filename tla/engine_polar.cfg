SPECIFICATION Spec
CONSTANTS
    a = a
    b = b
    Sources = {a, b}
    Sites = {a, b}
    Grids = {}
    Statics = {}
    NoSource = NoSource
    NoFrame = NoFrame
    NoEvent = NoEvent
    MaxTime = 3
    Ring = 2
    Ttl = 1
    GridMax = 2
    GridWindow = 2
    Channel = 1
    Commands = {"select", "navigate"}
    Faults = {}
SYMMETRY SiteSymmetry
INVARIANTS
    OneSource
    PinListed
    PinnedOnScreen
    ListedOnDisk
    
