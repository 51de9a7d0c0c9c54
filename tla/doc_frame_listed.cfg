SPECIFICATION Spec
CONSTANTS
    a = a
    Sources = {a}
    Sites = {a}
    Grids = {}
    Statics = {}
    NoSource = NoSource
    NoFrame = NoFrame
    NoEvent = NoEvent
    MaxTime = 3
    Ring = 2
    Ttl = 1
    GridMax = 2
    GridWindow = 2
    Channel = 1
    Commands = {"select"}
    Faults = {}
INVARIANTS
    FrameIsListed
