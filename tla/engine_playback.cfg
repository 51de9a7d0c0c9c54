SPECIFICATION Spec
CONSTANTS
    a = a
    Sources = {a}
    Sites = {a}
    Grids = {}
    Statics = {}
    NoSource = NoSource
    NoFrame = NoFrame
    NoEvent = NoEvent
    MaxTime = 4
    Ring = 2
    Ttl = 2
    GridMax = 2
    GridWindow = 2
    Channel = 1
    Commands = {"select", "navigate", "play", "pause"}
    Faults = {}
INVARIANTS
    NoLostWakeup
    FollowingShowsSweep
PROPERTIES
    PinHoldsScreen
