SPECIFICATION FairSpec
CONSTANTS
    a = a
    Sources = {a}
    Sites = {a}
    Grids = {}
    Statics = {}
    NoSource = NoSource
    NoFrame = NoFrame
    NoEvent = NoEvent
    MaxTime = 2
    Ring = 2
    Ttl = 2
    GridMax = 2
    GridWindow = 2
    Channel = 1
    Commands = {"select", "view", "navigate", "play", "pause"}
    Faults = {"publish", "load", "list", "evict", "store"}
INVARIANTS
    IndInv
PROPERTIES
    PlaybackMoves
    ChannelDrains
