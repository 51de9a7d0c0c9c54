SPECIFICATION Spec
CONSTANTS
    mrms = mrms
    opera = opera
    fixture = fixture
    Sources = {mrms, opera, fixture}
    Sites = {}
    Grids = {mrms, opera}
    Statics = {fixture}
    NoSource = NoSource
    NoFrame = NoFrame
    NoEvent = NoEvent
    MaxTime = 4
    Ring = 2
    Ttl = 2
    GridMax = 2
    GridWindow = 3
    Channel = 1
    Commands = {"select", "follow", "lock", "view", "navigate", "play"}
    Faults = {}
INVARIANTS
    FollowingShowsNewest
    ListedHasTexture
PROPERTIES
    
    LockPinsSelection
