SPECIFICATION DaemonSpec
CONSTANTS
    Connections = {"c1", "c2"}
    QueueCap = 2
    ClientsMax = 2
    MaxState = 3
    MaxReplies = 1
    Launchers = {11, 12}
    Pids = {1, 2, 3}
    MaxCrashes = 1
    MaxLate = 1
    MaxRaces = 1
    RetireAfter = 2
    MosaicRing = 2
    TextureBudget = 3
    MaxTextures = 4
    MaxSeconds = 6
    MaxRestartsOfAll = 1
    RingSize = 2
    Lifetime = 1
    MaxClock = 3
    MaxStores = 3
    MaxMishaps = 1
    Stations = {"a", "b"}
    StaleAfter = 1
    UnavailableAfter = 2
    EventCap = 1
    MaxTicks = 5
    MaxSelects = 2
    Dishes = {6, 11, 24}
    Radius = 8
    Mosaics <- Overlapping
    Line <- Places
    NoDish = 99
    Slices = 6
    Gap = 2
    Advances = {0, 2, 7}
    Codes = {1, 2, 9}
    Bounds <- Bands
    Classes = 2
    MaxRadials = 3
    Source = s
    NoFrame = NoFrame
    MaxTime = 4
    Ring = 3
    Window = 3
    MaxFrames = 2
 
INVARIANT SocketIsOwners
INVARIANT ReadyLasts
INVARIANT FilesServeTheirTime
INVARIANT RowsHaveFiles
INVARIANT DrawsNearest
PROPERTY UnreadableIsGone
 
PROPERTY NoHandBack
PROPERTY EqualsStay
PROPERTY ImplementsHistory
PROPERTY FreshInTheEnd
 
CHECK_DEADLOCK FALSE
