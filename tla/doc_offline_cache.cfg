SPECIFICATION TilesSpec
CONSTANTS
    Users = {"u1", "u2"}
    Tile = {"k1", "k2"}
    Requests = {{"k1"}, {"k1", "k2"}}
    BadTiles = {"k2"}
    ChannelCap = 1
    InFlight = 1
    MaxFiles = 2
    Ceiling = 0
    Target = 0
    MaxRequests = 2
    MaxFaults = 1
PROPERTY OfflineServesCached
CHECK_DEADLOCK FALSE
