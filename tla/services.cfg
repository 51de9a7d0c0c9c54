SPECIFICATION ServicesSpec
CONSTANTS
    Users = {"u1", "u2"}
    Tile = {"k1", "k2"}
    Requests = {{"k1"}, {"k1", "k2"}}
    BadTiles = {"k2"}
    ChannelCap = 1
    InFlight = 1
    MaxFiles = 2
    Ceiling = 0
    Target = 0
    MaxRequests = 2
    MaxFaults = 1
    Askers = {"a1", "a2"}
    Asks <- Views
    Reach = 1
    Pad = 1
    Ranked = {3}
    Airports = {2, 3, 4, 5}
    Hubs = {4}
    Radar = 2
    AlwaysOn <- Home
    Limit = 2
    MetarInFlight = 1
    CacheCap = 1
    MaxQueries = 3
    MaxMetarFaults = 1
INVARIANT TileJsonOnce
INVARIANT AnswersFit
PROPERTY AnswersSettle
PROPERTY NewestIsAnswered
CHECK_DEADLOCK FALSE
