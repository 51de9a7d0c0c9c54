SPECIFICATION FairSpec
CONSTANTS
    Times = 5
    Midnight = 2
    Window = 4
    MaxFrames = 3
    Undecodable = {3}
    MaxFaults = 1
    MaxRestarts = 1
    Fallback = 2
    InFlight = 2
    KnownCap = 2
INVARIANT KnownIsJudged
INVARIANT HistoryIsWanted
PROPERTY HourIsFilled
PROPERTY BackfillInOrder
PROPERTY FeedRecovers
CHECK_DEADLOCK FALSE
