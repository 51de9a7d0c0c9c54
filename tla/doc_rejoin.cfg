SPECIFICATION Spec
CONSTANTS
    Volumes = 5
    First = 3
    Slots = 4
    Chunks = 3
    LowCut = 2
    Replayed = 2
    Recent = 1
    BackfillVolumes = 1
    OfflineAfter = 1
    RestartAfter = 2
    MaxFaults = 2
INVARIANTS
    CompleteIsReported
