\* Five volumes of two chunks in a ring of four directories, so that the fifth
\* volume shares its directory with the first.
SPECIFICATION FairSpec
CONSTANTS
    Volumes = 5
    First = 3
    Slots = 4
    Chunks = 2
    LowCut = 2
    Replayed = 2
    Recent = 1
    BackfillVolumes = 1
    OfflineAfter = 1
    RestartAfter = 1
    MaxFaults = 1
INVARIANTS
    BackfillIsNew
PROPERTIES
    ImplementsPromises
    ReachesNewest
