SPECIFICATION SupervisedSpec
CONSTANTS
    d1 = d1
    d2 = d2
    d3 = d3
    Daemons = {d1, d2, d3}
    NoDaemon = NoDaemon
    InitialPaths = {"none", "stale", "symlink", "directory"}
    InitialDirs = {"absent", "private", "loose", "sticky", "foreign", "file"}
    MaxFaults = 2
    MaxSignals = 2
INVARIANTS
    BindFindsPathFree
    ServesInVettedDirectory
PROPERTIES
    NoTakeover
    ImplementsSocketService
    SignalEndsDaemon
    ReclaimedAfterCrash
