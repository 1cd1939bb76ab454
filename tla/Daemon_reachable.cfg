SPECIFICATION Spec
CONSTANTS
    d1 = d1
    d2 = d2
    Daemons = {d1, d2}
    NoDaemon = NoDaemon
    InitialPaths = {"none"}
    InitialDirs = {"private"}
    MaxFaults = 0
    MaxSignals = 1
INVARIANTS
    ServingMeansReachable
