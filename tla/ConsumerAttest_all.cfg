SPECIFICATION FairAttestSpec
CONSTANTS
    Pids = {"p1", "p2"}
    Conns = {"c1", "c2"}
    Paths = {"/editor", "/mail"}
    Files = {"f1", "f2", "f3"}
    Content <- MCContent
    Uids = {"me", "other"}
    MyUid = "me"
    Nothing = Nothing
    MaxEvents = 4
CHECK_DEADLOCK FALSE
PROPERTIES
    NamedForItsProgram
    NamedFromTheWindow
    EveryPeerDecided
