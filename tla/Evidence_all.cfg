SPECIFICATION AllSpec
CONSTANTS
    Nothing = Nothing
    Unset = Unset
    MaxCalls = 3
    MaxMoves = 3
    MaxRuns = 3
    MaxEdits = 3
    MaxLogins = 3
    Blobs <- MCBlobs
    DidKeys <- MCDidKeys
    Keys <- MCKeys
    Logins = {"ann", "bob"}
    Splits <- MCSplits
    Suggested = {0, 1, 3, 5, 20}
    DefaultCap = 4
    MaxPasswdBuf = 16
    Entries <- MCEntries
    NoEntry = 0
    Unbounded = 1000
    Challenges = {"c1", "c2"}
    Subjects = {"p1", "p2"}
    Issuers = {"idp1", "idp2"}
    Times = {1, 2, 3}
    Candidate <- MCCandidate
    Challenge = "c1"
    Inputs <- MCInputs
    MaxEvidence = 3
CHECK_DEADLOCK FALSE
INVARIANTS
    ComputesDerive
    ListedIsEnrollable
    DechunkedIsTheBody
    SmallEntryIsFound
PROPERTIES
    WillingAgentProves
    UndisturbedProvesTheUsable
    AgentImplementsProver
    GpgImplementsProver
    TailscaleImplementsProver
