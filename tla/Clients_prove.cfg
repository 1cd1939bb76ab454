SPECIFICATION Spec
CONSTANTS
    Ids = {id1, id2}
    NoId = NoId
    Named = id1
    None = None
    MaxChanges = 2
    MaxRestarts = 1
    MaxRequest = 2
    Words <- ProveWords
    Spelling <- MCSpelling
    Shell = 3
    MaxFrames = 2
    MaxArgs = 5
    MaxPresses = 2
INVARIANT
    ChallengeIsAParameter
CHECK_DEADLOCK FALSE
