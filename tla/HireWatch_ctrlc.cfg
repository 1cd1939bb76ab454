SPECIFICATION FairSpec
CONSTANTS
    Ids = {id1}
    NoId = NoId
    MaxChanges = 1
    MaxPresses = 1
PROPERTY CtrlCEnds
CHECK_DEADLOCK FALSE
