SPECIFICATION AllSpec
CONSTANTS
    Seconds = {0, 5, 9}
    Inputs <- MCInputs
    Nothing = Nothing
    MaxParams = 2
    MaxAudiences = 2
    MaxTokens = 4
    HintValues = {"v", "w"}
    HintValid <- MCHintValid
    MaxHint = 6
    Digits = {0, 1, 12, 21, 35, 58}
    NoDigit = 58
    Width = 3
    DidPrefix <- MCDidPrefix
    MaxDigits = 6
CHECK_DEADLOCK FALSE
INVARIANTS
    StrictestWins
    NothingIgnored
    ParsedIsPrinted
    PrintedIsParsed
    AcceptedIsTheTag
    RefusedHasAFault
    BufferIsTheNumber
