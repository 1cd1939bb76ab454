SPECIFICATION Spec
CONSTANTS
    r1 = r1
    r2 = r2
    Requests = {r1, r2}
    NoConsumer = NoConsumer
    NoSelector = NoSelector
    BadSelector = BadSelector
    Attestors <- TestSources
    Holdings <- TestHoldings
    Inputs <- TestInputs
    PresenceTtl = 2
    MaxClock = 3
    MaxChanges = 2
SYMMETRY Symmetry
CHECK_DEADLOCK FALSE
INVARIANTS
    OrderedReply
PROPERTIES
    ClaimsHeldWhenProved
