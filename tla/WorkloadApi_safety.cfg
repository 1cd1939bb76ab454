SPECIFICATION AttendedSpec
CONSTANTS
    Requests = {"r1"}
    NoConsumer = NoConsumer
    NoSelector = NoSelector
    BadSelector = BadSelector
    Attestors <- AgentSources
    Holdings <- AgentHoldings
    Inputs <- AllInputs
    PresenceTtl = 2
    MaxClock = 2
    MaxChanges = 2
CHECK_DEADLOCK FALSE
INVARIANTS
    NoUnaskedPrompt
    EveryAudienceMet
    NamedGetsOnlyNamed
    CompleteReply
PROPERTIES
    AnsweredUnlessHung
