SPECIFICATION Spec
CONSTANTS
    Domains = {"ssh.local", "tailscale"}
    Published = {"ssh.local"}
    AudienceLists <- MCAudienceLists
    Tick = 2
    PresenceTtl = 1
    TokenTtl = 1
    MaxClock = 5
    MaxEpoch = 2
    MaxClaims = 1
    MaxTokens = 1
INVARIANTS
    PresenceDecays
    AcceptedIsLive
    WindowIsHonest
PROPERTIES
    RefusalIsFinal
