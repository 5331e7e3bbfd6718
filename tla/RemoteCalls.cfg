SPECIFICATION CallsSpec
CONSTANTS
    Chunks = 2
    MaxGeneration = 2
    MaxCalls = 3
    MaxRuns = 2
    MaxSequence = 5
    FirstSequence = 4
    MaxBegun = 3
    Client = {c1, c2}
    AuditLimit = 1
    MaxRequests = 2
INVARIANTS
    AcceptanceResynchronises
PROPERTIES
    ImplementsCalls
    ChannelImplementsCalls
    HandlersEnd
    AuditBecomesVisible
    PassIsObeyed
