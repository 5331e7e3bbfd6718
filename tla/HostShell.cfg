SPECIFICATION ShellSpec
CONSTANTS
    Own = own
    Other = other
    NoImage = none
    Settings <- Sessions
    Modulus = 4
    Rounds = 3
    MaxServices = 5
    MaxBoots = 3
    MaxAsked = 4
    Inputs <- Typing
    Names <- Completions
INVARIANTS
    EvidenceIsTrue
    RegressionPassIsReal
PROPERTIES
    
    CompletionIsSeen
    ProbesAreSound
    
