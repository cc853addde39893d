SPECIFICATION StoreSpec
CONSTANTS
    Parts <- MCParts
    Proposals <- MCProposals
    Rules <- MCRules
    Blacklist <- MCBlacklist
    MaxDepth = 2
    MaxNesting = 5
    MaxRules = 2
    NoTrace = NoTrace
INVARIANTS
    DenyReaches
    AutoIsEarned
    AllowLiftsOnlyDefault
    RiskSeesWhatFilterSees
