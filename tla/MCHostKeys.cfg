CONSTANTS
    user = user
    mcp = mcp
    test = test
    jump = jump
    target = target
    old = old
    new = new
    other = other
    targets = targets
    UserConnects = {user}
    McpConnects = {mcp}
    Tests = {test}
    Hosts = {jump, target}
    Keys = {old, new, targets}
    HostOf <- HostOfKey
    AlgorithmOf <- AlgorithmOfKey
    Chain <- Chains
    MaxCrashes = 1
    None = None
SPECIFICATION FairSpec
INVARIANTS
    OnlyApprovedKeys
    ConnectedThroughApproved
    TrustSurvives
PROPERTY EveryWaitForKeyEnds
