SPECIFICATION FairSpec
CONSTANTS
    c1 = c1
    c2 = c2
    w1 = w1
    w2 = w2
    root = root
    Commands = {c1, c2}
    Switches = {w1, w2}
    Ends = {d1}
    Users = {root, www}
    Requests <- MCRequests
    MaxOps = 2
    None = None
CONSTRAINT
    BeginInOrder
INVARIANTS
    NoChannelSurvives
    RefusalIsTold
    ChangesAreAudited
PROPERTIES
    RightsEnd
    NothingWaitsForTransfer
