CONSTANTS
    ChatActions = {c1}
    McpActions = {m1}
    Items <- WithTransfers
    Settings <- OnlyStrict
    MaxLost = 0
    None = None
SPECIFICATION FairSpec
INVARIANTS
    NothingRunsUnasked
    ContentIsNotTrusted
PROPERTIES
    EveryActionEnds
