CONSTANTS
    ChatActions = {c1, c2}
    McpActions = {}
    Items <- EveryReason
    Settings <- EverySetting
    MaxLost = 1
    None = None
SPECIFICATION Spec
INVARIANTS
    DeniedNeverRuns
    LedgerTellsTruth
    RejectionSticks
