CONSTANTS
    Writes = {w1, w2}
    LastSecond = 3
    None = None
SPECIFICATION Spec
SYMMETRY Interchangeable
INVARIANTS
    OriginalSurvives
    SuccessMeansWritten
