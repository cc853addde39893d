CONSTANTS
    e1 = e1
    e2 = e2
    Saves = {s1, s2}
    Deletes = {d1}
    Notes = {n1}
    Edited = Edited
    Entries = {e1, e2}
    Auths <- SomeAuths
    Inputs <- SomeInputs
    Plans <- Chained
    None = None
SPECIFICATION Spec
INVARIANTS
    LoginKept
    NothingOrphaned
    ImportAllOrNothing
    DeleteTells
CHECK_DEADLOCK FALSE
SYMMETRY Interchangeable
CONSTRAINT ThreeCalls
