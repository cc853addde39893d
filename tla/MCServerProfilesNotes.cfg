CONSTANTS
    e1 = e1
    e2 = e2
    Saves = {s1}
    Deletes = {}
    Notes = {n1}
    Edited = Edited
    Entries = {}
    Auths <- PasswordOnly
    Inputs <- Unchanged
    Plans = {}
    None = None
SPECIFICATION Spec
INVARIANT NotesFollowHistory
CHECK_DEADLOCK FALSE
