SPECIFICATION Spec
CONSTANTS
    r1 = r1
    r2 = r2
    Requests <- Both
    Figures = {f1, f2}
    Blank = Blank
    None = None
    MaxCalls = 4
    MaxWrites <- Writes
    MaxPending = 2
SYMMETRY Interchangeable
INVARIANTS
    TypeOK
    LockedAsEntered
    SelectionBelongsToList
CHECK_DEADLOCK FALSE
