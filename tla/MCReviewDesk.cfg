SPECIFICATION Spec
CONSTANTS
    r1 = r1
    r2 = r2
    Departments = {"manager", "transportation", "timing"}
    Requests <- Both
    Figures = {f1, f2}
    Methods = {f1}
    FirstMethod = f1
    None = None
    MaxCalls = 4
    MaxWrites <- Writes
    MaxPending = 2
INVARIANT TypeOK
PROPERTY DecidedAsEntered
CHECK_DEADLOCK FALSE
