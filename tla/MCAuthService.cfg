SPECIFICATION Spec
CONSTANTS
    a1 = a1
    a2 = a2
    Users = {u1}
    Forms = {f1, f2}
    Attempts = {a1, a2}
    Nil = Nil
    MaxAttempts = 2
    Lockout = 1
    MaxFailureEntries = 1
    LoginLimit = 2
    LoginWindow = 1
    ShortSession = 2
    RememberDuration = 3
    IdleTimeout = 2
    MaxSessionsPerUser = 2
    MaxNow <- ClockBound
    MaxIssued <- SessionBound
SYMMETRY Interchangeable
INVARIANTS
    TypeOK
    RefusedWhileLocked
    LockedAfterMaxAttempts
PROPERTIES
    NewestSessionsSurvive
    KeepsSessionTable
CHECK_DEADLOCK FALSE
