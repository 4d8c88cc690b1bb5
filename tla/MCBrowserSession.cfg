SPECIFICATION Spec
CONSTANTS
    t1 = t1
    t2 = t2
    c1 = c1
    c2 = c2
    Users = {u1, u2}
    Tabs = {t1, t2}
    Calls = {c1, c2}
    Nil = Nil
    Identity = u1
    MaxSessions = 2
INVARIANTS
    TypeOK
    TabHoldsItsUsersToken
    WritesAreMadeAsShown
    WritesActInTheirSession
    LoadingEndsWithACall
SYMMETRY Interchangeable
