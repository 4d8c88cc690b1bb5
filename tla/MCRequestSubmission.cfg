CONSTANTS
    e1 = e1
    m1 = m1
    nobody = nobody
    Employees = {e1}
    Managers = {m1}
    Nobody = nobody
    Adapters = {"memory", "postgres"}
    MaxSwitches = 1
    Months <- MCMonths
    FirstDay <- MCFirstDay
    MaxClicks <- MCMaxClicks
    Drafts <- MCDrafts
SPECIFICATION Spec
CHECK_DEADLOCK FALSE
INVARIANTS
    TypeOK
    NumbersAreUnique
    AcknowledgedAsShown
    DuplicatesHaveAReason
PROPERTIES
    WindowMovesForward
