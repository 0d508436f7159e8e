SPECIFICATION LiveSpec
CONSTANTS
    r1 = r1
    r2 = r2
    c1 = c1
    a1 = a1
    a2 = a2
    Nil = Nil
    Busy = Busy
    MaxVersion = 3
    NotStarting = {2}
    Faults = {}
INVARIANTS
    UpdateIsGuarded
PROPERTIES
    ImplementsTrial
    TrialsSettle
    ServesAgain
    CallsEnd
CHECK_DEADLOCK FALSE
