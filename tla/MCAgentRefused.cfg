SPECIFICATION Spec
CONSTANTS
    r1 = r1
    r2 = r2
    r3 = r3
    Nil = Nil
    Busy = Busy
    Calls <- MCTwoCalls
    MaxConns = 1
    MaxCrashes = 0
INVARIANTS
    RefusedIsRedialled
CHECK_DEADLOCK FALSE
