SPECIFICATION Spec
CONSTANTS
    r1 = r1
    r2 = r2
    r3 = r3
    Nil = Nil
    Busy = Busy
    Calls <- MCThreeCalls
    MaxConns = 2
    MaxCrashes = 1
SYMMETRY Symmetry
INVARIANTS
    IInv
    OwnReply
    ExactlyOnce
    SlotsBounded
CHECK_DEADLOCK FALSE
