SPECIFICATION Spec
CONSTANTS
    c1 = c1
    c2 = c2
    a1 = a1
    a2 = a2
    Nil = Nil
    Configs <- MCConfigs
    Changes <- MCChanges
    Window = 2
    MaxCrashes = 2
    Faults = {"save"}
SYMMETRY Symmetry
INVARIANTS
    NothingStranded
    RollsBackToGood
    WindowNeverExtended
    OnlyPendingArmed
    ChainsRestored
    BootUntilRestart
    IInv
PROPERTIES
    SettledStays
    ImplementsTrial
