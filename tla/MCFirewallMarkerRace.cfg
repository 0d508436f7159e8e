SPECIFICATION Spec
CONSTANTS
    c1 = c1
    c2 = c2
    a1 = a1
    a2 = a2
    Nil = Nil
    Configs <- MCConfigs
    Changes <- MCChanges
    Window = 1
    MaxCrashes = 0
    Faults = {}
SYMMETRY Symmetry
PROPERTIES
    RevertedStaysOut
