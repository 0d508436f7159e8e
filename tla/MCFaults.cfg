SPECIFICATION FaultsSpec
CONSTANTS
    c1 = c1
    a1 = a1
    a2 = a2
    Nil = Nil
    MaxVersion = 2
    NotStarting = {}
    Faults = {"late", "second", "cmd", "disk", "torn", "gap", "reboot"}
VIEW Running
INVARIANTS
    FaultsTypesOK
PROPERTIES
    FaultsHold
