SPECIFICATION Spec
CONSTANTS
    MaxVersion = 2
    NotStarting = {}
    Faults = {}
PROPERTIES
    SettledLeavesNoArchive
