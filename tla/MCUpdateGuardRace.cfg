SPECIFICATION Spec
CONSTANTS
    MaxVersion = 2
    NotStarting = {}
    Faults = {"late"}
PROPERTIES
    AcceptedIsLeftAlone
