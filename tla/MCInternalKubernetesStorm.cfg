SPECIFICATION Spec
CONSTANTS
    Node = {n1, n2}
    Policy = {"Delete"}
    Adversity = {"lostAnswer", "deletePV", "patchRetain", "nodeLost"}
    MaxPV = 1
    MaxVA = 2
    MaxFaults = 1
SYMMETRY Symmetry
INVARIANTS
    OneNodeAtATime
PROPERTIES
    GoneIsCleaned
CHECK_DEADLOCK FALSE
