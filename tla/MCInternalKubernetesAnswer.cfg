SPECIFICATION Spec
CONSTANTS
    Node = {n1}
    Policy = {"Delete"}
    Adversity = {"lostAnswer"}
    MaxPV = 1
    MaxVA = 1
    MaxFaults = 1
INVARIANTS
    BoundHasStorage
CHECK_DEADLOCK FALSE
