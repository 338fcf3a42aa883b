SPECIFICATION Spec
CONSTANTS
    Node = {n1, n2}
    Policy = {"Delete", "Retain"}
    Adversity = {"deleteReleased"}
    MaxPV = 2
    MaxVA = 2
    MaxFaults = 2
SYMMETRY Symmetry
INVARIANTS
    TypeOK
    MountedIsServed
    OneNodeAtATime
    AccessIsTracked
    BoundHasStorage
PROPERTIES
    StorageFollowsPolicy
CHECK_DEADLOCK FALSE
