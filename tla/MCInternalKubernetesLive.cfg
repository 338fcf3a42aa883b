SPECIFICATION FairSpec
CONSTANTS
    Node = {n1}
    Policy = {"Delete"}
    Adversity = {"patchRetain", "nodeLost"}
    MaxPV = 1
    MaxVA = 1
    MaxFaults = 1
PROPERTIES
    ClaimIsBound
    PodGetsVolume
    DetachFinishes
    ReleasedIsReclaimed
    PatchIsHonoured
CHECK_DEADLOCK FALSE
