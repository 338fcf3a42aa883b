SPECIFICATION FairSpec
CONSTANTS
    Volume = {v1, v2}
    Mode = {"mount", "block"}
    Device = {d1, d2}
    Custom = {v2}
    Adversity = {"connect", "mount"}
    MaxFaults = 2
    none = none
INVARIANTS
    MountsAreOwn
    MountsHaveDevices
PROPERTIES
    StageConverges
