SPECIFICATION Spec
CONSTANTS
    Volume = {v1, v2}
    Mode = {"mount"}
    Device = {d1, d2}
    Custom = {}
    Adversity = {"unstage"}
    MaxFaults = 1
    none = none
SYMMETRY DeviceSymmetry
INVARIANTS
    MountsHaveDevices
