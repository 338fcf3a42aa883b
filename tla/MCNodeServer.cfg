SPECIFICATION Spec
CONSTANTS
    Volume = {v1, v2}
    Mode = {"mount", "block", "share"}
    Device = {d1, d2}
    Custom = {v1, v2}
    Adversity = {"connect", "persist", "mount", "unstage", "rescanTimeout", "restart", "reboot"}
    MaxFaults = 3
    none = none
SYMMETRY DeviceSymmetry
INVARIANTS
    TypeOK
    UnstagedIsClean
    UnpublishedIsClean
    PublishedIsMounted
