SPECIFICATION Spec
CONSTANTS
    Volume = {v1}
    Node = {n1}
    Export = {e1}
    Size = {1}
    Source = {"empty", "snapshot"}
    ProvisionSecret = FALSE
    PublishSecret = TRUE
    Abandoned = {"EnsureTarget", "ConfigureTargetChap", "CreateVirtualDisk",
                 "MapDiskToTarget", "UnmapDiskFromTarget", "DeleteVirtualDisk",
                 "ExportSnapshotAsVirtualDisk", "AllowInitiator", "DenyInitiator",
                 "SetInitiatorIds"}
    MaxFaults = 5
    MaxLate = 3
SYMMETRY Symmetry
INVARIANTS
    ChapBeforeAccess
