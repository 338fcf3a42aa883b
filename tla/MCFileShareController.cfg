SPECIFICATION FairSpec
CONSTANTS
    Volume = {v1}
    Export = {e1, e2, e3, e4}
    Kind = {"directory", "vhdx"}
    Source = {"empty", "snapshot"}
    MaxFaults = 3
CHECK_DEADLOCK FALSE
INVARIANTS
    TypeOK
    ShareIsServed
    ShareIsGone
PROPERTIES
    DeleteShareConverges
    ProvisionShareConverges
