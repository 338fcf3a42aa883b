SPECIFICATION Spec
CONSTANTS
    Volume = {v1}
    Node = {n1, n2}
    Export = {}
    Size = {1, 2}
    Source = {"empty"}
    ProvisionSecret = TRUE
    PublishSecret = TRUE
    Abandoned = {}
    MaxFaults = 1
    MaxLate = 0
SYMMETRY Symmetry
INVARIANTS
    ProvisionedWithChap
