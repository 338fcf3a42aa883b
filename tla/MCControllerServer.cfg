SPECIFICATION FairSpec
CONSTANTS
    Volume = {v1}
    Node = {n1, n2}
    Export = {}
    Size = {1, 2}
    Source = {"empty"}
    ProvisionSecret = TRUE
    PublishSecret = TRUE
    Abandoned = {}
    MaxFaults = 3
    MaxLate = 0
INVARIANTS
    TypeOK
    CreatedIsUsable
    DeletedIsGone
    GrantedIsAllowed
    RevokedIsDenied
    DisksAgree
PROPERTIES
    ImplementsAbstractVolume
    DeleteConverges
    ProvisionConverges
