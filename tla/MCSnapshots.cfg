SPECIFICATION Spec
CONSTANTS
    Volume = {"a", "b"}
    Export = {"e1", "e2"}
    Content = {s1, s2}
    Claim <- MCClaim
    Imported <- MCImported
    Name = {"a", "b", "iqn.a", "iqn.b", "a%41"}
    Numeral = {"0", "1"}
    Unescape <- MCUnescape
    MaxSize = 3
    MaxWrites = 1
    MaxFaults = 1
SYMMETRY Symmetry
CHECK_DEADLOCK FALSE
INVARIANTS
    TypeOK
    HandlesAgree
    SnapshotsAreTrue
    LeaksAreFailures
    CapacityIsThere
