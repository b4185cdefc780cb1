SPECIFICATION Spec
CONSTANTS
    k1 = k1  k2 = k2  bad = bad  other = other  f1 = f1  f2 = f2
    Process = {service}
    Request = {r1, r2}
    Pairing <- MCPairing
    Good <- MCGood
    FacilityOf <- MCFacilityOf
    First = first
    None = none
    RenameOpen = FALSE
    Env = {"race"}
INVARIANTS RunsSaved
CHECK_DEADLOCK FALSE
