SPECIFICATION FairSpec
CONSTANTS
    k1 = k1  k2 = k2  bad = bad  other = other  f1 = f1  f2 = f2
    Process = {service}
    Request = {r1, r2}
    Pairing <- MCOne
    Good <- MCOne
    FacilityOf <- MCOneFacility
    First = first
    None = none
    RenameOpen = TRUE
    Env = {"stop", "press", "crash", "force", "race", "unread"}
PROPERTIES RunsLoops PressServed StopEnds Answered
CHECK_DEADLOCK FALSE
