SPECIFICATION FairSpec
CONSTANTS
    Updater = {u1, u2}
    old = old
    Installer = {}
    Latest = 2
    Carried <- MCCarried
    First = first
    None = none
    Sums = TRUE
    Env = {"race"}
INVARIANTS Restorable
CHECK_DEADLOCK FALSE
