SPECIFICATION FairSpec
CONSTANTS
    Updater = {u1, u2}
    old = old
    Installer = {new, old}
    Latest = 2
    Carried <- MCCarried
    First = first
    None = none
    Sums = TRUE
    Env = {"crash", "fail"}
INVARIANTS TypeOK Restorable Verified
PROPERTIES UpdatesNeverDowngrade InstallDone UpdateTakes
CHECK_DEADLOCK FALSE
