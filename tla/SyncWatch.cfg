SPECIFICATION FairSpec
CONSTANTS
    c1 = c1  c2 = c2  h1 = h1
    None = None
    Codes <- MCCodes
    Holders <- MCHolders
    Nonces <- MCNonces
    Desired <- TrialStates
    HasConsume = FALSE
    Windows = FALSE
    Env = {"fetch", "write", "save", "heartbeat", "crash", "revert", "settle"}
INVARIANTS PreviousFileStays
PROPERTIES Converges
