SPECIFICATION FairSpec
CONSTANTS
    c1 = c1  c2 = c2  h1 = h1
    None = None
    Codes <- MCCodes
    Holders <- MCHolders
    Nonces <- MCNonces
    Desired <- DeltaStates
    HasConsume = TRUE
    Windows = FALSE
    Env = {"fetch", "write", "heartbeat", "settle"}
INVARIANTS GreenGate
PROPERTIES RosterFollowsFile Delivers Converges
