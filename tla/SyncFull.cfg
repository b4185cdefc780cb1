SPECIFICATION FairSpec
CONSTANTS
    c1 = c1  c2 = c2  h1 = h1
    None = None
    Codes <- MCCodes
    Holders <- MCHolders
    Nonces <- MCNonces
    Desired <- FullStates
    HasConsume = TRUE
    Windows = TRUE
    Env = {"fetch", "write", "heartbeat", "sender", "kill", "panic", "crash", "press", "settle"}
INVARIANTS TypeOK GreenFile GreenGate
PROPERTIES Delivers Converges
