SPECIFICATION FairSpec
CONSTANTS
    c1 = c1  c2 = c2  h1 = h1
    None = None
    Codes <- MCCodes
    Holders <- MCHolders
    Nonces <- MCNonces
    Desired <- ForceStates
    HasConsume = TRUE
    Windows = FALSE
    Env = {"fetch", "read", "press", "settle"}
INVARIANTS GreenAdmits
PROPERTIES ForceServed Chains RunsLoop
