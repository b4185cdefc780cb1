SPECIFICATION Spec
CONSTANTS
    c1 = c1  c2 = c2  h1 = h1
    None = None
    Codes <- MCCodes
    Holders <- MCHolders
    Nonces <- MCNonces
    Desired <- FullStates
    HasConsume = TRUE
    Windows = FALSE
    Env = {"kill"}
INVARIANTS GreenGate
