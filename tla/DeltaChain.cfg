SPECIFICATION Spec
CONSTANTS
    c1 = c1  c2 = c2  h1 = h1
    h2 = h2
    Codes <- MCCodes
    Holders <- MCHolders
    Nonces <- MCNonces
    Formats <- AllDeltaFormats
INVARIANTS GateIsRoster GateHasRoster
