---------------------------- MODULE MCDeltaChain ----------------------------
(***************************************************************************)
(* DeltaChain over every delta format, two codes and two holders.          *)
(***************************************************************************)
EXTENDS DeltaChain

CONSTANTS c1, c2, h1, h2

MCCodes == {c1, c2}
MCHolders == {h1, h2}
MCNonces == {0, 1}

AllDeltaFormats == {f \in Format : f.mode = "delta"}
=============================================================================
