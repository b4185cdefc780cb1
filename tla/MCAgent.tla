------------------------------- MODULE MCAgent -------------------------------
(***************************************************************************)
(* The pairings TLC's instances of Agent draw on: two keys of one          *)
(* facility, one the server refuses, and one of another facility.          *)
(***************************************************************************)
EXTENDS Agent

CONSTANTS k1, k2, bad, other, f1, f2

MCPairing == {k1, k2, bad, other}
MCGood == {k1, k2, other}

\* One key alone, for the runs in which only timing matters.
MCOne == {k1}
MCOneFacility == [w \in MCOne |-> f1]

MCFacilityOf == [w \in MCPairing |-> IF w = other THEN f2 ELSE f1]
=============================================================================
