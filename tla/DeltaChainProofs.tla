-------------------------- MODULE DeltaChainProofs --------------------------
(***************************************************************************)
(* Diffs add up, for every set of codes and holders and every delta format *)
(* that can say what it needs.                                             *)
(***************************************************************************)
EXTENDS DeltaChain, GateFormatProofs

\* Besides the shapes: the roster's codes are distinct, and a change line can
\* say whatever there is to say about the rows the gate was told.
ChainInv ==
    /\ TypeOK
    /\ UniqueCodes(roster.rows)
    /\ DeltaFormat(format) => ChangeSays(format, roster.rows \cup gate)

\* A state the chain pulls is a state, in the site's format.
LEMMA WantedIsState ==
    ASSUME TypeOK, NEW creds \in SUBSET Row, NEW n \in Nonces
    PROVE  /\ Wanted(creds, n) \in State
           /\ Wanted(creds, n).format = format
           /\ Wanted(creds, n).creds = creds
           /\ Wanted(creds, n).nonce = n
           /\ format.mode = "delta"
           /\ format \in Format
  BY FormatsAssumption DEF TypeOK, Wanted, State

\* What the importer reads out of a delta render.
LEMMA ImportOfARender ==
    ASSUME NEW s \in State, s.format.mode = "delta", NEW g \in SUBSET Row,
           NEW fresh \in BOOLEAN, NEW r \in Roster
    PROVE  Import(Rendered(s, r, fresh), g) =
              ImportDelta(s.format, DeltaLines(s, PriorRows(s, r, fresh)), g)
  BY DEF Import, Rendered

\* Both kinds of cycle keep ChainInv; the prior rows of either are rows the
\* gate already holds as long as it holds the roster's.
LEMMA ApplyKeepsChainInv ==
    ASSUME ChainInv, NEW creds \in SUBSET Row, UniqueCodes(creds),
           NEW n \in Nonces, NEW fresh \in BOOLEAN,
           DeltaFormat(format) => roster.rows \subseteq gate,
           Apply(Wanted(creds, n), fresh)
    PROVE  /\ ChainInv'
           /\ (DeltaFormat(format) => roster.rows \subseteq gate)'
  <1> DEFINE s == Wanted(creds, n)
             prior == PriorRows(s, roster, fresh)
  <1>1. /\ s \in State /\ s.format = format /\ s.creds = creds /\ s.nonce = n
        /\ format.mode = "delta" /\ format \in Format
    BY WantedIsState DEF ChainInv
  <1>2. prior \in SUBSET Row /\ prior \subseteq roster.rows
    BY DEF PriorRows, ChainInv, TypeOK, Roster
  <1>3. gate' = ImportDelta(format, DeltaLines(s, prior), gate)
    BY <1>1, ImportOfARender DEF Apply, ChainInv, TypeOK
  <1>4. roster' = [nonce |-> n, rows |-> Effective(s)] 
        /\ format' = format /\ forces' = forces
    BY <1>1 DEF Apply, Remembered
  <1>5. /\ Effective(s) \subseteq Row
        /\ UniqueCodes(Effective(s))
        /\ DeltaFormat(format) => ChangeSays(format, Effective(s))
    BY <1>1, EffectiveRows
  <1> HIDE DEF s, prior
  <1>6. TypeOK'
    <2>1. roster \in Roster /\ gate \in SUBSET Row /\ s.format.mode # "stub"
      BY <1>1 DEF ChainInv, TypeOK
    <2>2. gate' = Import(Rendered(s, roster, fresh), gate)
      BY DEF Apply, s
    <2>3. gate' \subseteq Row
      BY <1>1, <2>1, <2>2, RenderedIsFile, ImportIsTable
    <2> QED
      BY <1>4, <1>5, <2>3 DEF ChainInv, TypeOK, Roster
  <1>7. UniqueCodes(roster.rows)'
    BY <1>4, <1>5 DEF UniqueCodes
  <1>8. ASSUME DeltaFormat(format)
        PROVE  /\ ChangeSays(format, gate')
               /\ Effective(s) \subseteq gate'
    <2>1. gate \in SUBSET Row /\ prior \subseteq gate
      BY <1>2, <1>8 DEF ChainInv, TypeOK
    <2>2. ChangeSays(format, gate)
      BY <1>8 DEF ChainInv, ChangeSays
    <2>3. gate' \subseteq gate \cup Effective(s)
      BY <1>1, <1>2, <1>3, <1>8, <2>1, <2>2, DeltaAdds
    <2>4. ChangeSays(format, gate')
      BY <1>5, <1>8, <2>2, <2>3 DEF ChangeSays
    <2> QED
      BY <1>1, <1>2, <1>3, <1>8, <2>1, <2>2, <2>4, DeltaAdmits
  <1> QED
    BY <1>4, <1>5, <1>6, <1>7, <1>8
    DEF ChainInv, ChangeSays

\* Where nobody forces, a cycle diffs against what the gate holds and
\* leaves it with what the roster then says.
LEMMA CycleIsExact == ChainInv /\ GateIsRoster /\ Cycle => GateIsRoster'
  <1> SUFFICES ASSUME ChainInv, GateIsRoster, Cycle,
                      DeltaFormat(format)', ~forces'
               PROVE  (gate = roster.rows)'
    BY DEF GateIsRoster
  <1>1. PICK creds \in SUBSET Row, n \in Nonces :
           /\ UniqueCodes(creds)
           /\ n = roster.nonce \/ roster.rows = {}
           /\ Apply(Wanted(creds, n), FALSE)
    BY DEF Cycle
  <1> DEFINE s == Wanted(creds, n)
  <1>2. roster \in Roster /\ gate \in SUBSET Row
    BY DEF ChainInv, TypeOK, Roster
  <1>3. /\ s \in State /\ s.format = format /\ s.creds = creds
        /\ s.nonce = n /\ format.mode = "delta"
    BY <1>2, WantedIsState DEF ChainInv
  <1>4. PriorRows(s, roster, FALSE) = roster.rows
    BY <1>1, <1>3 DEF PriorRows
  <1>5. gate' = ImportDelta(format, DeltaLines(s, roster.rows), gate)
    BY <1>1, <1>2, <1>3, <1>4, ImportOfARender DEF Apply
  <1>6. roster'.rows = Effective(s) /\ format' = format /\ forces' = forces
    BY <1>1 DEF Apply, Remembered
  <1> HIDE DEF s
  <1>7. DeltaFormat(format) /\ ~forces
    BY <1>6
  <1>8. gate = roster.rows /\ ChangeSays(format, roster.rows)
    BY <1>7 DEF ChainInv, GateIsRoster, ChangeSays
  <1>9. UniqueCodes(roster.rows) /\ roster.rows \in SUBSET Row
    BY <1>2 DEF ChainInv, Roster
  <1>10. gate' = Effective(s)
    BY <1>1, <1>3, <1>5, <1>7, <1>8, <1>9, DiffIsExact
  <1> QED
    BY <1>6, <1>10

\* DeltaChain's type invariant, and both of its promises: exactness where
\* nobody forces, and that nobody the roster says should get in is refused, with
\* re-emits anywhere in the chain.
THEOREM ChainHolds == Spec => [](TypeOK /\ GateIsRoster /\ GateHasRoster)
  <1> DEFINE IInv == ChainInv /\ GateIsRoster /\ GateHasRoster
  <1>1. Init => IInv
    <2>1. EmptyRoster \in Roster /\ EmptyRoster.rows = {}
      BY NonceAssumption DEF EmptyRoster, Roster
    <2>2. Init => ChainInv
      BY <2>1 DEF Init, ChainInv, TypeOK, UniqueCodes, ChangeSays
    <2> QED
      BY <2>1, <2>2 DEF Init, GateIsRoster, GateHasRoster
  <1>2. IInv /\ [Next]_vars => IInv'
    <2> SUFFICES ASSUME IInv, [Next]_vars
                 PROVE  IInv'
      OBVIOUS
    <2>1. CASE Cycle
      <3>1. PICK creds \in SUBSET Row, n \in Nonces :
               /\ UniqueCodes(creds)
               /\ Apply(Wanted(creds, n), FALSE)
        BY <2>1 DEF Cycle
      <3>2. ChainInv' /\ GateHasRoster'
        BY <3>1, ApplyKeepsChainInv DEF GateHasRoster
      <3> QED
        BY <2>1, <3>2, CycleIsExact
    <2>2. CASE ForcedCycle
      <3>1. forces /\ UNCHANGED forces
        BY <2>2 DEF ForcedCycle, Apply
      <3>2. PICK creds \in SUBSET Row, n \in Nonces, fresh \in BOOLEAN :
               /\ UniqueCodes(creds)
               /\ Apply(Wanted(creds, n), fresh)
        BY <2>2 DEF ForcedCycle
      <3>3. ChainInv' /\ GateHasRoster'
        BY <3>2, ApplyKeepsChainInv DEF GateHasRoster
      <3> QED
        BY <3>1, <3>3 DEF GateIsRoster
    <2>3. CASE UNCHANGED vars
      BY <2>3 DEF vars, ChainInv, GateIsRoster, GateHasRoster, TypeOK,
                  UniqueCodes, ChangeSays
    <2> QED
      BY <2>1, <2>2, <2>3 DEF Next
  <1>3. IInv => TypeOK /\ GateIsRoster /\ GateHasRoster
    BY DEF ChainInv
  <1> QED
    BY <1>1, <1>2, <1>3, PTL DEF Spec

\* The half that a forced re-emit leaves: it drops the removals that were due,
\* and everybody the roster says should get in still does.
THEOREM GateHasRosterHolds == Spec => []GateHasRoster
  BY ChainHolds, PTL
=============================================================================
