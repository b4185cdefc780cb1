-------------------------- MODULE GateFormatProofs --------------------------
(***************************************************************************)
(* What a delta file does to a gate, for every set of codes, holders and   *)
(* nonces and for every delta format that can say what it needs.           *)
(***************************************************************************)
EXTENDS GateFormat, TLAPS

\* A change line says all there is to say about such rows: it says the status,
\* or the status of each is the one a change leaves it in.
ChangeSays(f, rows) ==
    \/ "changedLine" \in f.has => f.changeSaysStatus
    \/ \A r \in rows : r.status = "active"

\* The effective rows are credentials of the state, with distinct codes, and a
\* delta format can say each (Render's effective set).
LEMMA EffectiveRows ==
    ASSUME NEW s \in State, UniqueCodes(s.creds)
    PROVE  /\ Effective(s) \subseteq Row
           /\ UniqueCodes(Effective(s))
           /\ DeltaFormat(s.format) => ChangeSays(s.format, Effective(s))
  <1>1. /\ Effective(s) \subseteq Row
        /\ UniqueCodes(Effective(s))
    BY DEF Effective, State, UniqueCodes
  <1>2. CASE CanSuspend(s.format)
    BY <1>1, <1>2 DEF DeltaFormat, ChangeSays
  <1>3. CASE ~CanSuspend(s.format)
    <2>1. \A r \in Effective(s) : r.status = "active"
      BY <1>1, <1>3 DEF Effective, Row, Statuses
    <2> QED
      BY <1>1, <2>1 DEF ChangeSays
  <1> QED
    BY <1>2, <1>3

\* Pick returns a template, and one that is not blank; it returns the change
\* template only for a row the roster knew (renderDelta's pick).
LEMMA PickedTemplate ==
    ASSUME NEW f \in Format, DeltaFormat(f), NEW r \in Row,
           NEW changed \in BOOLEAN
    PROVE  /\ Pick(f, r, changed) \in Templates \ {"removedLine"}
           /\ Pick(f, r, changed) \in f.has
           /\ Pick(f, r, changed) = "changedLine" => changed
  BY DEF Pick, Templates, DeltaFormat, CanSuspend

\* A delta file has a line for every effective row the roster does not hold
\* and for every roster row whose code departed, and no other.
LEMMA LinesOfADelta ==
    ASSUME NEW s \in State, DeltaFormat(s.format), NEW prior \in SUBSET Row,
           UniqueCodes(s.creds)
    PROVE  /\ \A l \in DeltaLines(s, prior) :
                 \/ /\ l.row \in Effective(s) \ prior
                    /\ l.tpl = Pick(s.format, l.row, Knows(prior, l.row))
                 \/ /\ l.row \in prior
                    /\ ~Knows(Effective(s), l.row)
                    /\ l.tpl = "removedLine"
           /\ \A r \in Effective(s) \ prior :
                 [tpl |-> Pick(s.format, r, Knows(prior, r)), row |-> r]
                    \in DeltaLines(s, prior)
           /\ \A o \in prior : ~Knows(Effective(s), o) =>
                 [tpl |-> "removedLine", row |-> o] \in DeltaLines(s, prior)
  <1>1. /\ s.format \in Format
        /\ Effective(s) \subseteq Row
    BY EffectiveRows DEF State
  <1>2. \A l \in DeltaLines(s, prior) :
           \/ /\ l.row \in Effective(s) \ prior
              /\ l.tpl = Pick(s.format, l.row, Knows(prior, l.row))
           \/ /\ l.row \in prior
              /\ ~Knows(Effective(s), l.row)
              /\ l.tpl = "removedLine"
    BY DEF DeltaLines, Upserts, Removals
  <1>3. ASSUME NEW r \in Effective(s) \ prior
        PROVE  [tpl |-> Pick(s.format, r, Knows(prior, r)), row |-> r]
                  \in DeltaLines(s, prior)
    <2>1. Knows(prior, r) \in BOOLEAN
      BY DEF Knows
    <2>2. Pick(s.format, r, Knows(prior, r)) \in s.format.has
      BY <1>1, <2>1, PickedTemplate
    <2>3. [tpl |-> Pick(s.format, r, Knows(prior, r)), row |-> r]
             \in Upserts(s, prior)
      BY DEF Upserts
    <2> QED
      BY <2>2, <2>3 DEF DeltaLines
  <1>4. ASSUME NEW o \in prior, ~Knows(Effective(s), o)
        PROVE  [tpl |-> "removedLine", row |-> o] \in DeltaLines(s, prior)
    BY <1>4 DEF DeltaLines, Removals, DeltaFormat
  <1> QED
    BY <1>2, <1>3, <1>4
\* What the importer writes for a line of such a file is the effective row
\* itself, as far as the gate agrees with the roster on the row's status.
LEMMA WrittenIsTheRow ==
    ASSUME NEW s \in State, DeltaFormat(s.format), UniqueCodes(s.creds),
           NEW prior \in SUBSET Row, NEW gate \in SUBSET Row,
           prior \subseteq gate, ChangeSays(s.format, gate),
           NEW l \in DeltaLines(s, prior), l.tpl # "removedLine"
    PROVE  /\ l.row \in Effective(s) \ prior
           /\ Written(s.format, l, gate) = {l.row}
  <1>1. /\ l.row \in Effective(s) \ prior
        /\ l.tpl = Pick(s.format, l.row, Knows(prior, l.row))
    BY LinesOfADelta
  <1>2. /\ Effective(s) \subseteq Row
        /\ ChangeSays(s.format, Effective(s))
    BY EffectiveRows
  <1>3. s.format \in Format /\ Knows(prior, l.row) \in BOOLEAN
    BY DEF State, Knows
  <1>4. CASE l.tpl = "changedLine" /\ ~s.format.changeSaysStatus
    <2>1. Knows(prior, l.row) /\ "changedLine" \in s.format.has
      BY <1>1, <1>2, <1>3, <1>4, PickedTemplate
    <2>2. l.row.status = "active" /\ \A g \in gate : g.status = "active"
      BY <1>1, <1>2, <1>4, <2>1 DEF ChangeSays
    <2>3. [l.row EXCEPT !.status = "active"] = l.row
      BY <1>1, <1>2, <2>2 DEF Row
    <2>4. PICK g \in gate : g.code = l.row.code
      BY <2>1 DEF Knows
    <2>5. Written(s.format, l, gate) = {l.row}
      BY <1>4, <2>2, <2>3, <2>4 DEF Written
    <2> QED
      BY <1>1, <2>5
  <1>5. CASE ~(l.tpl = "changedLine" /\ ~s.format.changeSaysStatus)
    BY <1>1, <1>5 DEF Written
  <1> QED
    BY <1>4, <1>5

\* Importing a delta loses nobody the state wants in the gate, even where the
\* gate holds more than the roster remembers.
LEMMA DeltaAdmits ==
    ASSUME NEW s \in State, DeltaFormat(s.format), UniqueCodes(s.creds),
           NEW prior \in SUBSET Row, NEW gate \in SUBSET Row,
           prior \subseteq gate, ChangeSays(s.format, gate)
    PROVE  Effective(s) \subseteq
              ImportDelta(s.format, DeltaLines(s, prior), gate)
  <1> DEFINE D == DeltaLines(s, prior)
  <1>1. /\ Effective(s) \subseteq Row
        /\ UniqueCodes(Effective(s))
    BY EffectiveRows
  <1>2. SUFFICES ASSUME NEW r \in Effective(s)
                 PROVE  r \in ImportDelta(s.format, D, gate)
    OBVIOUS
  <1>3. CASE r \in prior
    <2>1. ASSUME NEW l \in D, l.row.code = r.code
          PROVE  FALSE
      <3>1. CASE l.row \in Effective(s) \ prior
        BY <1>1, <1>3, <2>1, <3>1 DEF UniqueCodes
      <3>2. CASE l.row \in prior /\ ~Knows(Effective(s), l.row)
        BY <2>1, <3>2 DEF Knows
      <3> QED
        BY <3>1, <3>2, LinesOfADelta
    <2> QED
      BY <1>3, <2>1 DEF ImportDelta
  <1>4. CASE r \notin prior
    <2> DEFINE l == [tpl |-> Pick(s.format, r, Knows(prior, r)), row |-> r]
    <2>1. l \in D
      BY <1>4, LinesOfADelta
    <2>2. l.tpl # "removedLine"
      <3>1. s.format \in Format /\ Knows(prior, r) \in BOOLEAN /\ r \in Row
        BY <1>1 DEF State, Knows
      <3> QED
        BY <3>1, PickedTemplate
    <2>3. l.row = r
      OBVIOUS
    <2> HIDE DEF l
    <2>4. r \in Written(s.format, l, gate)
      BY <2>1, <2>2, <2>3, WrittenIsTheRow
    <2> QED
      BY <2>1, <2>2, <2>4 DEF ImportDelta
  <1> QED
    BY <1>3, <1>4

\* Importing the diff against what the gate holds leaves exactly the rows the
\* state wants there: renderDelta followed by the importer is the effective
\* set, for every such format and every pair of tables.
THEOREM DiffIsExact ==
    ASSUME NEW s \in State, DeltaFormat(s.format), UniqueCodes(s.creds),
           NEW prior \in SUBSET Row, UniqueCodes(prior),
           ChangeSays(s.format, prior)
    PROVE  ImportDelta(s.format, DeltaLines(s, prior), prior) = Effective(s)
  <1> DEFINE D == DeltaLines(s, prior)
  <1>1. Effective(s) \subseteq ImportDelta(s.format, D, prior)
    BY DeltaAdmits
  <1>2. ASSUME NEW x \in prior, \A l \in D : l.row.code # x.code,
               x \notin Effective(s)
        PROVE  FALSE
    <2>1. CASE Knows(Effective(s), x)
      <3>1. PICK r \in Effective(s) : r.code = x.code
        BY <2>1 DEF Knows
      <3>2. r \in Effective(s) \ prior
        BY <1>2, <3>1 DEF UniqueCodes
      <3> QED
        BY <1>2, <3>1, <3>2, LinesOfADelta
    <2>2. CASE ~Knows(Effective(s), x)
      BY <1>2, <2>2, LinesOfADelta
    <2> QED
      BY <2>1, <2>2
  <1>3. ASSUME NEW l \in D, l.tpl # "removedLine"
        PROVE  Written(s.format, l, prior) \subseteq Effective(s)
    BY <1>3, WrittenIsTheRow
  <1>4. ImportDelta(s.format, D, prior) \subseteq Effective(s)
    BY <1>2, <1>3 DEF ImportDelta
  <1> QED
    BY <1>1, <1>4

\* Importing a delta gives the gate nothing but rows the state wants there.
LEMMA DeltaAdds ==
    ASSUME NEW s \in State, DeltaFormat(s.format), UniqueCodes(s.creds),
           NEW prior \in SUBSET Row, NEW gate \in SUBSET Row,
           prior \subseteq gate, ChangeSays(s.format, gate)
    PROVE  ImportDelta(s.format, DeltaLines(s, prior), gate)
              \subseteq gate \cup Effective(s)
  <1>1. ASSUME NEW l \in DeltaLines(s, prior), l.tpl # "removedLine"
        PROVE  Written(s.format, l, gate) \subseteq Effective(s)
    BY <1>1, WrittenIsTheRow
  <1> QED
    BY <1>1 DEF ImportDelta

\* A full file, imported, is the effective set: a format with a line for an
\* active credential drops nobody (renderFull and the effective set agree).
LEMMA FullIsExact ==
    ASSUME NEW s \in State, FullFormat(s.format)
    PROVE  {l.row : l \in FullLines(s)} = Effective(s)
  <1>1. ASSUME NEW r \in Effective(s)
        PROVE  FullTemplate(r) \in s.format.has
    BY DEF Effective, FullTemplate, FullFormat, CanSuspend
  <1>2. ASSUME NEW r \in Effective(s)
        PROVE  [tpl |-> FullTemplate(r), row |-> r] \in FullLines(s)
    BY <1>1 DEF FullLines
  <1>3. \A l \in FullLines(s) : l.row \in Effective(s)
    BY DEF FullLines
  <1>4. ASSUME NEW r \in Effective(s)
        PROVE  \E l \in FullLines(s) : l.row = r
    BY <1>2
  <1> QED
    BY <1>3, <1>4

\* Whatever the mode, a render is a file, and its lines' rows are rows.
LEMMA RenderedIsFile ==
    ASSUME NEW s \in State, s.format.mode # "stub", NEW r \in Roster,
           NEW fresh \in BOOLEAN
    PROVE  Rendered(s, r, fresh) \in File
  <1> DEFINE prior == PriorRows(s, r, fresh)
  <1>1. Effective(s) \subseteq Row /\ prior \subseteq Row
    BY DEF Effective, State, PriorRows, Roster
  <1>2. FullLines(s) \subseteq Line
    BY <1>1 DEF FullLines, Line, FullTemplate, Templates
  <1>3. Upserts(s, prior) \subseteq Line
    BY <1>1 DEF Upserts, Line, Pick, Templates
  <1>4. Removals(s, prior) \subseteq Line
    BY <1>1 DEF Removals, Line, Templates
  <1> HIDE DEF prior
  <1>5. DeltaLines(s, prior) \subseteq Line
    BY <1>3, <1>4 DEF DeltaLines
  <1> QED
    BY <1>2, <1>5 DEF Rendered, File, State, prior

\* Importing a file leaves a set of rows.
LEMMA ImportIsTable ==
    ASSUME NEW f \in File, NEW g \in SUBSET Row
    PROVE  Import(f, g) \subseteq Row
  <1>1. \A l \in f.lines : l.row \in Row
    BY DEF File, Line
  <1>2. ASSUME NEW l \in f.lines
        PROVE  Written(f.format, l, g) \subseteq Row
    BY <1>1 DEF Written, Row
  <1>3. ImportDelta(f.format, f.lines, g) \subseteq Row
    BY <1>2 DEF ImportDelta
  <1> QED
    BY <1>1, <1>3 DEF Import
=============================================================================
