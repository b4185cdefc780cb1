-------------------------- MODULE SyncerChainProofs --------------------------
(***************************************************************************)
(* The core loop implements DeltaChain, for every delta format and every   *)
(* set of desired states under it.                                         *)
(***************************************************************************)
EXTENDS SyncerChain, SyncerDeltaProofs

\* A site that stays with one delta format, whatever it can or cannot say.
ChainSite ==
    /\ SureSite
    /\ \A s, t \in Desired : s.format = t.format /\ s.format.mode = "delta"

-----------------------------------------------------------------------------
(* The renderer as the chain has it                                        *)

LEMMA SameImport ==
    ASSUME NEW f, NEW g
    PROVE  Chain!Import(f, g) = Import(f, g)
  <1>1. \A l : Chain!Written(f.format, l, g) = Written(f.format, l, g)
    BY DEF Chain!Written, Written
  <1>2. Chain!ImportDelta(f.format, f.lines, g)
           = ImportDelta(f.format, f.lines, g)
    BY <1>1 DEF Chain!ImportDelta, ImportDelta
  <1> QED
    BY <1>2 DEF Chain!Import, Import

LEMMA SameEffective ==
    ASSUME NEW s
    PROVE  Chain!Effective(s) = Effective(s)
  BY DEF Chain!Effective, Effective, Chain!CanSuspend, CanSuspend

LEMMA SameDeltaLines ==
    ASSUME NEW s, NEW prior
    PROVE  Chain!DeltaLines(s, prior) = DeltaLines(s, prior)
  <1>1. \A r : Chain!Knows(prior, r) = Knows(prior, r)
    BY DEF Chain!Knows, Knows
  <1>2. \A o : Chain!Knows(Effective(s), o) = Knows(Effective(s), o)
    BY DEF Chain!Knows, Knows
  <1>3. \A r, changed :
           Chain!Pick(s.format, r, changed) = Pick(s.format, r, changed)
    BY DEF Chain!Pick, Pick, Chain!CanSuspend, CanSuspend
  <1>4. Chain!Upserts(s, prior) = Upserts(s, prior)
    BY <1>1, <1>3, SameEffective DEF Chain!Upserts, Upserts
  <1>5. Chain!Removals(s, prior) = Removals(s, prior)
    BY <1>2, SameEffective DEF Chain!Removals, Removals
  <1> QED
    BY <1>4, <1>5 DEF Chain!DeltaLines, DeltaLines

LEMMA SameRender ==
    ASSUME NEW s, s.format.mode = "delta", NEW r, NEW fresh
    PROVE  /\ Chain!Rendered(s, r, fresh) = Rendered(s, r, fresh)
           /\ Chain!Remembered(s) = Remembered(s)
  <1>1. Chain!PriorRows(s, r, fresh) = PriorRows(s, r, fresh)
    BY DEF Chain!PriorRows, PriorRows
  <1>2. Chain!Rendered(s, r, fresh) = Rendered(s, r, fresh)
    BY <1>1, SameDeltaLines DEF Chain!Rendered, Rendered
  <1>3. Chain!Remembered(s) = Remembered(s)
    BY SameEffective DEF Chain!Remembered, Remembered
  <1> QED
    BY <1>2, <1>3

-----------------------------------------------------------------------------
(* What a cycle carries to its commit                                      *)

\* Between a render and the commit nothing touches the roster, so the file is
\* still a diff against it; and without Force the nonce never moves.
RendersInv ==
    /\ TypeOK
    /\ ~straggler
    /\ AppliesFile
    /\ forceNext => Forces
    /\ pc \in {"land", "commit"} =>
          \E fresh \in BOOLEAN : /\ fresh => Forces
                                 /\ data = Rendered(st, roster, fresh)
    /\ \/ Forces
       \/ roster.rows = {}
       \/ \A s \in Desired : roster.nonce = s.nonce

LEMMA RendersInit == Init => RendersInv
  BY TypeInit DEF Init, RendersInv, AppliesFile, Carrying, EmptyRoster

LEMMA RendersStep ==
    ASSUME ChainSite
    PROVE  RendersInv /\ [Next]_vars => RendersInv'
  <1> SUFFICES ASSUME RendersInv, [Next]_vars
               PROVE  RendersInv'
    OBVIOUS
  <1>0. TypeOK /\ TypeOK' /\ AppliesFile' /\ ~straggler /\ SureSite
    BY TypeStep, AppliesFileStep DEF RendersInv, ChainSite
  <1>1. CASE Quiet
    <2>1. ForceFullUpdate => Forces
      BY DEF ForceFullUpdate, Forces, May
    <2> QED
      BY <1>0, <1>1, <2>1, QuietSteps DEF RendersInv, Forces
  <1>2. CASE Render
    <2>1. /\ UNCHANGED <<straggler, roster, st>>
          /\ forceNext' => forceNext
      BY <1>0, <1>2 DEF Render, TypeOK, gateVars, diskVars
    <2>2. PICK fresh \in BOOLEAN : /\ fresh => forceNext \/ "read" \in Env
                                   /\ data' = Rendered(st, roster, fresh)
      BY <1>0, <1>2 DEF Render, May, TypeOK
    <2>3. fresh => Forces
      BY <2>2 DEF RendersInv, Forces
    <2> QED
      BY <1>0, <2>1, <2>2, <2>3 DEF RendersInv, Forces
  <1>3. CASE Land
    BY <1>0, <1>3 DEF Land, RendersInv, Forces, gateVars, cycleVars
  <1>4. CASE Commit
    <2>1. /\ pc = "commit" /\ pc' = "consume"
          /\ UNCHANGED <<straggler, st, forceNext>>
      BY <1>4 DEF Commit, gateVars, cycleVars, forceVars
    <2>2. roster' = Remembered(st) /\ st \in Desired
      BY <1>0, <2>1 DEF AppliesFile, TypeOK
    <2>3. Forces \/ \A s \in Desired : roster'.nonce = s.nonce
      BY <2>2 DEF Forces, Remembered
    <2> QED
      BY <1>0, <2>1, <2>3 DEF RendersInv, Forces
  <1>5. CASE Consume
    <2>1. /\ pc' = "report" /\ UNCHANGED <<roster, forceNext>>
      BY <1>5 DEF Consume, diskVars, forceVars
    <2>2. ~straggler'
      BY <1>0, <1>5, SureSiteConsume
    <2> QED
      BY <1>0, <2>1, <2>2 DEF RendersInv, Forces
  <1>6. CASE Report
    BY <1>0, <1>6 DEF Report, RendersInv, Forces, gateVars, diskVars, forceVars
  <1> QED
    BY <1>0, <1>1, <1>2, <1>3, <1>4, <1>5, <1>6, SureSiteSteps

-----------------------------------------------------------------------------
(* Every step is a step of DeltaChain or none                              *)

\* Outside a commit, what the gate was told and the roster stay as they are.
LEMMA OthersTellNothing ==
    ASSUME ChainSite, RendersInv, Quiet \/ Render \/ Land \/ Consume \/ Report
    PROVE  UNCHANGED <<Told, roster>>
  <1>1. CASE Quiet
    BY <1>1, QuietSteps DEF Told
  <1>2. CASE Render \/ Land \/ Report
    BY <1>2 DEF Render, Land, Report, Told, gateVars, diskVars
  <1>3. CASE Consume
    <2>1. pc = "consume" /\ pc' = "report" /\ UNCHANGED <<file, roster>>
      BY <1>3 DEF Consume, diskVars
    <2>2. gate' = Import(file, gate)
      BY <1>3, SureSiteConsume DEF RendersInv, ChainSite
    <2> QED
      BY <2>1, <2>2 DEF Told
  <1> QED
    BY <1>1, <1>2, <1>3

\* A commit is a whole cycle of the chain.
LEMMA CommitIsACycle ==
    ASSUME ChainSite, RendersInv, Commit, cloud' = cloud
    PROVE  Chain!Next
  <1>1. /\ pc = "commit" /\ pc' = "consume"
        /\ UNCHANGED <<file, gate, st>>
    BY DEF Commit, gateVars, cycleVars
  <1>2. /\ st \in Desired /\ cloud \in Desired /\ st \in State
        /\ st.format = cloud.format /\ st.format.mode = "delta"
        /\ roster \in Roster /\ UniqueCodes(st.creds)
    BY <1>1, DesiredStates, DesiredAssumption DEF RendersInv, TypeOK, ChainSite
  <1>3. PICK fresh \in BOOLEAN : /\ fresh => Forces
                                 /\ data = Rendered(st, roster, fresh)
    BY <1>1 DEF RendersInv
  <1>4. roster' = Remembered(st)
    <2>1. pending = Remembered(st)
      BY <1>1 DEF RendersInv, AppliesFile
    <2>2. Remembered(st) # None
      <3>1. Remembered(st) \in Roster
        BY <1>2 DEF Remembered, Roster, Effective, State
      <3> QED
        BY <3>1, NoneAssumption
    <2> QED
      BY <2>1, <2>2 DEF Commit, May, ChainSite, SureSite
  <1>5. Told = gate /\ Told' = Import(Rendered(st, roster, fresh), gate)
    BY <1>1, <1>3 DEF Told, RendersInv, AppliesFile
  <1>6. /\ st.creds \in SUBSET Row /\ st.nonce \in Nonces
        /\ Chain!Wanted(st.creds, st.nonce) = st
    BY <1>2 DEF Chain!Wanted, State
  <1>7. Chain!Apply(Chain!Wanted(st.creds, st.nonce), fresh)
    <2>1. /\ Chain!Rendered(st, roster, fresh) = Rendered(st, roster, fresh)
          /\ Chain!Remembered(st) = Remembered(st)
      BY <1>2, SameRender
    <2>2. cloud.format' = cloud.format /\ Forces' = Forces
      BY DEF Forces
    <2> QED
      BY <1>4, <1>5, <1>6, <2>1, <2>2, SameImport DEF Chain!Apply
  <1>8. Chain!UniqueCodes(st.creds) /\ st.creds \in SUBSET Chain!Row
    BY <1>2, <1>6
    DEF Chain!UniqueCodes, UniqueCodes, Chain!Row, Row, Chain!Statuses, Statuses
  <1>9. CASE fresh \/ (Forces /\ st.nonce # roster.nonce)
    BY <1>3, <1>6, <1>7, <1>8, <1>9 DEF Chain!Next, Chain!ForcedCycle
  <1>10. CASE ~fresh /\ (Forces => st.nonce = roster.nonce)
    <2>1. st.nonce = roster.nonce \/ roster.rows = {}
      BY <1>2, <1>10 DEF RendersInv
    <2> QED
      BY <1>6, <1>7, <1>8, <1>10, <2>1 DEF Chain!Next, Chain!Cycle
  <1> QED
    BY <1>9, <1>10

LEMMA StepsAreChains ==
    ASSUME ChainSite, RendersInv, RendersInv', [Next]_vars
    PROVE  [Chain!Next]_(Chain!vars)
  <1>1. cloud.format' = cloud.format /\ Forces' = Forces
    BY DEF RendersInv, TypeOK, ChainSite, Forces
  <1>2. CASE Commit
    <2>1. cloud' = cloud
      BY <1>2 DEF Commit, cloudVars
    <2> QED
      BY <1>2, <2>1, CommitIsACycle
  <1>3. CASE Quiet \/ Render \/ Land \/ Consume \/ Report
    BY <1>1, <1>3, OthersTellNothing DEF Chain!vars
  <1> QED
    BY <1>2, <1>3, SureSiteSteps DEF RendersInv, ChainSite

\* The agent implements DeltaChain: whatever is published, pressed, refused by
\* the network or by the disk before the rename, gate and roster move by whole
\* cycles, each a render against the roster of the one before.
THEOREM ChainsHolds ==
    ASSUME ChainSite
    PROVE  Spec => Chains
  <1>1. Init => Chain!Init
    <2> SUFFICES ASSUME Init PROVE Chain!Init
      OBVIOUS
    <2>1. cloud \in Desired /\ roster = EmptyRoster /\ gate = {} /\ pc = "idle"
      BY DEF Init
    <2> QED
      BY <2>1 DEF Chain!Init, Told, Forces, EmptyRoster, Chain!EmptyRoster
  <1>2. Init => RendersInv
    BY RendersInit
  <1>3. RendersInv /\ [Next]_vars => RendersInv'
    BY RendersStep
  <1>4. RendersInv /\ RendersInv' /\ [Next]_vars
            => [Chain!Next]_(Chain!vars)
    BY StepsAreChains
  <1> QED
    BY <1>1, <1>2, <1>3, <1>4, PTL DEF Spec, Chains, Chain!Spec

-----------------------------------------------------------------------------
(* What the agent inherits from DeltaChain                                 *)

\* DeltaChain again, with its theorems.
Proved == INSTANCE DeltaChainProofs WITH
    Formats <- {s.format : s \in Desired},
    format <- cloud.format,
    gate <- Told,
    forces <- Forces

\* Both instances say the same: every definition is expanded.
LEMMA SameChain ==
    /\ Chain!Init <=> Proved!Init
    /\ [Chain!Next]_(Chain!vars) <=> [Proved!Next]_(Proved!vars)
  <1>1. Chain!Init <=> Proved!Init
    BY DEF Chain!Init, Proved!Init, Chain!EmptyRoster, Proved!EmptyRoster
  <1>2. [Chain!Next]_(Chain!vars) <=> [Proved!Next]_(Proved!vars)
    BY DEF Chain!Next, Proved!Next, Chain!vars, Proved!vars,
           Chain!Cycle, Proved!Cycle, Chain!ForcedCycle, Proved!ForcedCycle,
           Chain!Apply, Proved!Apply, Chain!Wanted, Proved!Wanted,
           Chain!UniqueCodes, Proved!UniqueCodes, Chain!Row, Proved!Row,
           Chain!Statuses, Proved!Statuses,
           Chain!Import, Proved!Import, Chain!ImportDelta, Proved!ImportDelta,
           Chain!Written, Proved!Written, Chain!Remembered, Proved!Remembered,
           Chain!Rendered, Proved!Rendered, Chain!FullLines, Proved!FullLines,
           Chain!FullTemplate, Proved!FullTemplate,
           Chain!DeltaLines, Proved!DeltaLines, Chain!Upserts, Proved!Upserts,
           Chain!Removals, Proved!Removals, Chain!Knows, Proved!Knows,
           Chain!Pick, Proved!Pick, Chain!CanSuspend, Proved!CanSuspend,
           Chain!Effective, Proved!Effective,
           Chain!PriorRows, Proved!PriorRows
  <1> QED
    BY <1>1, <1>2

\* So what DeltaChain was shown to promise holds of the agent, through every
\* interleaving of its steps: what the gate was told is what the roster
\* remembers, and after a forced re-emit at least that.
THEOREM ToldIsRoster ==
    ASSUME ChainSite
    PROVE  Spec => [](DeltaFormat(cloud.format) =>
                          /\ roster.rows \subseteq Told
                          /\ ~Forces => Told = roster.rows)
  <1>1. Chains => Proved!Spec
    BY SameChain, PTL DEF Chains, Chain!Spec, Proved!Spec
  <1>2. {s.format : s \in Desired}
           \subseteq {f \in Proved!Format : f.mode = "delta"}
    BY DesiredAssumption
    DEF ChainSite, Proved!Format, Proved!Templates, State, Format, Templates
  <1>3. Proved!Spec => [](Proved!GateIsRoster /\ Proved!GateHasRoster)
    BY <1>2, NonceAssumption, Proved!ChainHolds, PTL
  <1>4. Proved!DeltaFormat(cloud.format) <=> DeltaFormat(cloud.format)
    BY DEF Proved!DeltaFormat, DeltaFormat, Proved!CanSuspend, CanSuspend
  <1>5. Proved!GateIsRoster /\ Proved!GateHasRoster
            => (DeltaFormat(cloud.format) =>
                    /\ roster.rows \subseteq Told
                    /\ ~Forces => Told = roster.rows)
    BY <1>4 DEF Proved!GateIsRoster, Proved!GateHasRoster
  <1> QED
    BY <1>1, <1>3, <1>5, ChainsHolds, PTL
=============================================================================
