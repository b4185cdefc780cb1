-------------------------- MODULE SyncerDeltaProofs --------------------------
(***************************************************************************)
(* What a green dashboard means at a site in delta mode, through failed    *)
(* fetches, writes and heartbeats, edits of state and format, and Force.   *)
(***************************************************************************)
EXTENDS SyncerProofs

\* A site where nothing comes between the commit of the roster and the end of a
\* successful consume (BugDeltaConsume shows what happens otherwise), and where
\* no test provider is tried.
SureSite ==
    /\ HasConsume
    /\ Env \cap {"sender", "kill", "panic", "crash", "save"} = {}
    /\ \A s \in Desired : s.format.mode # "test"

\* One whose formats can also say what they need to, an edit of the format
\* included.
DeltaSite ==
    /\ SureSite
    /\ \A s \in Desired : \/ s.format.mode = "stub"
                          \/ FullFormat(s.format)
                          \/ DeltaFormat(s.format)
    /\ \A s, t \in Desired :
          DeltaFormat(t.format) => ChangeSays(t.format, Effective(s))

\* A state such a site can render: distinct codes and a format of one of the two
\* kinds, never the test provider's.
LEMMA DeltaSiteStates ==
    ASSUME DeltaSite, NEW s \in Desired, s.format.mode # "stub"
    PROVE  /\ s \in State /\ UniqueCodes(s.creds)
           /\ s.format.mode # "test"
           /\ FullFormat(s.format) \/ DeltaFormat(s.format)
  BY DesiredAssumption, DesiredStates DEF DeltaSite, FullFormat, DeltaFormat

\* Whatever format comes next can say the changes of the rows.
Sayable(rows) ==
    \A t \in Desired : DeltaFormat(t.format) => ChangeSays(t.format, rows)

\* The step from the render's file to the gate, for every kind of format.
LEMMA RenderAdmits ==
    ASSUME DeltaSite, NEW s \in Desired, s.format.mode # "stub",
           NEW r \in Roster, NEW fresh \in BOOLEAN, NEW g \in SUBSET Row,
           r.rows \subseteq g, Sayable(g)
    PROVE  /\ Effective(s) \subseteq Import(Rendered(s, r, fresh), g)
           /\ Sayable(Import(Rendered(s, r, fresh), g))
  <1> DEFINE prior == PriorRows(s, r, fresh)
             after == Import(Rendered(s, r, fresh), g)
  <1>0. s \in State /\ UniqueCodes(s.creds)
    BY DeltaSiteStates
  <1>1. Effective(s) \subseteq after /\ after \subseteq g \cup Effective(s)
    <2>1. CASE FullFormat(s.format)
      <3>1. Rendered(s, r, fresh) = Image(s)
        BY <1>0, <2>1, WholeRender DEF Whole, FullFormat
      <3>2. after = Effective(s)
        BY <1>0, <2>1, <3>1, ImageImport
      <3> QED
        BY <3>2
    <2>2. CASE DeltaFormat(s.format)
      <3>1. after = ImportDelta(s.format, DeltaLines(s, prior), g)
        BY <2>2 DEF Import, Rendered, DeltaFormat
      <3>2. prior \in SUBSET Row /\ prior \subseteq g
        BY DEF PriorRows, Roster
      <3>3. ChangeSays(s.format, g)
        BY <2>2 DEF Sayable
      <3> HIDE DEF prior, after
      <3>4. Effective(s) \subseteq after
        BY <1>0, <2>2, <3>1, <3>2, <3>3, DeltaAdmits
      <3>5. after \subseteq g \cup Effective(s)
        BY <1>0, <2>2, <3>1, <3>2, <3>3, DeltaAdds
      <3> QED
        BY <3>4, <3>5
    <2> QED
      BY <2>1, <2>2, DeltaSiteStates
  <1>2. Sayable(after)
    <2> HIDE DEF after
    <2> SUFFICES ASSUME NEW t \in Desired, DeltaFormat(t.format)
                 PROVE  ChangeSays(t.format, after)
      BY DEF Sayable
    <2>1. ChangeSays(t.format, g) /\ ChangeSays(t.format, Effective(s))
      BY DEF Sayable, DeltaSite
    <2> QED
      BY <1>1, <2>1 DEF ChangeSays
  <1> QED
    BY <1>1, <1>2

-----------------------------------------------------------------------------
(* The gate refuses nobody                                                 *)

\* The file of this cycle, from its render to its import.
Carrying == pc \in {"land", "commit", "consume"}

\* What an apply carries: the file it rendered and, beside it, the roster that
\* remembers the file, pending until the commit.
AppliesFile ==
    /\ Carrying \/ pc = "report" => st.format.mode # "stub"
    /\ pc \in {"commit", "consume"} => file = data
    /\ pc \in {"land", "commit"} => pending = Remembered(st)
    /\ pc = "consume" => roster = Remembered(st)
    /\ pc = "report" => exit = 0

\* The gate holds what the roster remembers except while a consume runs, and
\* what the reported state grants except until the report is through.
AdmitsInv ==
    /\ TypeOK
    /\ ~straggler
    /\ AppliesFile
    /\ Sayable(gate)
    /\ Carrying => /\ Effective(st) \subseteq Import(data, gate)
                   /\ Sayable(Import(data, gate))
    /\ pc # "consume" => roster.rows \subseteq gate
    /\ pc = "report" => Effective(st) \subseteq gate
    /\ pc # "report" /\ lastHash # None => Effective(lastHash) \subseteq gate

\* The steps around the agent and those that end or start a cycle leave what an
\* apply carries, the roster and the gate alone.
Quiet ==
    \/ Publish \/ Settle \/ ForceFullUpdate
    \/ TimerFires \/ TokenTaken \/ FetchFails \/ NotModified \/ Pull
    \/ RenderFails \/ WriteFails \/ Finish
    \/ UNCHANGED vars

\* What these steps leave as it is.
LEMMA QuietSteps ==
    ASSUME Quiet
    PROVE  /\ UNCHANGED <<gate, straggler, file, roster, pending>>
           /\ lastHash' \in {lastHash, None}
           /\ \/ UNCHANGED <<pc, st, data, exit>>
              \/ /\ pc \notin {"consume", "report"}
                 /\ pc' \in {"idle", "fetch", "render", "finish"}
           /\ forceNext' = forceNext \/ ForceFullUpdate
  <1>1. CASE Publish \/ Settle \/ ForceFullUpdate \/ UNCHANGED vars
    BY <1>1 DEF Publish, Settle, ForceFullUpdate, vars, gateVars, diskVars,
                cycleVars, forceVars
  <1>2. CASE TimerFires \/ TokenTaken \/ NotModified \/ Pull \/ Finish
    BY <1>2 DEF TimerFires, TokenTaken, NotModified, Pull, Finish, gateVars,
                diskVars, cycleVars, forceVars
  <1>3. CASE FetchFails \/ RenderFails \/ WriteFails
    BY <1>3 DEF FetchFails, RenderFails, WriteFails, Fail, gateVars, diskVars,
                forceVars
  <1> QED
    BY <1>1, <1>2, <1>3 DEF Quiet

\* At such a site nothing but the cycle moves the gate, and no step is lost.
LEMMA SureSiteSteps ==
    ASSUME SureSite, ~straggler, [Next]_vars
    PROVE  Quiet \/ Render \/ Land \/ Commit \/ Consume \/ Report
  <1>1. ~Crash /\ ~Panic
    BY DEF Crash, Panic, May, SureSite
  <1>2. ~GateReads /\ ~StragglerSends
    BY DEF GateReads, StragglerSends, SureSite
  <1> QED
    BY <1>1, <1>2 DEF Next, Cycle, Quiet

\* There a consume run has one outcome: the file is imported.
LEMMA SureSiteConsume ==
    ASSUME SureSite, ~straggler, Consume
    PROVE  exit' = 0 /\ gate' = Import(file, gate) /\ ~straggler'
  BY ConsumeOutcome DEF SureSite, ConsumeExits

\* Every step keeps file, pending roster and committed roster those of the state
\* the cycle applies (Render, apply's order of calls, CommitApplied).
LEMMA AppliesFileStep ==
    ASSUME SureSite
    PROVE  TypeOK /\ ~straggler /\ AppliesFile /\ [Next]_vars
              => AppliesFile'
  <1> SUFFICES ASSUME TypeOK, ~straggler, AppliesFile, [Next]_vars
               PROVE  AppliesFile'
    OBVIOUS
  <1>1. CASE Quiet
    BY <1>1, QuietSteps DEF AppliesFile, Carrying
  <1>2. CASE Render
    <2>1. st \in Desired /\ st.format.mode # "stub"
      BY <1>2 DEF Render, TypeOK
    <2>2. st.format.mode # "test"
      BY <2>1 DEF SureSite
    <2> QED
      BY <1>2, <2>1, <2>2 DEF Render, AppliesFile, Carrying
  <1>3. CASE Land
    BY <1>3 DEF Land, AppliesFile, Carrying, cycleVars
  <1>4. CASE Commit
    <2>1. pending = Remembered(st) /\ pending # None
      <3>1. Remembered(st) \in Roster
        <4>1. st \in State
          BY <1>4, DesiredStates DEF Commit, TypeOK
        <4> QED
          BY <4>1 DEF Remembered, Roster, Effective, State
      <3> QED
        BY <1>4, <3>1, NoneAssumption DEF Commit, AppliesFile
    <2>2. roster' = Remembered(st)
      BY <1>4, <2>1 DEF Commit, May, SureSite
    <2> QED
      BY <1>4, <2>2 DEF Commit, AppliesFile, Carrying, cycleVars
  <1>5. CASE Consume
    BY <1>5, SureSiteConsume DEF Consume, AppliesFile, Carrying, diskVars
  <1>6. CASE Report
    BY <1>6 DEF Report, AppliesFile, Carrying
  <1> QED
    BY <1>1, <1>2, <1>3, <1>4, <1>5, <1>6, SureSiteSteps

\* Every step keeps the gate ahead of the roster.
LEMMA AdmitsStep ==
    ASSUME DeltaSite
    PROVE  AdmitsInv /\ [Next]_vars => AdmitsInv'
  <1> SUFFICES ASSUME AdmitsInv, [Next]_vars
               PROVE  AdmitsInv'
    OBVIOUS
  <1>0. TypeOK /\ TypeOK' /\ AppliesFile' /\ ~straggler
    BY TypeStep, AppliesFileStep DEF AdmitsInv, DeltaSite
  <1>1. CASE Quiet
    BY <1>0, <1>1, QuietSteps DEF AdmitsInv, Carrying, Sayable
  <1>2. CASE Render
    <2>1. st \in Desired /\ st.format.mode # "stub"
      BY <1>0, <1>2 DEF Render, TypeOK
    <2>2. /\ roster \in Roster /\ forceNext \in BOOLEAN
          /\ gate \in SUBSET Row /\ roster.rows \subseteq gate
          /\ Sayable(gate)
      BY <1>0, <1>2 DEF Render, TypeOK, AdmitsInv
    <2>3. /\ pc = "render" /\ pc' = "land"
          /\ UNCHANGED <<gate, straggler, roster, st, lastHash>>
      BY <1>2 DEF Render, gateVars, diskVars
    <2>4. PICK fresh \in BOOLEAN : data' = Rendered(st, roster, fresh)
      BY <1>2, <2>2 DEF Render
    <2>5. /\ Effective(st) \subseteq Import(data', gate)
          /\ Sayable(Import(data', gate))
      BY <2>1, <2>2, <2>4, RenderAdmits
    <2> QED
      BY <1>0, <2>3, <2>5 DEF AdmitsInv, Carrying, Sayable
  <1>3. CASE Land
    BY <1>0, <1>3 DEF Land, AdmitsInv, Carrying, Sayable, gateVars, cycleVars
  <1>4. CASE Commit
    BY <1>0, <1>4 DEF Commit, AdmitsInv, Carrying, Sayable, gateVars,
                      cycleVars
  <1>5. CASE Consume
    <2>1. /\ pc = "consume" /\ pc' = "report"
          /\ UNCHANGED <<roster, st, lastHash>>
      BY <1>5 DEF Consume, diskVars
    <2>2. gate' = Import(data, gate) /\ ~straggler'
      BY <1>0, <1>5, <2>1, SureSiteConsume
      DEF DeltaSite, AdmitsInv, AppliesFile
    <2>3. Effective(st) \subseteq gate' /\ Sayable(gate')
      BY <2>1, <2>2 DEF AdmitsInv, Carrying
    <2>4. roster.rows = Effective(st)
      BY <2>1 DEF AdmitsInv, AppliesFile, Remembered
    <2> QED
      BY <1>0, <2>1, <2>2, <2>3, <2>4 DEF AdmitsInv, Carrying, Sayable
  <1>6. CASE Report
    BY <1>0, <1>6 DEF Report, AdmitsInv, AppliesFile, Carrying, Sayable,
                      gateVars, diskVars
  <1> QED
    BY <1>0, <1>1, <1>2, <1>3, <1>4, <1>5, <1>6, SureSiteSteps
    DEF DeltaSite

\* An empty gate refuses nobody yet.
LEMMA AdmitsInit == Init => AdmitsInv
  <1> SUFFICES ASSUME Init PROVE AdmitsInv
    OBVIOUS
  <1>1. TypeOK /\ roster.rows = {} /\ gate = {} /\ Sayable(gate)
    BY TypeInit DEF Init, EmptyRoster, Sayable, ChangeSays
  <1> QED
    BY <1>1 DEF Init, AdmitsInv, AppliesFile, Carrying

\* In delta mode green means the gate refuses nobody it should admit, through
\* failed fetches, writes and heartbeats, edits of the state and the format,
\* states that come back, and Force by button and by nonce.
THEOREM GreenAdmitsHolds ==
    ASSUME DeltaSite
    PROVE  Spec => []GreenAdmits
  <1>1. AdmitsInv => GreenAdmits
    BY DEF AdmitsInv, GreenAdmits, Green, Unlanded
  <1> QED
    BY <1>1, AdmitsInit, AdmitsStep, PTL DEF Spec

-----------------------------------------------------------------------------
(* The gate admits nobody else                                             *)

\* Nobody presses Force, the console leaves its nonce alone, and the roster can
\* be read.
NoForce ==
    /\ {"press", "read"} \cap Env = {}
    /\ \A s, t \in Desired : s.nonce = t.nonce

\* Every file is a diff against the rows the gate holds, and leaves it with the
\* rows of the state.
ExactInv ==
    /\ AdmitsInv
    /\ ~forceNext
    /\ UniqueCodes(roster.rows)
    /\ roster.rows = {} \/ \A s \in Desired : roster.nonce = s.nonce
    /\ Carrying => Import(data, gate) = Effective(st)
    /\ pc # "consume" => gate = roster.rows
    /\ pc = "report" => gate = Effective(st)
    /\ pc # "report" /\ lastHash # None => gate = Effective(lastHash)

\* An unforced render is the diff against the roster, in either mode.
LEMMA RenderIsExact ==
    ASSUME DeltaSite, NEW s \in Desired, s.format.mode # "stub",
           NEW r \in Roster, Sayable(r.rows), UniqueCodes(r.rows),
           r.rows = {} \/ r.nonce = s.nonce
    PROVE  Import(Rendered(s, r, FALSE), r.rows) = Effective(s)
  <1>1. s \in State /\ UniqueCodes(s.creds)
    BY DeltaSiteStates
  <1>2. CASE FullFormat(s.format)
    <2>1. Rendered(s, r, FALSE) = Image(s)
      BY <1>1, <1>2, WholeRender DEF Whole, FullFormat
    <2> QED
      BY <1>1, <1>2, <2>1, ImageImport
  <1>3. CASE DeltaFormat(s.format)
    <2>1. PriorRows(s, r, FALSE) = r.rows
      BY DEF PriorRows
    <2>2. Import(Rendered(s, r, FALSE), r.rows)
             = ImportDelta(s.format, DeltaLines(s, r.rows), r.rows)
      BY <1>3, <2>1 DEF Import, Rendered, DeltaFormat
    <2>3. ChangeSays(s.format, r.rows) /\ r.rows \in SUBSET Row
      BY <1>3 DEF Sayable, Roster
    <2> QED
      BY <1>1, <1>3, <2>2, <2>3, DiffIsExact
  <1> QED
    BY <1>2, <1>3, DeltaSiteStates

\* Every step keeps the gate equal to the roster between two consume runs.
LEMMA ExactStep ==
    ASSUME DeltaSite, NoForce
    PROVE  ExactInv /\ [Next]_vars => ExactInv'
  <1> SUFFICES ASSUME ExactInv, [Next]_vars
               PROVE  ExactInv'
    OBVIOUS
  <1>0. AdmitsInv /\ AdmitsInv' /\ TypeOK /\ ~straggler
    BY AdmitsStep DEF ExactInv, AdmitsInv
  <1>1. CASE Quiet
    <2>1. ~ForceFullUpdate
      BY DEF NoForce, ForceFullUpdate, May
    <2> QED
      BY <1>0, <1>1, <2>1, QuietSteps DEF ExactInv, Carrying, UniqueCodes
  <1>2. CASE Render
    <2>1. st \in Desired /\ st.format.mode # "stub"
      BY <1>0, <1>2 DEF Render, TypeOK
    <2>2. /\ pc = "render" /\ pc' = "land" /\ ~forceNext'
          /\ data' = Rendered(st, roster, FALSE)
          /\ UNCHANGED <<gate, roster, st, lastHash>>
      BY <1>0, <1>2 DEF Render, ExactInv, TypeOK, NoForce, May, gateVars, diskVars
    <2>3. gate = roster.rows /\ roster \in Roster /\ Sayable(roster.rows)
      BY <1>0, <2>2 DEF ExactInv, AdmitsInv, TypeOK
    <2>4. Import(data', gate) = Effective(st)
      BY <2>1, <2>2, <2>3, RenderIsExact DEF ExactInv
    <2> QED
      BY <1>0, <2>2, <2>4 DEF ExactInv, Carrying, UniqueCodes
  <1>3. CASE Land
    BY <1>0, <1>3 DEF Land, ExactInv, Carrying, UniqueCodes, gateVars,
                      cycleVars
  <1>4. CASE Commit
    <2>1. /\ pc = "commit" /\ pc' = "consume"
          /\ UNCHANGED <<gate, st, data, lastHash, forceNext>>
      BY <1>4 DEF Commit, gateVars, cycleVars, forceVars
    <2>2. roster' = [nonce |-> st.nonce, rows |-> Effective(st)]
      BY <1>0, <2>1 DEF AdmitsInv, AppliesFile, Remembered
    <2>3. st \in Desired
      BY <1>0, <2>1 DEF TypeOK
    <2>4. UniqueCodes(roster'.rows)
      BY <2>2, <2>3, DesiredAssumption DEF UniqueCodes, Effective
    <2>5. \A s \in Desired : roster'.nonce = s.nonce
      BY <2>2, <2>3 DEF NoForce
    <2> QED
      BY <1>0, <2>1, <2>4, <2>5 DEF ExactInv, Carrying, UniqueCodes
  <1>5. CASE Consume
    <2>1. /\ pc = "consume" /\ pc' = "report"
          /\ UNCHANGED <<roster, st, lastHash, forceNext>>
      BY <1>5 DEF Consume, diskVars, forceVars
    <2>2. gate' = Import(data, gate)
      BY <1>0, <1>5, <2>1, SureSiteConsume
      DEF DeltaSite, AdmitsInv, AppliesFile
    <2>3. gate' = Effective(st) /\ roster.rows = Effective(st)
      BY <1>0, <2>1, <2>2
      DEF ExactInv, AdmitsInv, AppliesFile, Carrying, Remembered
    <2> QED
      BY <1>0, <2>1, <2>3 DEF ExactInv, Carrying, UniqueCodes
  <1>6. CASE Report
    <2>1. /\ pc = "report" /\ pc' = "finish"
          /\ UNCHANGED <<gate, roster, st, forceNext>>
      BY <1>6 DEF Report, gateVars, diskVars, forceVars
    <2> QED
      BY <1>0, <1>6, <2>1
      DEF Report, ExactInv, AdmitsInv, AppliesFile, Carrying, UniqueCodes
  <1> QED
    BY <1>0, <1>1, <1>2, <1>3, <1>4, <1>5, <1>6, SureSiteSteps
    DEF DeltaSite

\* Nothing told, nothing held.
LEMMA ExactInit == Init => ExactInv
  BY AdmitsInit DEF Init, ExactInv, Carrying, EmptyRoster, UniqueCodes

\* Without Force the gate also admits nobody else: it holds exactly the rows
\* the applied state grants, in delta mode, in full mode and across changes of
\* the format.
THEOREM GreenGateExact ==
    ASSUME DeltaSite, NoForce
    PROVE  Spec => []GreenGate
  <1>1. Init => ExactInv
    BY ExactInit
  <1>2. ExactInv => GreenGate
    BY DEF ExactInv, GreenGate, Green, Unlanded
  <1> QED
    BY <1>1, <1>2, ExactStep, PTL DEF Spec
=============================================================================
