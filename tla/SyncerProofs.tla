---------------------------- MODULE SyncerProofs ----------------------------
(***************************************************************************)
(* The core loop's invariants for every set of desired states: the types,  *)
(* and what a green dashboard means in full mode.                          *)
(***************************************************************************)
EXTENDS Syncer, GateFormatProofs

\* The console's desired states are states, apart from None.
LEMMA DesiredStates == Desired \subseteq State /\ None \notin Desired
  BY DesiredAssumption, NoneAssumption

LEMMA NoFileIsFile == NoFile \in File
  BY DEF NoFile, File

\* Every way a consume run can end, by its exit code: an exit of 0 means the
\* file was imported, and only on Unix can a killed command have the exit of no
\* command at all.
ConsumeExits ==
    \/ exit' = 0 /\ gate' = Import(file, gate)
    \/ exit' = -1 /\ (HasConsume => ~Windows /\ "kill" \in Env)
    \/ exit' \in {-2, 1} /\ HasConsume /\ {"sender", "kill"} \cap Env # {}

LEMMA ConsumeOutcome ==
    ASSUME Consume
    PROVE  /\ ConsumeExits
           /\ gate' \in {gate, Import(file, gate)}
           /\ straggler' = straggler \/ (straggler' /\ "kill" \in Env)
           /\ ~HasConsume => exit' = -1 /\ gate' = gate
  <1>1. CASE ~HasConsume
    BY <1>1 DEF Consume, NoCommand, ConsumeExits, gateVars
  <1>2. CASE HasConsume
    <2>1. CASE SenderEnds(0)
      BY <1>2, <2>1 DEF SenderEnds, ConsumeExits
    <2>2. CASE SenderFails({1, -2}) \/ SenderFails({1})
      <3>1. "sender" \in Env /\ straggler' = straggler
        BY <2>2 DEF SenderFails, May
      <3>2. exit' \in {-2, 1} /\ gate' \in {gate, Import(file, gate)}
        BY <2>2 DEF SenderFails
      <3> QED
        BY <1>2, <3>1, <3>2 DEF ConsumeExits
    <2>3. CASE ShellKilled(-2) \/ ShellKilled(IF Windows THEN 1 ELSE -1)
      <3>1. "kill" \in Env /\ straggler' /\ gate' = gate
        BY <2>3 DEF ShellKilled, May
      <3>2. exit' \in {-2, 1} \/ (exit' = -1 /\ ~Windows)
        BY <2>3, SiteAssumption DEF ShellKilled
      <3> QED
        BY <1>2, <3>1, <3>2 DEF ConsumeExits
    <2>4. CASE ~Windows /\ SenderDies(-1)
      <3>1. "kill" \in Env /\ exit' = -1 /\ straggler' = straggler
        BY <2>4 DEF SenderDies, May
      <3>2. gate' \in {gate, Import(file, gate)}
        BY <2>4 DEF SenderDies
      <3> QED
        BY <1>2, <2>4, <3>1, <3>2 DEF ConsumeExits
    <2>5. CASE NotStarted
      <3>1. "sender" \in Env /\ straggler' = straggler /\ gate' = gate
        BY <2>5 DEF NotStarted, May, gateVars
      <3>2. exit' = -2
        BY <2>5 DEF NotStarted
      <3> QED
        BY <1>2, <3>1, <3>2 DEF ConsumeExits
    <2> QED
      BY <1>2, <2>1, <2>2, <2>3, <2>4, <2>5 DEF Consume, InSession, OwnShell
  <1> QED
    BY <1>1, <1>2, SiteAssumption

\* What each step does to the types of the variables.
LEMMA TypeStep == TypeOK /\ [Next]_vars => TypeOK'
  <1> SUFFICES ASSUME TypeOK, [Next]_vars
               PROVE  TypeOK'
    OBVIOUS
  <1> USE DesiredStates, NoFileIsFile, DesiredAssumption
  <1>1. CASE Publish
    BY <1>1 DEF Publish, TypeOK, gateVars, diskVars, cycleVars, forceVars
  <1>2. CASE Settle
    BY <1>2 DEF Settle, TypeOK, gateVars, diskVars, cycleVars, forceVars
  <1>3. CASE ForceFullUpdate
    BY <1>3 DEF ForceFullUpdate, TypeOK, cloudVars, gateVars, diskVars,
                cycleVars
  <1>4. CASE GateReads
    BY <1>4, ImportIsTable
    DEF GateReads, TypeOK, cloudVars, diskVars, cycleVars, forceVars
  <1>5. CASE StragglerSends
    BY <1>5, ImportIsTable
    DEF StragglerSends, TypeOK, cloudVars, diskVars, cycleVars, forceVars
  <1>6. CASE Crash
    BY <1>6 DEF Crash, TypeOK, Steps, Exits, cloudVars, gateVars, diskVars
  <1>7. CASE TimerFires
    BY <1>7 DEF TimerFires, TypeOK, Steps, cloudVars, gateVars, diskVars,
                cycleVars, forceVars
  <1>8. CASE TokenTaken
    BY <1>8 DEF TokenTaken, TypeOK, Steps, cloudVars, gateVars, diskVars,
                cycleVars
  <1>9. CASE FetchFails \/ RenderFails \/ WriteFails
    BY <1>9 DEF FetchFails, RenderFails, WriteFails, Fail, TypeOK, Steps,
                cloudVars, gateVars, diskVars, forceVars
  <1>10. CASE NotModified
    BY <1>10 DEF NotModified, TypeOK, Steps, cloudVars, gateVars, diskVars,
                 forceVars
  <1>11. CASE Pull
    BY <1>11 DEF Pull, TypeOK, Steps, cloudVars, gateVars, diskVars, forceVars
  <1>12. CASE Render
    <2>1. st \in State /\ st.format.mode # "stub"
      BY <1>12 DEF Render, TypeOK
    <2>2. data' \in File
      <3>1. PICK fresh \in BOOLEAN : data' = Rendered(st, roster, fresh)
        BY <1>12 DEF Render, TypeOK
      <3> QED
        BY <2>1, <3>1, RenderedIsFile DEF TypeOK
    <2>3. Remembered(st) \in Roster
      BY <2>1 DEF Remembered, Roster, Effective, State
    <2> QED
      BY <1>12, <2>2, <2>3
      DEF Render, TypeOK, Steps, cloudVars, gateVars, diskVars
  <1>13. CASE Land
    BY <1>13 DEF Land, TypeOK, Steps, cloudVars, gateVars, cycleVars
  <1>14. CASE Commit
    BY <1>14 DEF Commit, TypeOK, Steps, cloudVars, gateVars, cycleVars,
                 forceVars
  <1>15. CASE Consume
    <2>1. Import(file, gate) \subseteq Row
      BY ImportIsTable DEF TypeOK
    <2>2. gate' \subseteq Row /\ straggler' \in BOOLEAN /\ exit' \in Exits
      BY <1>15, <2>1, ConsumeOutcome DEF TypeOK, ConsumeExits, Exits
    <2> QED
      BY <1>15, <2>2
      DEF Consume, TypeOK, Steps, cloudVars, diskVars, forceVars
  <1>16. CASE Report
    BY <1>16 DEF Report, TypeOK, Steps, cloudVars, gateVars, diskVars,
                 forceVars
  <1>17. CASE Finish
    BY <1>17 DEF Finish, TypeOK, Steps, Exits, cloudVars, gateVars, diskVars,
                 forceVars
  <1>18. CASE Panic
    BY <1>18 DEF Panic, TypeOK, Steps, Exits, cloudVars, gateVars, diskVars,
                 forceVars
  <1>19. CASE UNCHANGED vars
    BY <1>19 DEF vars, TypeOK, cloudVars, gateVars, diskVars, cycleVars,
                 forceVars
  <1> QED
    BY <1>1, <1>2, <1>3, <1>4, <1>5, <1>6, <1>7, <1>8, <1>9, <1>10, <1>11,
       <1>12, <1>13, <1>14, <1>15, <1>16, <1>17, <1>18, <1>19
    DEF Next, Cycle

LEMMA TypeInit == Init => TypeOK
  <1>1. EmptyRoster \in Roster
    BY NonceAssumption DEF Roster, EmptyRoster
  <1>2. ASSUME Init
        PROVE  /\ cloud \in Desired /\ published \in Seq(Desired)
               /\ gate \subseteq Row /\ file \in File /\ data \in File
               /\ roster \in Roster
    BY <1>1, <1>2, NoFileIsFile DEF Init
  <1>3. ASSUME Init
        PROVE  /\ console \in [ok : BOOLEAN, hash : Desired \cup {None}]
               /\ pc \in Steps /\ exit \in Exits
    BY <1>3 DEF Init, Steps, Exits
  <1> QED
    BY <1>2, <1>3 DEF Init, TypeOK

\* Syncer's type invariant.
THEOREM TypeCorrect == Spec => []TypeOK
  BY TypeInit, TypeStep, PTL DEF Spec

-----------------------------------------------------------------------------
(* The file                                                                *)

\* Every file but a delta one is determined by its state alone.
Whole(s) == s.format.mode # "delta"
Image(s) == Rendered(s, EmptyRoster, FALSE)

LEMMA WholeRender ==
    ASSUME NEW s \in State, Whole(s), NEW r, NEW fresh
    PROVE  Rendered(s, r, fresh) = Image(s)
  BY DEF Whole, Image, Rendered

\* The agent is between a 200 and the end of apply; the file has landed.
Applying == pc \in {"render", "land", "commit", "consume", "report"}
Landed == pc \in {"commit", "consume", "report"}

FileMatches == lastHash # None /\ Whole(lastHash) => file = Image(lastHash)

\* What a cycle carries from its render to the file.
CarryInv ==
    /\ TypeOK
    /\ pc = "land" /\ Whole(st) => data = Image(st)
    /\ Landed /\ Whole(st) => file = Image(st)

\* The steps outside the Run goroutine leave its state and the file alone.
Outside == Publish \/ Settle \/ ForceFullUpdate \/ GateReads \/ StragglerSends

agentVars == <<file, pc, st, data, exit, good, lastHash, ok>>

LEMMA OutsideSteps == Outside \/ UNCHANGED vars => UNCHANGED agentVars
  BY DEF Outside, Publish, Settle, ForceFullUpdate, GateReads,
         StragglerSends, vars, agentVars, diskVars, cycleVars

\* The steps that end a cycle or start one, as far as the file is concerned.
LEMMA CarryStep == CarryInv /\ [Next]_vars => CarryInv'
  <1> SUFFICES ASSUME CarryInv, [Next]_vars
               PROVE  CarryInv'
    OBVIOUS
  <1>0. TypeOK' /\ TypeOK
    BY TypeStep DEF CarryInv
  <1>1. CASE Outside \/ UNCHANGED vars
    BY <1>0, <1>1, OutsideSteps DEF CarryInv, agentVars, Landed
  <1>2. CASE pc' \in {"idle", "fetch", "render", "finish"}
    BY <1>0, <1>2 DEF CarryInv, Landed
  <1>3. CASE Render
    <2>1. st \in State /\ st' = st /\ pc' = "land"
      BY <1>0, <1>3, DesiredStates DEF Render, TypeOK
    <2>2. Whole(st) => data' = Image(st)
      BY <1>3, <2>1, WholeRender DEF Render
    <2> QED
      BY <1>0, <2>1, <2>2 DEF CarryInv, Landed
  <1>4. CASE Land
    BY <1>0, <1>4 DEF Land, CarryInv, Landed, cycleVars
  <1>5. CASE Commit \/ Consume
    BY <1>0, <1>5 DEF Commit, Consume, CarryInv, Landed, cycleVars, diskVars
  <1>6. CASE Crash \/ TimerFires \/ TokenTaken \/ FetchFails \/ NotModified
             \/ Pull \/ RenderFails \/ WriteFails \/ Report \/ Finish \/ Panic
    BY <1>2, <1>6
    DEF Crash, TimerFires, TokenTaken, FetchFails, NotModified, Pull,
        RenderFails, WriteFails, Report, Finish, Panic, Fail
  <1> QED
    BY <1>1, <1>3, <1>4, <1>5, <1>6 DEF Next, Cycle, Outside

LEMMA CarryInit == Init => CarryInv /\ FileMatches
  BY TypeInit DEF Init, CarryInv, Landed, FileMatches

\* Where a state the console left never comes back: the hash the agent would
\* get a 304 for is that of the file, or the server has moved on for good.
HashInv ==
    /\ cloud \in Published
    /\ lastHash \in Published \cup {None}
    /\ st \in Published \cup {None}
    /\ Applying => lastHash # cloud
    /\ FileMatches \/ lastHash # cloud
    /\ pc = "finish" /\ good => FileMatches
    /\ Unlanded /\ ok => FileMatches

\* A state that is appended joins those that were published.
LEMMA PublishedGrows ==
    ASSUME published \in Seq(Desired), NEW s \in Desired,
           published' = Append(published, s)
    PROVE  Published' = Published \cup {s}
  BY DEF Published

LEMMA HashStep ==
    ASSUME "revert" \notin Env
    PROVE  CarryInv /\ HashInv /\ [Next]_vars => HashInv'
  <1> SUFFICES ASSUME CarryInv, HashInv, [Next]_vars
               PROVE  HashInv'
    OBVIOUS
  <1>0. TypeOK
    BY DEF CarryInv
  <1>1. CASE Publish
    <2>1. cloud' \notin Published /\ cloud' # None /\ cloud' \in Desired
      BY <1>1, DesiredStates DEF Publish
    <2>2. published' = Append(published, cloud')
      BY <1>1, <1>0 DEF Publish
    <2>3. Published' = Published \cup {cloud'}
      BY <1>0, <2>1, <2>2, PublishedGrows DEF TypeOK
    <2>4. UNCHANGED agentVars
      BY <1>1, OutsideSteps DEF Outside
    <2> QED
      BY <2>1, <2>3, <2>4 DEF HashInv, FileMatches, Applying, agentVars,
                              Unlanded
  <1>2. CASE Settle \/ ForceFullUpdate \/ GateReads \/ StragglerSends
             \/ UNCHANGED vars
    <2>1. UNCHANGED <<cloud, published>>
      BY <1>2 DEF Settle, ForceFullUpdate, GateReads, StragglerSends, vars,
                  cloudVars
    <2>2. UNCHANGED agentVars
      BY <1>2, OutsideSteps DEF Outside
    <2> QED
      BY <2>1, <2>2 DEF HashInv, Published, FileMatches, Applying, agentVars,
                        Unlanded
  <1>3. CASE Crash \/ TokenTaken
    BY <1>3, DesiredStates, <1>0
    DEF Crash, TokenTaken, HashInv, Published, FileMatches, Applying, TypeOK,
        cloudVars, diskVars, cycleVars
  <1>4. CASE TimerFires \/ FetchFails \/ RenderFails \/ WriteFails
    BY <1>4 DEF TimerFires, FetchFails, RenderFails, WriteFails, Fail,
                HashInv, Published, FileMatches, Applying, cloudVars, diskVars,
                cycleVars, Unlanded
  <1>5. CASE NotModified \/ Pull
    BY <1>5 DEF NotModified, Pull, HashInv, Published, FileMatches,
                Applying, cloudVars, diskVars, cycleVars, Unlanded
  <1>6. CASE Render \/ Land \/ Commit \/ Consume
    <2>1. /\ UNCHANGED <<cloud, published, lastHash, st, ok>>
          /\ pc \in {"render", "land", "commit", "consume"}
          /\ pc' \in {"land", "commit", "consume", "report"}
          /\ pc' # "land" \/ (pc = "render" /\ file' = file)
      BY <1>6 DEF Render, Land, Commit, Consume, cloudVars, diskVars, cycleVars
    <2> QED
      BY <2>1 DEF HashInv, Published, FileMatches, Applying, Unlanded
  <1>7. CASE Report
    BY <1>7 DEF Report, CarryInv, HashInv, Published, FileMatches, Applying,
                Landed, cloudVars, diskVars, cycleVars, Unlanded
  <1>8. CASE Finish \/ Panic
    BY <1>8 DEF Finish, Panic, HashInv, Published, FileMatches, Applying,
                cloudVars, diskVars
  <1> QED
    BY <1>1, <1>2, <1>3, <1>4, <1>5, <1>6, <1>7, <1>8 DEF Next, Cycle

LEMMA HashInit == Init => HashInv
  <1> SUFFICES ASSUME Init PROVE HashInv
    OBVIOUS
  <1>1. cloud \in Published
    BY DEF Init, Published
  <1>2. FileMatches
    BY CarryInit
  <1> QED
    BY <1>1, <1>2 DEF Init, HashInv, Applying

\* Green means the file is the rendering of the applied state, through every
\* failure, kill and restart, as long as no desired state is published twice.
THEOREM GreenFileHolds ==
    ASSUME "revert" \notin Env
    PROVE  Spec => []GreenFile
  <1>1. Init => CarryInv /\ HashInv
    BY CarryInit, HashInit
  <1>2. CarryInv /\ HashInv /\ [Next]_vars => (CarryInv /\ HashInv)'
    BY CarryStep, HashStep
  <1>3. HashInv => GreenFile
    BY DEF HashInv, FileMatches, GreenFile, Green, Whole, Image
  <1> QED
    BY <1>1, <1>2, <1>3, PTL DEF Spec

\* Without a consume command, and with no panic after the rename, a cycle that
\* fails leaves the file of the last applied state, whatever is published.
KeepInv ==
    /\ ~Landed => FileMatches
    /\ pc = "report" => exit = -1

THEOREM PreviousFileKept ==
    ASSUME ~HasConsume, "panic" \notin Env
    PROVE  Spec => []PreviousFileStays
  <1>1. Init => CarryInv /\ KeepInv
    BY CarryInit DEF Init, KeepInv
  <1>2. CarryInv /\ KeepInv /\ [Next]_vars => KeepInv'
    <2> SUFFICES ASSUME CarryInv, KeepInv, [Next]_vars
                 PROVE  KeepInv'
      OBVIOUS
    <2>1. CASE Outside \/ UNCHANGED vars
      BY <2>1, OutsideSteps DEF KeepInv, FileMatches, Landed, agentVars
    <2>2. CASE Crash \/ TokenTaken
      BY <2>2 DEF Crash, TokenTaken, KeepInv, FileMatches, Landed, diskVars
    <2>3. CASE TimerFires \/ FetchFails \/ NotModified \/ Pull
               \/ RenderFails \/ Render \/ WriteFails
      BY <2>3 DEF TimerFires, FetchFails, NotModified, Pull, RenderFails,
                  Render, WriteFails, Fail, KeepInv, FileMatches, Landed,
                  diskVars
    <2>4. CASE Land \/ Commit \/ Consume
      BY <2>4, ConsumeOutcome DEF Land, Commit, Consume, KeepInv, Landed
    <2>5. CASE Report
      BY <2>5 DEF Report, CarryInv, KeepInv, FileMatches, Landed, diskVars
    <2>6. CASE Finish
      BY <2>6 DEF Finish, KeepInv, FileMatches, Landed, diskVars
    <2>7. CASE Panic
      BY <2>7 DEF Panic, May
    <2> QED
      BY <2>1, <2>2, <2>3, <2>4, <2>5, <2>6, <2>7 DEF Next, Cycle, Outside
  <1>3. KeepInv => PreviousFileStays
    BY DEF KeepInv, FileMatches, PreviousFileStays, Landed, Whole, Image,
           Unlanded
  <1> QED
    BY <1>1, <1>2, <1>3, CarryStep, PTL DEF Spec
-----------------------------------------------------------------------------
(* The gate                                                                *)

\* Importing a full file makes the gate's table the effective set, whatever
\* the gate held.
LEMMA ImageImport ==
    ASSUME NEW s \in State, FullFormat(s.format), NEW g
    PROVE  Import(Image(s), g) = Effective(s)
  <1>1. /\ Image(s).format.mode = "full"
        /\ Image(s).lines = FullLines(s)
    BY DEF Image, Rendered, FullFormat
  <1> QED
    BY <1>1, FullIsExact DEF Import

GateMatches ==
    lastHash # None /\ FullFormat(lastHash.format)
        => gate = Effective(lastHash)

\* The gate follows the file: an exit of 0 means the file was imported, and a
\* sender that is late imports the file of the state the agent reports.
GateInv ==
    HasConsume =>
        /\ GateMatches \/ lastHash # cloud
        /\ pc = "report" /\ exit \in {-1, 0} /\ FullFormat(st.format)
              => gate = Effective(st)
        /\ pc = "finish" /\ good => GateMatches
        /\ Unlanded /\ ok => GateMatches

LEMMA GateStep ==
    ASSUME "revert" \notin Env, Windows \/ "kill" \notin Env
    PROVE  CarryInv /\ HashInv /\ GateInv /\ [Next]_vars => GateInv'
  <1> SUFFICES ASSUME CarryInv, HashInv, GateInv, [Next]_vars, HasConsume
               PROVE  GateInv'
    BY DEF GateInv
  <1>0. TypeOK /\ Desired \subseteq State /\ None \notin Desired
    BY DesiredStates DEF CarryInv
  <1>1. CASE Publish
    <2>1. cloud' \notin Published /\ cloud' # None
      BY <1>0, <1>1 DEF Publish
    <2>2. UNCHANGED <<gate, agentVars>>
      BY <1>1, OutsideSteps DEF Outside, Publish, gateVars
    <2> QED
      BY <2>1, <2>2 DEF HashInv, GateInv, GateMatches, agentVars, Unlanded
  <1>2. CASE Settle \/ ForceFullUpdate \/ UNCHANGED vars
    <2>1. UNCHANGED <<cloud, gate>>
      BY <1>2 DEF Settle, ForceFullUpdate, vars, cloudVars, gateVars
    <2>2. UNCHANGED agentVars
      BY <1>2, OutsideSteps DEF Outside
    <2> QED
      BY <2>1, <2>2 DEF GateInv, GateMatches, agentVars, Unlanded
  <1>3. CASE StragglerSends
    <2>1. gate' = Import(file, gate) /\ UNCHANGED cloud
      BY <1>3 DEF StragglerSends, cloudVars
    <2>2. UNCHANGED agentVars
      BY <1>3, OutsideSteps DEF Outside
    <2>3. FileMatches => GateMatches'
      <3>1. ASSUME FileMatches, lastHash # None, FullFormat(lastHash.format)
            PROVE  gate' = Effective(lastHash)
        <4>1. lastHash \in State
          BY <1>0, <3>1 DEF TypeOK
        <4>2. file = Image(lastHash)
          BY <3>1 DEF FileMatches, Whole, FullFormat
        <4> QED
          BY <2>1, <3>1, <4>1, <4>2, ImageImport
      <3> QED
        BY <2>2, <3>1 DEF GateMatches, agentVars
    <2>4. ASSUME pc = "report", FullFormat(st.format)
          PROVE  gate' = Effective(st)
      <3>1. st \in State
        BY <1>0, <2>4 DEF TypeOK
      <3>2. file = Image(st)
        BY <2>4 DEF CarryInv, Landed, Whole, FullFormat
      <3> QED
        BY <2>1, <2>4, <3>1, <3>2, ImageImport
    <2> QED
      BY <2>1, <2>2, <2>3, <2>4 DEF HashInv, GateInv, agentVars, Unlanded
  <1>4. CASE GateReads
    BY <1>4 DEF GateReads
  <1>5. CASE Crash \/ TokenTaken
    BY <1>0, <1>5 DEF Crash, TokenTaken, GateInv, GateMatches
  <1>6. CASE TimerFires \/ FetchFails \/ RenderFails \/ WriteFails
    BY <1>6 DEF TimerFires, FetchFails, RenderFails, WriteFails, Fail,
                GateInv, GateMatches, cloudVars, gateVars, cycleVars, Unlanded
  <1>7. CASE NotModified \/ Pull
    BY <1>7 DEF NotModified, Pull, GateInv, GateMatches, cloudVars, gateVars,
                Unlanded
  <1>8. CASE Render \/ Land \/ Commit
    BY <1>8 DEF Render, Land, Commit, GateInv, GateMatches, cloudVars,
                gateVars, Unlanded
  <1>9. CASE Consume
    <2>1. /\ pc' = "report" /\ lastHash # cloud
          /\ UNCHANGED <<cloud, lastHash, st, file>>
      BY <1>9 DEF Consume, HashInv, Applying, cloudVars, diskVars
    <2>2. exit' \in {-1, 0} => gate' = Import(file, gate)
      BY <1>9, ConsumeOutcome DEF ConsumeExits
    <2>3. ASSUME exit' \in {-1, 0}, FullFormat(st.format)
          PROVE  gate' = Effective(st)
      <3>1. st \in State
        BY <1>0, <1>9 DEF TypeOK, Consume
      <3>2. file = Image(st)
        BY <1>9, <2>3 DEF Consume, CarryInv, Landed, Whole, FullFormat
      <3> QED
        BY <2>2, <2>3, <3>1, <3>2, ImageImport
    <2> QED
      BY <2>1, <2>3 DEF GateInv, Unlanded
  <1>10. CASE Report
    BY <1>10 DEF Report, GateInv, GateMatches, cloudVars, gateVars, Unlanded
  <1>11. CASE Finish \/ Panic
    BY <1>11 DEF Finish, Panic, GateInv, GateMatches, cloudVars, gateVars
  <1> QED
    BY <1>1, <1>2, <1>3, <1>4, <1>5, <1>6, <1>7, <1>8, <1>9, <1>10, <1>11
    DEF Next, Cycle

\* In full mode green means the gate admits exactly by the applied state,
\* through every failure, kill and restart, where a killed sender's exit is not
\* taken for "no command" and no desired state is published twice.
THEOREM GreenGateHolds ==
    ASSUME "revert" \notin Env, Windows \/ "kill" \notin Env,
           \A s \in Desired : s.format.mode # "delta"
    PROVE  Spec => []GreenGate
  <1>1. Init => CarryInv /\ HashInv /\ GateInv
    BY CarryInit, HashInit DEF Init, GateInv, GateMatches
  <1>2. CarryInv /\ HashInv /\ GateInv /\ [Next]_vars
            => (CarryInv /\ HashInv /\ GateInv)'
    BY CarryStep, HashStep, GateStep
  <1>3. CarryInv /\ GateInv => GreenGate
    BY DEF CarryInv, TypeOK, GateInv, GateMatches, GreenGate, Green,
           DeltaFormat
  <1> QED
    BY <1>1, <1>2, <1>3, PTL DEF Spec

-----------------------------------------------------------------------------
(* The roster                                                              *)

\* Where no test provider is tried, what is pending is what the render of this
\* cycle said, until the commit takes it.
PendingInv ==
    /\ TypeOK
    /\ pc \in {"land", "commit"} => pending = Remembered(st)
    /\ pc = "commit" => file = data

\* The roster only ever becomes what the file that just landed says.
THEOREM RosterIsLanded ==
    ASSUME \A s \in Desired : s.format.mode # "test"
    PROVE  Spec => RosterFollowsFile
  <1>1. Init => PendingInv
    BY TypeInit DEF Init, PendingInv
  <1>2. PendingInv /\ [Next]_vars => PendingInv'
    <2> SUFFICES ASSUME PendingInv, [Next]_vars
                 PROVE  PendingInv'
      OBVIOUS
    <2>0. TypeOK /\ TypeOK'
      BY TypeStep DEF PendingInv
    <2>1. CASE Outside \/ UNCHANGED vars
      <3>1. UNCHANGED pending
        BY <2>1 DEF Outside, Publish, Settle, ForceFullUpdate, GateReads,
                    StragglerSends, vars
      <3> QED
        BY <2>0, <2>1, <3>1, OutsideSteps DEF PendingInv, agentVars
    <2>2. CASE pc' \notin {"land", "commit"}
      BY <2>0, <2>2 DEF PendingInv
    <2>3. CASE Render
      <3>1. st.format.mode # "test"
        BY <2>0, <2>3 DEF Render, TypeOK
      <3> QED
        BY <2>0, <2>3, <3>1 DEF Render, PendingInv
    <2>4. CASE Land
      BY <2>0, <2>4 DEF Land, PendingInv, cycleVars
    <2>5. CASE Crash \/ TimerFires \/ TokenTaken \/ FetchFails \/ NotModified
               \/ Pull \/ RenderFails \/ WriteFails \/ Commit \/ Consume
               \/ Report \/ Finish \/ Panic
      BY <2>2, <2>5
      DEF Crash, TimerFires, TokenTaken, FetchFails, NotModified, Pull,
          RenderFails, WriteFails, Commit, Consume, Report, Finish, Panic, Fail
    <2> QED
      BY <2>1, <2>3, <2>4, <2>5 DEF Next, Cycle, Outside
  <1>3. PendingInv /\ [Next]_vars
            => [roster' # roster => pc = "commit" /\ file = data
                                      /\ roster' = Remembered(st)]_vars
    <2> SUFFICES ASSUME PendingInv, Next, roster' # roster
                 PROVE  pc = "commit" /\ file = data
                           /\ roster' = Remembered(st)
      OBVIOUS
    <2>1. CASE Commit
      BY <2>1 DEF Commit, PendingInv
    <2>2. CASE ~Commit
      BY <2>2
      DEF Next, Cycle, Publish, Settle, ForceFullUpdate, GateReads,
          StragglerSends, Crash, TimerFires, TokenTaken, FetchFails,
          NotModified, Pull, RenderFails, Render, WriteFails, Land, Consume,
          Report, Finish, Panic, Fail, diskVars
    <2> QED
      BY <2>1, <2>2
  <1> QED
    BY <1>1, <1>2, <1>3, PTL DEF Spec, RosterFollowsFile

-----------------------------------------------------------------------------
(* The loop as module Agent has it                                         *)

\* Each step starts a cycle, goes on inside one, ends one, or is outside.
LEMMA StepsAreLoops ==
    ASSUME TypeOK, [Next]_vars
    PROVE  [Loop!Next]_(Loop!vars)
  <1>1. CASE Publish \/ Settle \/ GateReads \/ StragglerSends \/ UNCHANGED vars
    BY <1>1 DEF Publish, Settle, GateReads, StragglerSends, vars, forceVars,
                Loop!vars
  <1>2. CASE ForceFullUpdate
    BY <1>2 DEF ForceFullUpdate, Loop!Next, Loop!Told
  <1>3. CASE Crash
    BY <1>3 DEF Crash, Loop!Next, Loop!Dies
  <1>4. CASE TimerFires
    BY <1>4 DEF TimerFires, forceVars, Loop!Next, Loop!CycleByTimer
  <1>5. CASE TokenTaken
    BY <1>5 DEF TokenTaken, TypeOK, Loop!Next, Loop!CycleByToken
  <1>6. CASE FetchFails \/ NotModified \/ Pull \/ RenderFails \/ Render
             \/ WriteFails \/ Land \/ Commit \/ Consume
    BY <1>6 DEF FetchFails, NotModified, Pull, RenderFails, Render, WriteFails,
                Land, Commit, Consume, Fail, forceVars, Loop!vars
  <1>7. CASE Report
    BY <1>7 DEF Report, TypeOK, forceVars, Loop!Next, Loop!Applies, Loop!vars
  <1>8. CASE Finish \/ Panic
    BY <1>8 DEF Finish, Panic, forceVars, Loop!Next, Loop!CycleEnds
  <1> QED
    BY <1>1, <1>2, <1>3, <1>4, <1>5, <1>6, <1>7, <1>8 DEF Next, Cycle

\* A cycle seen from outside is what module Agent takes it for: whatever fails,
\* panics or dies in it, it changes hash and token in no other way.
THEOREM RunsLoopHolds == Spec => RunsLoop
  <1>1. Init => Loop!Init
    BY DEF Init, Loop!Init
  <1> QED
    BY <1>1, TypeInit, TypeStep, StepsAreLoops, PTL DEF Spec, RunsLoop, Loop!Spec
=============================================================================
