------------------------------- MODULE Syncer -------------------------------
(***************************************************************************)
(* The agent's core loop (internal/syncer/syncer.go) at one facility, with *)
(* the cloud that publishes the desired state, the vendor file, the delta  *)
(* roster kept beside the config file, and the gate software that imports. *)
(*                                                                         *)
(* A cycle runs in the Run goroutine, one step per call that can fail or   *)
(* that another party can fall between:                                    *)
(*                                                                         *)
(*   fetch -> render -> land -> commit -> consume -> report -> finish      *)
(*                                                                         *)
(* Meanwhile the console edits the desired state, somebody presses Force,  *)
(* the process is killed and started again.  stateHash is a digest of the  *)
(* whole desired state and is modelled by the state itself.  Cadence and   *)
(* backoff, which only delay the next cycle, are left out: a cycle may     *)
(* start whenever none runs.                                               *)
(***************************************************************************)
EXTENDS GateFormat, Integers, Sequences

CONSTANTS
    Desired,     \* the desired states the console may publish
    None,        \* no state: an empty hash, no pending roster
    HasConsume,  \* a consume command is configured; else the gate watches
    Windows,     \* the site PC runs Windows and the agent is its service
    Env          \* what this instance lets happen around the agent

\* fetch, write, save, heartbeat: that call fails.  read: the roster cannot be
\* read.  sender: the consume command fails.  kill: it outlives its time limit
\* or, on Unix, a signal of its own ends it.  panic: a step of apply panics.
\* crash: the process dies and is restarted.  press: Force is pressed.  revert:
\* the console returns to a state it published before.  settle: from some point
\* on nothing happens any more.
Events == {"fetch", "read", "write", "save", "heartbeat", "sender", "kill",
           "panic", "crash", "press", "revert", "settle"}

ASSUME DesiredAssumption ==
    /\ Desired \subseteq State
    /\ Desired # {}
    /\ \A s \in Desired : UniqueCodes(s.creds)
ASSUME NoneAssumption == None \notin State /\ None \notin Roster
ASSUME SiteAssumption == HasConsume \in BOOLEAN /\ Windows \in BOOLEAN
ASSUME EnvAssumption == Env \subseteq Events

VARIABLES
    cloud,      \* the desired state on the server
    published,  \* history: the states the server has had, in their order;
                \* not kept where one may come back
    calm,       \* TRUE once nothing fails or changes any more
    gate,       \* the rows the gate software admits by
    straggler,  \* a sender process outlived its consume run or the agent
    file,       \* the vendor file in the save path
    roster,     \* last-roster.json
    console,    \* the last heartbeat the server received
    pc,         \* where the Run goroutine is
    st,         \* the state this cycle fetched
    data,       \* the bytes Render returned
    exit,       \* the consume exit code of this cycle
    good,       \* the cycle's ok
    lastHash,   \* Syncer.lastHash
    force,      \* the one-slot force channel holds a token
    forceNext,  \* render.forceNext
    pending,    \* render.pending
    ok,         \* status.Snapshot.OK, what dashboard and tray show
    owed        \* history: Force pressed, no re-emit landed since

cloudVars == <<cloud, published, calm>>
gateVars  == <<gate, straggler>>
diskVars  == <<file, roster>>
cycleVars == <<st, data, exit, good>>
forceVars == <<force, forceNext, owed>>
vars == <<cloudVars, gateVars, diskVars, console, pc, cycleVars, lastHash,
          forceVars, pending, ok>>

Steps == {"idle", "fetch", "render", "land", "commit", "consume", "report",
          "finish"}
Exits == {-2, -1, 0, 1}

May(event) == event \in Env /\ ~calm

Published == {published[i] : i \in DOMAIN published}

-----------------------------------------------------------------------------
Init ==
    /\ cloud \in Desired
    /\ published = <<cloud>>
    /\ calm = FALSE
    /\ gate = {} /\ straggler = FALSE
    /\ file = NoFile
    /\ roster = EmptyRoster
    /\ console = [ok |-> TRUE, hash |-> None]
    /\ pc = "idle"
    /\ st = None /\ data = NoFile /\ exit = -1 /\ good = TRUE
    /\ lastHash = None
    /\ force = FALSE /\ forceNext = FALSE /\ owed = FALSE
    /\ pending = None
    /\ ok = TRUE

-----------------------------------------------------------------------------
(* Around the agent                                                        *)

\* The console edits the desired state (external).  Without "revert" a state
\* it left never comes back.
Publish ==
    /\ ~calm
    /\ \/ /\ "revert" \in Env
          /\ cloud' \in Desired \ {cloud}
          /\ UNCHANGED published
       \/ /\ "revert" \notin Env
          /\ cloud' \in Desired \ Published
          /\ published' = Append(published, cloud')
    /\ UNCHANGED <<calm, gateVars, diskVars, console, pc, cycleVars, lastHash,
                   forceVars, pending, ok>>

\* From here on nothing fails and nobody edits, presses or kills.
Settle ==
    /\ May("settle")
    /\ calm' = TRUE
    /\ UNCHANGED <<cloud, published, gateVars, diskVars, console, pc, cycleVars,
                   lastHash, forceVars, pending, ok>>

\* ForceFullUpdate, from the dashboard: mark the next render and leave a token
\* unless one waits already.
ForceFullUpdate ==
    /\ May("press")
    /\ forceNext' = TRUE
    /\ force' = TRUE
    /\ owed' = TRUE
    /\ UNCHANGED <<cloudVars, gateVars, diskVars, console, pc, cycleVars,
                   lastHash, pending, ok>>

\* Where no consume command is configured the gate software picks the file up
\* by itself (external).
GateReads ==
    /\ ~HasConsume
    /\ gate' = Import(file, gate)
    /\ UNCHANGED <<cloudVars, straggler, diskVars, console, pc, cycleVars,
                   lastHash, forceVars, pending, ok>>

\* Killing the command's shell, or the agent, does not end the sender it
\* started: it may still hand the gate what the file holds by then (external).
StragglerSends ==
    /\ straggler
    /\ straggler' = FALSE
    /\ gate' = Import(file, gate)
    /\ UNCHANGED <<cloudVars, diskVars, console, pc, cycleVars, lastHash,
                   forceVars, pending, ok>>

\* The process dies at any point and a new one starts: memory is lost, the
\* file, the roster and the gate's table are not, and a consume command that
\* was running goes on without the agent.
Crash ==
    /\ May("crash")
    /\ pc' = "idle"
    /\ st' = None /\ data' = NoFile /\ exit' = -1 /\ good' = TRUE
    /\ lastHash' = None
    /\ force' = FALSE /\ forceNext' = FALSE /\ owed' = FALSE
    /\ pending' = None
    /\ ok' = TRUE
    /\ straggler' \in {straggler, straggler \/ (HasConsume /\ pc = "consume")}
    /\ UNCHANGED <<cloudVars, gate, diskVars, console>>

-----------------------------------------------------------------------------
(* One cycle                                                               *)

\* Run's select: the timer...
TimerFires ==
    /\ pc = "idle"
    /\ pc' = "fetch"
    /\ UNCHANGED <<cloudVars, gateVars, diskVars, console, cycleVars, lastHash,
                   forceVars, pending, ok>>

\* A mistake TokenTaken avoids: keeping the ETag.
TokenKeepsHash ==
    /\ pc = "idle"
    /\ force
    /\ force' = FALSE
    /\ pc' = "fetch"
    /\ UNCHANGED <<cloudVars, gateVars, diskVars, console, cycleVars,
                   lastHash, forceNext, owed, pending, ok>>

\* ...or a force token, which also drops the ETag.
TokenTaken ==
    /\ pc = "idle"
    /\ force
    /\ force' = FALSE
    /\ lastHash' = None
    /\ pc' = "fetch"
    /\ UNCHANGED <<cloudVars, gateVars, diskVars, console, cycleVars, forceNext,
                   owed, pending, ok>>

\* What every step that fails does: the cycle skips to its report.
Fail ==
    /\ good' = FALSE
    /\ pc' = "finish"
    /\ UNCHANGED <<cloudVars, gateVars, diskVars, console, st, data, exit,
                   lastHash, forceVars, pending, ok>>

FetchFails == pc = "fetch" /\ May("fetch") /\ Fail

\* A mistake NotModified avoids: going on to apply the state a 304 has not.
NotModifiedApplies ==
    /\ pc = "fetch"
    /\ lastHash = cloud
    /\ pc' = "render"
    /\ UNCHANGED <<cloudVars, gateVars, diskVars, console, cycleVars, lastHash,
                   forceVars, pending, ok>>

\* 304: the hash of the last apply is still the server's.
NotModified ==
    /\ pc = "fetch"
    /\ lastHash = cloud
    /\ good' = TRUE
    /\ pc' = "finish"
    /\ UNCHANGED <<cloudVars, gateVars, diskVars, console, st, data, exit,
                   lastHash, forceVars, pending, ok>>

\* A mistake Pull avoids: recording the hash before the state is applied.
PullRecordsHash ==
    /\ pc = "fetch"
    /\ lastHash # cloud
    /\ st' = cloud
    /\ lastHash' = cloud
    /\ pc' = "render"
    /\ UNCHANGED <<cloudVars, gateVars, diskVars, console, data, exit, good,
                   forceVars, pending, ok>>

\* 200 with the whole state.
Pull ==
    /\ pc = "fetch"
    /\ lastHash # cloud
    /\ st' = cloud
    /\ pc' = "render"
    /\ UNCHANGED <<cloudVars, gateVars, diskVars, console, data, exit, good,
                   lastHash, forceVars, pending, ok>>

\* A provider that is only a stub, or a template provider without a format.
RenderFails == pc = "render" /\ st.format.mode = "stub" /\ Fail

\* A mistake Render avoids: saving the roster before the file has landed.
RenderCommits ==
    /\ pc = "render"
    /\ st.format.mode # "stub"
    /\ data' = Rendered(st, roster, forceNext)
    /\ roster' = Remembered(st)
    /\ forceNext' = IF st.format.mode = "delta" THEN FALSE ELSE forceNext
    /\ pc' = "land"
    /\ UNCHANGED <<cloudVars, gateVars, file, console, st, exit, good,
                   lastHash, force, owed, pending, ok>>

\* unitrise_test renders without touching the template renderer's memory; a
\* template leaves what it said pending, and a delta uses up the forced flag.  A
\* roster that cannot be read counts as empty, which is what a forced render
\* makes of it.
Render ==
    /\ pc = "render"
    /\ st.format.mode # "stub"
    /\ \E fresh \in {forceNext} \cup (IF May("read") THEN {TRUE} ELSE {}) :
          data' = Rendered(st, roster, fresh)
    /\ pending' = IF st.format.mode = "test" THEN pending ELSE Remembered(st)
    /\ forceNext' = IF st.format.mode = "delta" THEN FALSE ELSE forceNext
    /\ pc' = "land"
    /\ UNCHANGED <<cloudVars, gateVars, diskVars, console, st, exit, good,
                   lastHash, force, owed, ok>>

\* MkdirAll, WriteFile of the temporary or Rename fails.
WriteFails == pc = "land" /\ May("write") /\ Fail

\* The file a forced press asks for: every row as if the gate knew none.
ReEmits(s, f) == f = Rendered(s, EmptyRoster, TRUE)

\* The temporary is renamed over the vendor file.
Land ==
    /\ pc = "land"
    /\ file' = data
    /\ owed' = (owed /\ ~ReEmits(st, data))
    /\ pc' = "commit"
    /\ UNCHANGED <<cloudVars, gateVars, roster, console, cycleVars, lastHash,
                   force, forceNext, pending, ok>>

\* CommitApplied: pending is taken whether or not the save succeeds; an error
\* is only logged.
Commit ==
    /\ pc = "commit"
    /\ pending' = None
    /\ \/ roster' = IF pending = None THEN roster ELSE pending
       \/ May("save") /\ roster' = roster
    /\ pc' = "consume"
    /\ UNCHANGED <<cloudVars, gateVars, file, console, cycleVars, lastHash,
                   forceVars, ok>>

\* A sender that does its work (an exit of 0 is taken at its word), that fails
\* before or after it got through to the gate, and one whose shell is terminated at the time limit.
SenderEnds(code) ==
    /\ exit' = code
    /\ gate' = Import(file, gate)
    /\ UNCHANGED straggler

SenderFails(codes) ==
    /\ May("sender")
    /\ exit' \in codes
    /\ gate' \in {Import(file, gate), gate}
    /\ UNCHANGED straggler

ShellKilled(code) ==
    /\ May("kill")
    /\ exit' = code
    /\ straggler' = TRUE
    /\ UNCHANGED gate

\* A signal ends the sender in the middle of its work or after it.
SenderDies(code) ==
    /\ May("kill")
    /\ exit' = code
    /\ gate' \in {Import(file, gate), gate}
    /\ UNCHANGED straggler

\* runConsumeInSession: the desktop of whoever is signed in at a Windows PC.
\* -2 when the time is up or the exit code cannot be read.
InSession ==
    /\ Windows
    /\ SenderEnds(0) \/ SenderFails({1, -2}) \/ ShellKilled(-2)

\* A shell of the agent's own: on a Windows PC where nobody is signed in, and
\* elsewhere.  A terminated process has the exit code 1 on Windows, and -1
\* where a signal ended it, be it the shell's or one of the sender's own.
OwnShell ==
    \/ SenderEnds(0)
    \/ SenderFails({1})
    \/ ShellKilled(IF Windows THEN 1 ELSE -1)
    \/ ~Windows /\ SenderDies(-1)

\* -2: it could not be started.
NotStarted == May("sender") /\ exit' = -2 /\ UNCHANGED gateVars

\* -1: there is no command.
NoCommand == exit' = -1 /\ UNCHANGED gateVars

Consume ==
    /\ pc = "consume"
    /\ IF HasConsume THEN InSession \/ OwnShell \/ NotStarted ELSE NoCommand
    /\ pc' = "report"
    /\ UNCHANGED <<cloudVars, diskVars, console, st, data, good, lastHash,
                   forceVars, pending, ok>>

\* A mistake Report avoids: taking every consume run for a success.
ReportIgnoresExit ==
    /\ pc = "report"
    /\ good' = TRUE
    /\ lastHash' = st
    /\ pc' = "finish"
    /\ UNCHANGED <<cloudVars, gateVars, diskVars, console, st, data, exit,
                   forceVars, pending, ok>>

\* ReportApplied (an audit record; a lost one is only logged), then the
\* verdict on the sender: any exit but -1 and 0 is a failed sync.  Only a
\* successful apply moves lastHash.
Report ==
    /\ pc = "report"
    /\ good' = (exit \in {-1, 0})
    /\ lastHash' = IF exit \in {-1, 0} THEN st ELSE lastHash
    /\ pc' = "finish"
    /\ UNCHANGED <<cloudVars, gateVars, diskVars, console, st, data, exit,
                   forceVars, pending, ok>>

\* The status snapshot, then the heartbeat; the cycle's locals are gone.
Finish ==
    /\ pc = "finish"
    /\ ok' = good
    /\ \/ console' = [ok |-> good, hash |-> lastHash]
       \/ May("heartbeat") /\ console' = console
    /\ pc' = "idle"
    /\ st' = None /\ data' = NoFile /\ exit' = -1 /\ good' = TRUE
    /\ UNCHANGED <<cloudVars, gateVars, diskVars, lastHash, forceVars, pending>>

\* safeCycle recovers a panic of any step of apply: red status, no heartbeat.
Panic ==
    /\ pc \in {"render", "land", "commit", "consume", "report"}
    /\ May("panic")
    /\ ok' = FALSE
    /\ pc' = "idle"
    /\ st' = None /\ data' = NoFile /\ exit' = -1 /\ good' = TRUE
    /\ UNCHANGED <<cloudVars, gateVars, diskVars, console, lastHash, forceVars,
                   pending>>

-----------------------------------------------------------------------------
Cycle ==
    \/ TimerFires \/ TokenTaken
    \/ FetchFails \/ NotModified \/ Pull
    \/ RenderFails \/ Render
    \/ WriteFails \/ Land
    \/ Commit \/ Consume \/ Report \/ Finish
    \/ Panic

Next ==
    \/ Publish \/ Settle \/ ForceFullUpdate
    \/ GateReads \/ StragglerSends \/ Crash
    \/ Cycle

\* The loop keeps running, so a cycle that started goes on and the timer fires
\* again; select takes either ready case with even odds, so a token that waits
\* through infinitely many rounds is taken; a watching gate looks again.
Fairness ==
    /\ WF_vars(Cycle)
    /\ SF_vars(TokenTaken)
    /\ WF_vars(GateReads)

Spec == Init /\ [][Next]_vars

FairSpec == Spec /\ Fairness

-----------------------------------------------------------------------------
(* Properties                                                              *)

\* Every variable holds a value of its kind.
TypeOK ==
    /\ cloud \in Desired /\ published \in Seq(Desired) /\ calm \in BOOLEAN
    /\ gate \subseteq Row /\ straggler \in BOOLEAN
    /\ file \in File /\ roster \in Roster
    /\ console \in [ok : BOOLEAN, hash : Desired \cup {None}]
    /\ pc \in Steps
    /\ st \in Desired \cup {None}
    /\ pc \in {"render", "land", "commit", "consume", "report"} => st # None
    /\ data \in File /\ exit \in Exits /\ good \in BOOLEAN
    /\ lastHash \in Desired \cup {None}
    /\ force \in BOOLEAN /\ forceNext \in BOOLEAN /\ owed \in BOOLEAN
    /\ pending \in Roster \cup {None}
    /\ ok \in BOOLEAN

\* No cycle runs, or the file of the one that runs has not landed yet.
Unlanded == pc \in {"idle", "fetch", "render", "land"}

\* The dashboard is green and a state has been applied since the start.  It stays
\* green while the next cycle fetches and renders; from the landing of its file to
\* its end the snapshot is that of the cycle before, and is not counted.
Green == Unlanded /\ ok /\ lastHash # None

\* Green means the vendor file is the rendering of the state the agent reports
\* as applied, whatever failed or was interrupted before: a 304 may not leave
\* a file of another state behind (cycle's switch and apply's early returns).
GreenFile ==
    Green /\ lastHash.format.mode # "delta"
        => file = Rendered(lastHash, EmptyRoster, FALSE)

\* Green at a site with a consume command means the gate software holds
\* exactly the rows the state grants, in full mode and in delta mode.
GreenGate ==
    Green /\ HasConsume
          /\ (FullFormat(lastHash.format) \/ DeltaFormat(lastHash.format))
        => gate = Effective(lastHash)

\* The half of GreenGate that survives a forced re-emit, which drops the
\* removals that were still due: nobody who should get in is refused.
GreenAdmits ==
    Green /\ HasConsume
          /\ (FullFormat(lastHash.format) \/ DeltaFormat(lastHash.format))
        => Effective(lastHash) \subseteq gate

\* syncer.go's header: if anything errs, the previous file stays in place.
\* Until the next one lands the file is the one last applied.
PreviousFileStays ==
    Unlanded /\ lastHash # None /\ lastHash.format.mode # "delta"
        => file = Rendered(lastHash, EmptyRoster, FALSE)

\* CommitApplied: the roster only ever becomes what the file that just landed
\* told the gate; a render whose file never landed must not reach it.
RosterFollowsFile ==
    [][roster' # roster =>
          pc = "commit" /\ file = data /\ roster' = Remembered(st)]_vars

\* Once the surroundings are calm a Force press is answered by a file that
\* re-emits everything, whichever of timer and token ran the cycle.
ForceServed == calm /\ owed ~> ~owed

\* The gate, the dashboard and the console all arrive at the state the cloud
\* settled on, from wherever the failures before left them.
Converged ==
    /\ gate = Effective(cloud)
    /\ pc = "idle" => ok
    /\ console = [ok |-> TRUE, hash |-> cloud]

Converges ==
    <>(calm /\ (FullFormat(cloud.format) \/ DeltaFormat(cloud.format)))
        => <>[]Converged

\* The loop as module Agent has it: what a cycle does inside changes neither
\* when one may start nor what becomes of hash and token (Run's select and the
\* places that set lastHash).
Loop == INSTANCE RunLoop WITH
    up <- TRUE,
    run <- IF pc = "idle" THEN "select" ELSE "cycle",
    applied <- lastHash # None,
    token <- force

RunsLoop == Loop!Spec
=============================================================================
