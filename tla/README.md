# UnitRise Gate Bridge: TLA+ models and proofs

The gate bridge is the small agent on a self-storage site's gate PC. It pulls
the facility's complete list of gate codes from the cloud, writes it as a file in
the vendor's layout into the folder the gate software watches, optionally runs the
vendor's import command, and reports back. This directory holds TLA+ models of
that agent, TLC configurations that check them on small instances, and proofs,
checked by TLAPS, of the main properties for every value of the constants.

Paths below are relative to `src/`.

## 1. Inventory

| Component | Source | State it keeps | Operations | Talks to |
|---|---|---|---|---|
| core loop | `internal/syncer/syncer.go` | `lastHash`, `lastApplyAt`, one-slot `force` channel, failure count, poll interval | `Run`, `safeCycle`, `cycle`, `apply`, `ForceFullUpdate` | API client, renderer, file system, consume command, status |
| consume launch | `syncer.go` 272-327, `exec_*.go` | none | plain shell run with a 2-minute limit; on Windows first a run in the signed-in user's session | gate vendor's sender |
| template renderer | `internal/render/template.go` | `forceNext`, `pending` (package globals), `last-roster.json` | `Render` (full, delta), `ForceNextFull`, `CommitApplied`, `loadRoster` | core loop, disk |
| renderer registry, test file | `render.go`, `testfile.go` | table of renderers | `Get`, `Render` of the test file | core loop |
| API client | `internal/api/client.go` | none | `GetState` with ETag, `SendHeartbeat`, `ReportApplied`, `UpdateCheck`, `Download` | cloud |
| agent process | `cmd/unitrise-gate/main.go` | current syncer and config, `pairCh` | `run`, the pairing loop, `OnPair`, `OnForce`, `OnUpdate`, foreground force | everything |
| lock | `internal/lock` | named mutex or `flock` | `Acquire`, release | agent process |
| configuration | `internal/config` | `config.json` and its temporary | `Load`, `Validate`, `Save`, `NormalizeEndpoint` | agent process, CLI |
| self-update | `internal/update` | the binary, `.old`, `.unitrise-gate.new` | `Watch`, `CheckOnly`, `SelfUpdate` | API client, disk |
| service | `internal/service` | SCM state | `Execute`, install, start, stop | agent process |
| status, log | `internal/status`, `internal/logging` | snapshot, roster view, ring of 250 lines, log file | `Update`, `Get`, `SetRoster`, `AppendLog`, rotation | dashboard, tray |
| dashboard | `internal/ui` | none | `/api/status`, `/api/roster`, `/api/force`, `/api/pair`, `/api/update` | agent's hooks |
| command line | `main.go` | none | `pair`, `test`, `force`, `update`, `service` | dashboard or config |
| installer | `cmd/unitrise-gate/installer_windows.go` | none | `installSelf`, `uninstallCmd` | service manager, disk |
| tray, windows | `cmd/unitrise-gate/*_windows.go` | none | Win32 calls | dashboard |
| brand, tools | `internal/brand`, `internal/trayicon`, `tools` | images | none | none |

What makes each hard, and what makes it correct:

- **core loop.** A cycle crosses five systems that fail one at a time: cloud, disk,
  roster, sender, cloud again. Its memory (`lastHash`) moves only when all went
  well, its effects move earlier. Correct: *green means the gate has the applied
  state*, a failure is retried until it is repaired, and the console hears of it.
- **renderer.** A delta file is only right relative to what the gate already has,
  which the program knows only through the roster it saved. Correct: *roster and
  gate agree* along any chain of adds, changes, suspensions, removals, format
  edits and forced re-emits, and the roster follows the file, never the render.
- **Force.** Three pieces of state in two goroutines: the package flag, the channel
  token, the roster. Correct: *a press is answered by a file that re-emits
  everything*, also when a re-pair replaces the syncer it was meant for.
- **consume.** The exit code carries the program's only evidence that the gate got
  the file, shares its range with two sentinels, and comes from a shell whose child
  may outlive it.
- **agent, lock, configuration.** Several processes and HTTP handlers, one lock, one
  one-slot channel, one config file with one temporary. Correct: at most one cycle
  runs on a machine; what runs is what the disk says; nothing unproven is saved; a
  stop or a re-pair waits for the cycle under way and then happens.
- **self-update, service, installer.** Three writers of one path, and a service manager
  that restarts whatever is there. Correct: at every instant, and after a crash, a
  whole, published binary is at the service's path or beside it, and only an older
  installer takes its version back.

The full hazard list, each at its line, is `hazards` in `PROJECT.json`.

## 2. Modules

| Module | What it is |
|---|---|
| `GateFormat` | The renderer as pure operators, and the external importer that reads a file into the gate's table. No state. |
| `Syncer` | The core loop as a state machine, with the cloud, disk, gate, Force button, crashes and kills around it. |
| `Courier` | What the loop promises to someone who only sees console, gate and dashboard: the abstract specification of `Syncer`. |
| `SyncerCourier` | The refinement mapping from `Syncer` to `Courier`. |
| `RunLoop` | One `Run` goroutine after the other in a process: what `Syncer` shows the inside of and `Agent` the outside. Both implement it. |
| `DeltaChain` | What the delta format promises while nothing goes wrong: a chain of complete cycles under any format. |
| `SyncerChain` | The refinement mapping from `Syncer` to `DeltaChain`. |
| `Agent` | The process around the loop: lock, setup mode, re-pairing, the dashboard's hooks, the config file, stop, foreground force. |
| `Deploy` | The binary on the machine: self-update, installer and service manager. |
| `MCSyncer`, `MCDeltaChain`, `MCAgent`, `MCDeploy` | The instances TLC checks. |
| `GateFormatProofs`, `DeltaChainProofs`, `SyncerProofs`, `SyncerDeltaProofs`, `SyncerCourierProofs`, `SyncerChainProofs`, `AgentProofs`, `DeployProofs` | Theorems. |

`Syncer` and `DeltaChain` both build on `GateFormat`; `DeltaChain` has the renderer's
promise over *all* formats, `Syncer` has it under interleavings and failures over a few, and
`SyncerChain` says how a run of the second is a run of the first.
`Agent` contains the loop once more, reduced to what the process around it can see of
it: whether a cycle runs, whether a hash is held, whether a token waits. That the two views
of the loop agree is `RunLoop`, which `Syncer` implements from inside a cycle and every process of
`Agent` from outside. `Deploy` treats the agent as one process that runs from a file.

### GateFormat

A credential is a record of a code, a holder (unit, tenant and time zone, which the
renderer only compares together) and a status. A template is blank or not, except
that `changedLine` may or may not interpolate `{status}`, which decides whether a change
can suspend. A rendered line is the template it came from with the row it speaks of.

| Operator | Code |
|---|---|
| `Effective` | the effective set, `template.go` 142-151 |
| `FullLines` | `renderFull` |
| `Pick`, `Upserts`, `Removals`, `DeltaLines`, `PriorRows` | `renderDelta` |
| `Rendered` | the bytes of `Render`, by mode |
| `Remembered` | the roster left in `pending` |
| `Import`, `ImportDelta`, `Written` | the gate software (external): a full file is its whole table, a delta's lines are applied, a change that does not say the status leaves it |

### Syncer

One value of `pc` per place where a cycle can fail or another party can fall between:

    idle -> fetch -> render -> land -> commit -> consume -> report -> finish -> idle

| Action | Code |
|---|---|
| `TimerFires`, `TokenTaken` | the two cases of `Run`'s select; the token also drops `lastHash` |
| `FetchFails`, `NotModified`, `Pull` | the three outcomes of `GetState` in `cycle`'s switch |
| `RenderFails`, `Render` | `render.Get` and `Render`: sets `pending`, a delta takes `forceNext`; a roster that `loadRoster` cannot read counts as empty |
| `WriteFails`, `Land` | `MkdirAll`, `WriteFile`, `Rename` |
| `Commit` | `CommitApplied`: `pending` is taken even if the save fails |
| `Consume` | `consume`, every way it can end, a signal that ends the sender on Unix included |
| `Report` | `ReportApplied` and the verdict on the exit code; `lastHash` moves on success |
| `Finish` | the status snapshot, then the heartbeat, which may be lost |
| `Panic` | `safeCycle`'s recover, from any step of `apply` |
| `ForceFullUpdate` | the dashboard's button, in another goroutine, at any point of a cycle |
| `Publish`, `GateReads`, `StragglerSends`, `Crash`, `Settle` | console, watching gate, sender that survived its shell, kill and restart, end of trouble |

Variables map one to one: `lastHash`, `force`, `forceNext`, `pending` are the program's; `file` and
`roster` are on disk; `gate`, `cloud`, `console` are the parties outside; `st`, `data`, `exit`,
`good` are the locals of `cycle` and `apply`. A state stands for its own `stateHash`
(a digest of the canonical state). `published`, `calm` and `owed` are history or environment variables
no action of the agent reads.

The constant `Env` says which kinds of trouble an instance has, so that every property is
checked under all the trouble it survives.

Two actions are kept as one step each although the code does more inside: `ForceFullUpdate` sets
the flag and then the token (nothing between them can tell: the loop reads the flag only inside
a cycle, and a cycle that falls between uses up the flag exactly as a timer cycle right before
the token does), and `Finish` updates the snapshot and sends the heartbeat.

### Courier

Three variables: the states in the order the console published them, the position the gate is
at, and the position a green dashboard vouches for. `Deliver` only moves forward, and never while
somebody vouches. `SyncerCourier` maps `order` to the history `published` of `Syncer`, `at` to the position
whose rows the gate holds (a value outside the sequence, which no step of `Courier` reaches, if there is none)
and `claim` to the position of `lastHash` while the dashboard is green. Only states whose format can say what it has to (`Tells`: a full format, or
a delta format in the sense of `DeltaFormat`) have a position; a stub or a trial of the test provider vouches for nothing.

### DeltaChain

`Cycle` is a complete uneventful cycle: render against the roster, import, remember, over *any*
set of credentials with distinct codes and *any* delta format. `ForcedCycle` is the same with a
local force or a moved nonce; `forces` says whether the site has either, and never changes. It is the
contract of the delta mode apart from failures.

`SyncerChain` maps `Syncer` to it, at a site that stays with one delta format: the roster is the roster, and the gate of the chain is *what the
gate was told* (`Told`), which counts the import of a file as done once its roster is committed. So `Commit` is the one action that is a step of the
chain, and every cycle that fails before it is none.

### RunLoop

Four variables, of one process: it is up, where its `Run` goroutine is, whether that remembers a hash, whether a token waits. A goroutine returns only at its
select, a new one starts only after that, only a death of the process cuts a cycle off, and a token is only taken together with the hash.

| Step of `RunLoop` | in `Syncer` | in `Agent` |
|---|---|---|
| `CycleByTimer`, `CycleByToken` | `TimerFires`, `TokenTaken` | the same names |
| `Applies` | `Report` | none (its cycle is one interval) |
| `CycleEnds` | `Finish`, `Panic` | `CycleEnds` |
| `Told` | `ForceFullUpdate` | `TellSyncer` |
| `Dies` | `Crash` | `Gone`, an `Acquire` or `LoadConfig` that fails |
| `Launch`, `Start`, `Returns` | none (it is always in its loop) | `Launch`, `StartSyncer`, `RunReturns` |

### Agent

Any number of processes, each with the loop and a syncer goroutine, and any number of requests,
each a handler goroutine of some process, or a `pair` at a prompt where no agent answers.

    process  off -> acquire -> load -> (setup ->) start -> running -> switch -> start ...
    force    ... start -> front -> leaving -> released -> off
    syncer   select -> cycle -> select ... -> done
    request  new -> prove -> open -> write -> rename -> drain -> send -> done

| Action | Code |
|---|---|
| `Launch`, `Acquire`, `LoadConfig` | `run` up to the loop: `lock.Acquire`, `config.Load` and `Validate` |
| `TakeFirst`, `StartSyncer`, `TakeNext`, `Switch`, `Return` | the pairing loop: setup mode's wait, `syncer.New` and `go Run`, the select over `pairCh` and `ctx.Done`, the wait for `done` |
| `Enter`, `Release`, `Exit` | the foreground `force`: cancel and return, the deferred release, the end of the process |
| `Stop`, `Crash`, `Gone` | `Execute`'s Stop or a signal, to the foreground `force` too, which then ends its syncer and waits on; death; what the operating system does then |
| `Reads` | what a caller of `config.Load` goes by: the pairing on disk, or none where it cannot be read |
| `CycleByTimer`, `CycleByToken`, `CycleEnds`, `RunReturns` | `Run`'s select, `ctx.Done` included |
| `PressForce`, `TellSyncer` | `OnForce`: load `current`, then leave the token with what was loaded |
| `Begin`, `Prove`, `Refuse` | `pairFromDashboard`: the facility rule against the present config, then `GetState` and the probe file |
| `BeginCli` | `pair` that found no agent (`findLocalAgent` tries five ports) and writes the config itself |
| `Open`, `Write`, `Rename` | `config.Save` through its one temporary, to the level of which file a name denotes |
| `Drain`, `Send` | `OnPair`'s two selects on `pairCh` |

`dir` maps the two names to files and `content` says what a file holds: a pairing, nothing, or a
torn text. So two writers that share the temporary, a writer killed half way and a rename
of somebody else's half-written file are what they are on a disk. `RenameOpen` is the one
difference between platforms.

### Deploy

| Action | Code |
|---|---|
| `BeginUpdate` (`AskAgent`, `AskPrompt`) | `OnUpdate`; `update` at a prompt that found no agent: `CheckOnly` and `isNewer` |
| `Fetch` | download and checksum of `SelfUpdate` |
| `OpenNew`, `WriteNew`, `ClearOld`, `MoveAside`, `Place` | the temporary, the removal of `.old`, the two renames and the rollback |
| `Exit` | `os.Exit(1)` after an update of the agent by itself |
| `BeginInstall`, `Kill`, `Copy`, `CopyWrites`, `Register`, `StartInstalled`, `InstallFails` | `installSelf`: `sc stop`, `taskkill`, `copyFileRetry`, `service install`, `sc start` |
| `StopService`, `ServiceStops`, `StartService`, `Recover`, `AgentDies` | the service manager, `Execute`, the recovery actions of `Install` or launchd's `KeepAlive` |

`dir` maps the three names to files, `data` a file to a version or to one of three kinds of
damage (cut by an update, cut by an installer, not the published binary). The Windows rules
are in `CanMove` and `CanReplace`: a running image may be renamed but not replaced or written, an open one
not renamed. `windows` is chosen in `Init`, so every run has both platforms.

## 3. Properties and runs

Each passing run's properties survive everything in its `Env`; the runs that end in a violation show
where the code departs from what its own comments say.

| Run | Checks | Instance |
|---|---|---|
| `SyncFull` | `TypeOK`, `GreenFile`, `GreenGate`, `Delivers`, `Converges` | full mode, Windows, consume command; all failures, kills, panics, crashes and presses at once |
| `SyncWatch` | `PreviousFileStays`, `Converges` | watching gate, states republished, stubs and trials of the test provider, crashes |
| `SyncDelta` | `GreenGate`, `RosterFollowsFile`, `Delivers`, `Converges` | two delta formats and a full one mixed, failed fetches, writes, heartbeats |
| `SyncForce` | `GreenAdmits`, `Chains`, `RunsLoop`, `ForceServed` | delta, forced by button and by nonce, failed fetches, unreadable rosters |
| `DeltaChain` | `GateIsRoster`, `GateHasRoster` | every delta format, two codes, two holders, forced re-emits anywhere |
| `Agent` | `TypeOK`, `OneCycle`, `ConfigWhole`, `ProvenOnly`, `RunsSaved`, `FacilityStays` | two processes, two requests, four pairings; crashes, stops, presses, failed calls |
| `AgentLive` | `RunsLoops`, `PressServed`, `StopEnds`, `Answered` | one process, two requests that overlap, foreground force, crashes, stops and signals, a config.json that cannot be read |
| `Deploy` | `TypeOK`, `Restorable`, `Verified`, `UpdatesNeverDowngrade`, `InstallDone`, `UpdateTakes` | two updates, a newer and an older installer, both platforms, crashes and failures everywhere |

The properties, by the question they answer:

- *Is a green dashboard true?* `GreenFile` (the file is the rendering of the applied state),
  `GreenGate` (the gate holds exactly what it grants), `GreenAdmits` (it refuses nobody it should admit).
- *Does failure keep the last good file?* `PreviousFileStays`, `RosterFollowsFile` (an action property: the roster becomes
  only what the landed file said).
- *What does the outside see?* `Delivers`: `Syncer` implements `Courier`, in full mode and in delta mode.
- *Do the models of the loop agree?* `RunsLoop`, `RunsLoops`: the loop seen from inside a cycle and from the process around it both
  implement `RunLoop`.
- *Does it recover?* `Converges`, `ForceServed`, `PressServed`, `StopEnds`, `Answered`, `UpdateTakes`.
- *Does the delta format work at all?* `GateIsRoster`, `GateHasRoster`, and `Chains`: the loop with its
  failed fetches and presses is such a chain.
- *One agent per machine?* `OneCycle`: no two processes are inside a cycle.
- *Is the pairing safe?* `ConfigWhole`, `ProvenOnly`, `RunsSaved` (a quiet loop runs what a restart would run), `FacilityStays`.
- *Is there always a binary, and the right one?* `Restorable`, `Verified`, `InstallDone`, `UpdatesNeverDowngrade` (nothing but
  the copy of an installer that is itself older takes the version at the path back).

*Green* (`Green`) means: the snapshot says ok, a state has been applied, and no file has landed since. So a dashboard that stays green while the next
cycle fetches and renders counts. From the landing of a file to the end of its cycle the snapshot still shows the cycle before (`syncer.go:165` sets it at the
end) while file and gate are already moving; that lag is inherent and not counted.

### Where the code departs from its documentation

| Run | What TLC shows | Source |
|---|---|---|
| `BugDeltaConsume` | a failed consume in delta mode, then a retry with an empty diff: green, gate refuses a code | `syncer.go:229` |
| `BugUnixKill` | a command killed at its limit has `ExitCode()` -1 on Unix and counts as success | `syncer.go:320` |
| `BugPairOrder` | two overlapping pairing requests save in one order and queue in the other: the loop runs a pairing the disk does not have | `main.go:296` |
| `BugTwoUpdates` | a second update removes the `.old` the first one would roll back to: no binary is left | `update.go:194` |

More departures follow from the same models by a change of an instance, without a run of their own:

- *Republished state.* Add `"revert"` and keep `"sender"` in `SyncFull`: a failed consume of B, the console returns to A, the 304 against
  A's hash turns the dashboard green over B's file (`GreenFile`, `syncer.go:161`).
- *Stale pending.* Check `RosterFollowsFile` with `Desired` containing `TestF` and `"write"` in `Env`: a failed write leaves `pending`, the
  test provider's commit saves it (`template.go:188`, against `CommitApplied`'s comment).
- *Lost force.* Add `"write"` to `SyncForce`: a delta render uses up `forceNext`, its write fails, and no later file re-emits (`ForceServed`, `template.go:217`).
- *Force after a lost removal.* A forced re-emit drops the removals that were due (`template.go:220`; API_CONTRACT.md 119-120
  has force as the way to recover): `GateIsRoster` is claimed only where nobody forces.
- *Lost roster.* Add `"save"` to `SyncDelta`: a failed save is only logged (`syncer.go:230`), and a code removed in between and
  issued again is not re-added (`GreenGate`, `GreenAdmits`).
- *Edited format.* Put `DeltaG` with `changeSaysStatus |-> FALSE` in `DeltaStates`: the console changes the format in the same edit that restores a
  code, and the restore goes out as a change line that does not say so (`template.go:223`): `GreenGate` and `GreenAdmits` fail.
- *Sender ended by a signal.* On Unix not only the time limit makes `ExitCode()` -1 but any signal that ends the command; the model has both under `"kill"`.
- *Racing saves.* With `"race"` and `RenameOpen` in `Agent`, one writer truncates the temporary the other is about to rename:
  `ConfigWhole` fails (`config.go:137` calls `Save` atomic). In setup mode two requests for two facilities both pass the
  facility rule: `FacilityStays` fails.
- *`pair` beside an agent it does not find.* With `"late"`, a prompt that found no dashboard writes beside an agent that has loaded: one that has not begun to serve, has a port outside
  the five `findLocalAgent` tries (`main.go:469`), or could not serve. `RunsSaved` fails.
- *Foreground force.* With `"force"` in `Agent`, `run` returns and releases the lock while its cycle still runs (`main.go:377`): `OneCycle` fails.
- *Force during a re-pair.* A handler that loaded `current` before the switch tells a syncer that is about to end (`main.go:258`). Such a press is answered
  by the new syncer's first fetch, which `PressServed` counts, except in the interval the new syncer is already through with it.
- *An older installer.* `installSelf` compares no versions (`installer_windows.go:243-325`): one that is older than what is installed downgrades it. `UpdatesNeverDowngrade`
  excepts exactly that copy (`CopiesItself`), and the run has such an installer.
- *Signal during the foreground force.* The signal cancels the context and the syncer ends, but the process stays in `waitForEnter` (`main.go:376`, 664-666) and keeps the
  lock and the dashboard until Enter; a press there is not answered any more. `StopEnds` and `PressServed` say so (`Lingers`): without that disjunct TLC finds it in `AgentLive`.
- *Unreadable config.json.* `pairFromDashboard` takes any error of `config.Load` for an unpaired machine (`main.go:159-162`), so the facility rule does not apply: add
  `"unread"` to `Agent` and `FacilityStays` fails. An agent that starts then waits in setup mode with a pairing on disk.
- *Unreadable roster.* `loadRoster` (`template.go:106-110`) makes an empty roster of it: the next delta re-emits everything as adds and drops the removals that were due. Add
  `"read"` to `SyncDelta` and `GreenGate` fails, and `Delivers` with it; `GreenAdmits` and `Chains` hold with it (`SyncForce`).
- *Half a copy.* The installer's copy truncates the installed binary in place: `Restorable` has to except it.

A few are visible in the source without a model: a panic turns the local dashboard red but sends no heartbeat (`syncer.go:123`),
although the file's header says a failure is reported; a failed consume leaves the new file in place (`syncer.go:259`), although
the header says the previous one stays; suspending a known code is sent as `changedLine` (`template.go:224`), which may not say so; a
crash between the two renames leaves nothing at the service's path until a person acts (`update.go:189`), although the package
comment has an atomic swap; the rollback's own error is ignored.

### Bounds

`Syncer`, `DeltaChain`: two codes, one holder (two in `DeltaChain`), two nonces, three or four desired states. Rows of different codes never
interact in the renderer or the importer, so two codes (one that changes, one that stays) show every
interaction between a line and the rest of a file; a second holder gives the change that is not a
suspension. Three or four states let the console move on while a cycle is under way and let the next
diff span two edits. Two nonces are one move. Nothing in the model counts, so no bound hides a late state.
Without `revert` the console never returns to a state it left, which makes `Publish` finite.

`Agent`: two processes are enough for the lock, which only tells *mine* from *not mine*; two requests for a race, with a third
actor in the loop; two pairings of one facility, one the server refuses and one of another facility are one of each kind the
guards tell apart. Processes may be launched any number of times. The liveness run has one process, because each
formula speaks of one, and one pairing, because only timing matters in it.

`Deploy`: two updates, the second of which finds the `.old` and the temporary the first one left, and two installers; three versions: what is there, what is
published, what the newer installer carries, and an older installer that still carries the first. Each updater and installer acts once, the service any number of times.

Deadlock is checked in the `Sync` and `DeltaChain` runs. It is switched off for `Agent` and `Deploy`: there everything really may
end, with all requests answered and nobody starting another process.

### Fairness

- `WF(Cycle)` in `Syncer`: the `Run` goroutine keeps running and its timer is re-armed after every cycle (`timer.Reset`),
  so a started cycle goes on and a new one starts. This assumes the consume call returns; see section 5.
- `SF(TokenTaken)`, and in `Agent` `SF(CycleByToken)`, `SF(RunReturns)`: Go's select chooses among ready cases at random, so a case that
  is ready at infinitely many selects is eventually taken.
- `WF(GateReads)`: a gate that watches the folder looks again.
- `Agent`: `WF` of the loop, of the syncer, of the end of a cycle and of every handler: they are goroutines, and every call they make has a time limit of
  its own. Nothing is assumed of launches, stops, presses, crashes, failures or of Enter at the foreground force,
  which is why a signal does not end that one.
- `Deploy`: `WF` of the service manager's stop and recovery, of every update and every installer: processes that run on. Nothing is assumed of
  people, crashes or failures.
- In the `Sync` runs nothing is assumed of the console, the presses or the failures, except that they end (`settle`), at a moment of their own choosing.

## 4. Proofs

All theorems are about the same definitions the runs check, for any sets of codes, holders, nonces,
desired states, processes, requests, pairings, updates and installers, any site and `Env` unless stated. Each safety theorem is
an inductive invariant (checked by TLC first), the three facts about it, and `PTL`.

**`SyncerProofs`**

- `TypeCorrect`: `Spec => []TypeOK`.
- `GreenFileHolds`: `GreenFile`, if no state is published twice (`"revert" \notin Env`). The inductive
  invariant has two parts. *Carry*: what the cycle carries (`st`, `data`) is a published state and its
  rendering. *Hash*: `lastHash` is a published state, and if it is still the server's, the file has been its
  rendering ever since; a state the console left is not in question because a 304 needs equality with `cloud`. The
  republished state of section 3 shows that the assumption is needed.
- `PreviousFileKept`: `PreviousFileStays` (the file is, until the next one lands, the one last reported as applied), without a consume command and without panics, republished states
  allowed: then nothing after the rename can fail, so file and hash move together.
- `GreenGateHolds`: `GreenGate` in full mode. On top of the above, *Gate*: whatever a late sender hands over is the current file, so
  a gate that was told of the current file still has it. Assumes no revert and, on Unix,
  no kill (`BugUnixKill`).
- `RosterIsLanded`: `RosterFollowsFile`, if no desired state uses the test provider: from render to
  commit `pending` is what `data` says.
- `RunsLoopHolds`: `RunsLoop`, in every `Env`: `Spec` implements `RunLoop`, action by action as in the table of section 2; `TypeOK` suffices.

**`SyncerDeltaProofs`.** A *SureSite* has a consume command, no failed consume, kill, panic, crash or failed roster save
(`BugDeltaConsume` and section 3 show what each of them does) and no trial of the test provider; there every rendered file that is committed
is also imported. A *DeltaSite* is one whose formats can say what they need, whichever state they follow. Both theorems are about a *DeltaSite*.

- `GreenAdmitsHolds`: `GreenAdmits`, republished states, failed writes, edits of the format, unreadable rosters and every kind of Force allowed. The inductive invariant
  carries a diff through the cycle: what is pending or committed is what the file on its way says (*AppliesFile*), importing that file would leave nobody of `st` out, and
  outside a consume run the gate has at least the rows of the roster, so that a lost render is made up for by the next diff.
- `GreenGateExact`: `GreenGate` where nobody forces and the roster can be read (`NoForce`), by the same argument with equality: the gate *is* the roster, and `DiffIsExact` does the rest. A
  forced re-emit drops the removals that were due, and so does one against an unreadable roster, so the assumption is needed.

**`SyncerCourierProofs`**

Both theorems state `Delivers`, that is `Spec => Courier's Spec` under the mapping of `SyncerCourier`, where no state is published twice, there is a consume command, and an
observer of the gate can tell the desired states apart (*ToldApart*: each lets somebody in, no two let in the same).
They share the part that does not depend on the format: if every step keeps the gate at a position of the published order that it only moves forward from (*OnCourse*, *MovesOn*)
and a green dashboard vouches for the position the gate is at, then each step of `Syncer` is a step of `Courier` or none.

- `DeliversHolds`, at a *FullSite*: full mode, trials and stubs aside, on Unix no kill, every other trouble allowed. On top of the
  invariants of `SyncerProofs`, *PlaceInv*: the gate is at a position of the published order, the file at that or a later one, and what a cycle fetched at
  that or a later one still. So an import, by a sender in time or a late one, moves the gate forward or not at all; `GateInv` keeps it from moving while green.
- `DeliversByDeltas`, at an *ExactSite*: a `DeltaSite` where nobody forces and the roster can be read, edits of the format included. Here a file says nothing by itself, so
  the positions come from what it does: the invariant of `GreenGateExact` says that the gate is the roster outside a consume run and that importing the file on its way
  gives what its state grants.

**`SyncerChainProofs`**, at a *ChainSite*: a `SureSite` that stays with one delta format, whatever that can or cannot say; presses, moved nonces, unreadable rosters, failed fetches, writes and
heartbeats, and republished states are allowed.

- `ChainsHolds`: `Chains`, that is `Spec => DeltaChain's Spec` under the mapping of `SyncerChain`. The inductive invariant *RendersInv*: between a render and its commit
  the roster stays, so the file is still a diff against it; a forced render, or one against a roster that could not be read, has somebody who forces (`Forces` counts both); and where nobody does, the nonce in the roster is that of every state to come.
  A `Commit` is then one `Cycle` or `ForcedCycle`, and all other actions leave what the gate was told alone.
- `ToldIsRoster`: what `ChainHolds` and `GateHasRosterHolds` prove of `DeltaChain`, carried over through the refinement: with a format that can say what it needs, what
  the gate was told is the roster, and at least the roster where `Forces` holds, at every moment of every interleaving.

**`GateFormatProofs`, `DeltaChainProofs`**

- `ChainHolds`, `GateHasRosterHolds`: `GateIsRoster` and `GateHasRoster` for every format, from
  `DiffIsExact` (one diff imported into a gate that holds the prior rows leaves the effective rows) and
  `DeltaAdmits`. The strengthening: the roster's codes are distinct, which `UniqueCodes` of the input and
  `Effective` preserve, and a change line can say whatever there is to say about the rows the gate was told (*ChangeSays*).
- `FullIsExact`: importing a full file gives exactly the effective rows.

**`AgentProofs`**

- `TypeCorrect`.
- `OneCycleHolds`, if nobody runs the foreground force. *LockInv*: whoever is past `acquire` holds the lock, and a syncer that is not done has a
  process that waits for it. The foreground force breaks exactly the second half.
- `ProvenOnlyHolds`, with every event in `Env`, races included. *VouchInv*: every pairing anywhere between a proof and the disk (a request that
  saves, a file's content, a queue, a loop) was proven or typed.
- `ConfigWholeHolds`, if no two writers overlap (no `race`, no `late`). *DiskInv*: the two names never denote one file, only the one active
  writer has the temporary open, and from its write to its rename it holds what that writer wanted.
- `FacilityStaysHolds`, same assumption, and a config.json that can be read (no `unread`). *FacilityInv*: while a dashboard request is between its facility check and its
  rename, what is on disk has the facility it checked against.
- `RunsSavedHolds`, same assumption. *RunInv*: what is on disk is what is queued, else what the loop is switching to, else what it
  runs, or the process waits in setup mode (it may not have been able to read it), except while the one request in flight stands between rename and send.
- `RunsLoopsHolds`: `RunsLoops`, in every `Env`: every process implements `RunLoop`, whatever the others and the requests do. *SyncerInv*: a process that is not yet
  at its loop has no goroutine, and one that holds no pairing yet has no hash and no token. So a syncer is only started where none is left, which with
  `RunsLoopHolds` is what lets `Agent` take a whole cycle for one interval.

**`DeployProofs`**, all under `Sums` (the server publishes checksums) and no `race`:

- `TypeCorrect`, `RestorableHolds`, `VerifiedHolds`, `InstallDoneHolds`, `UpdatesNeverDowngradeHolds`, for any versions that installers carry.
- The inductive invariant `DeployInv` has to say for each place of an update or an installer what stands at each of the three names: *Carries* (what
  an update wrote to the temporary is the published binary, in a file of its own), *Replaces* (between the two renames nothing is at the path and `.old` is
  whole), *Installs* (which version an installer has put down), *Runs* (the agent runs from a file that is whole, and its version is that of the file), *Distinct*, *Intact*, and
  *OneActor*: an update that overlaps another one is `BugTwoUpdates`.

Assumptions on constants are the named `ASSUME`s of `GateFormat`, `Syncer`, `DeltaChain`, `Agent` and `Deploy`. TLC evaluates
all of them in the runs.

Model-checked only: all liveness properties (liveness, fairness and `ENABLED` are outside the prover). Every safety property the runs check is also proved.

## 5. Not modelled

- Poll cadence, backoff, jitter: they only delay the next cycle; a cycle may start whenever none runs.
- A sender that has read one file and hands its content to the gate after a later one was sent: a late sender is
  assumed to read the file when it sends.
- What the sender did: an exit of 0 is taken at its word. A sender that starts in a Windows session and ends with 0 without reaching the gate
  is a success here as it is in the code (`exec_windows.go:69`).
- A consume command that never returns (a grandchild that keeps the output pipe past the limit). It would hold a cycle, and
  with it a stop and a re-pair, for as long as it lives: `StopEnds` rests on the fairness of `CycleEnds`.
- Vacant units, sort order, placeholder expansion, line endings.
- In delta mode, a gate that has not read one file when the next replaces it: the program has no acknowledgement.
- Crashes in delta mode under `GreenGate`: the roster is committed before the consume runs, so a crash between them
  is `BugDeltaConsume` by another way.
- `Watch` of the self-update, which only logs; `service install` by hand (README.md:146), which leaves out the installer's steps;
  uninstall, whose detached `rd` of the folder waits about two seconds rather than for the end of the process (installer_windows.go 349-354).
- Elevation, shortcuts, PATH and registry entries, ACLs, `NormalizeEndpoint` and the https rule: one call each, nothing interleaves with them.
- Status snapshot, roster view and log ring: displays under a mutex; log rotation: sequential code nothing depends on.
- The HTTP client's 30-second limit and the dashboard's pages and browser guards.
- Tray, control window and setup window: Win32 message loops around the same dashboard hooks. Brand and tools: images.

## 6. What could follow

1. Vacant units with a controller that keeps a record per unit (`template.go:254`): whether a full file clears what it should clear.
2. The schedule of `Run` (failure count, shift, cap, jitter bounds) as functions, checked and proved against its comment.
3. Uninstall in `Deploy`, racing an update and a recovery of the service.
