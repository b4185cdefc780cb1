-------------------------------- MODULE Agent --------------------------------
(***************************************************************************)
(* The agent process around the core loop (cmd/unitrise-gate/main.go): the *)
(* single-instance lock, setup mode, the loop that restarts the syncer on  *)
(* a new pairing, the dashboard's pairing and Force hooks, service stop,   *)
(* the foreground `force`, and `pair` from a prompt where no agent runs.   *)
(*                                                                         *)
(* Several processes may be started: the service, and a tech's console.    *)
(* Inside one of them these run concurrently:                              *)
(*                                                                         *)
(*   loop     acquire -> load -> (setup ->) start -> running -> switch...  *)
(*   syncer   select -> cycle -> select ... -> done, once per pairing      *)
(*   request  prove -> open -> write -> rename -> drain -> send            *)
(*                                                                         *)
(* A request saves config.json through a temporary whose name every writer *)
(* shares, so the disk is modelled down to which file a name denotes.      *)
(***************************************************************************)
EXTENDS FiniteSets

CONSTANTS
    Process,     \* the agent processes that may be started
    Request,     \* requests to pair, each made at most once: to a dashboard,
                 \* or by a `pair` that writes the config itself
    Pairing,     \* the pairings somebody may enter
    Good,        \* those the server accepts and whose folder is writable
    FacilityOf,  \* the facility of a pairing
    First,       \* the file config.json is in the beginning
    None,        \* no pairing, no file, no process
    RenameOpen,  \* a file somebody has open can be renamed (not on Windows)
    Env          \* what this instance lets happen

\* crash: a process dies.  stop: it is told to stop.  press: Force is pressed.
\* fail: a call of a request fails.  race: two requests to a dashboard overlap
\* in time.  late: a `pair` at a prompt overlaps with them, with the start of an
\* agent, or with one that it does not find.  force: `force` is run.  unread: a
\* config.json that is there cannot be read.
Events == {"crash", "stop", "press", "fail", "race", "late", "force", "unread"}

Inode == Request \cup {First}
Name == {"config", "tmp"}

ASSUME ProcessAssumption == IsFiniteSet(Process)
ASSUME RequestAssumption == First \notin Request
ASSUME PairingAssumption == Good \subseteq Pairing /\ DOMAIN FacilityOf = Pairing
ASSUME NoneAssumption ==
    None \notin Process /\ None \notin Pairing /\ None \notin Inode
ASSUME ContentAssumption == {"empty", "torn"} \cap Pairing = {}
ASSUME PlatformAssumption == RenameOpen \in BOOLEAN /\ Env \subseteq Events

VARIABLES
    holder,   \* the process that has the lock
    mode,     \* `run` or `force`
    pc,       \* where a process is
    stop,     \* its context was cancelled by the service manager or a signal
    cfg,      \* the loop's cfg
    next,     \* the newCfg it is switching to
    chan,     \* the one-slot pairCh
    current,  \* `current` points to a syncer
    run,      \* where that syncer's Run goroutine is
    applied,  \* that syncer has a lastHash
    token,    \* its force channel holds a token
    press,    \* a Force handler has loaded `current` and not yet told it
    owed,     \* history: a press the current syncer was told of is unserved
    dir,      \* the file a name denotes
    content,  \* what is in a file
    rq        \* the requests

lockVars   == <<holder, mode, pc, stop>>
loopVars   == <<cfg, next, current>>
syncerVars == <<run, applied, token>>
pressVars  == <<press, owed>>
diskVars   == <<dir, content>>
vars == <<lockVars, loopVars, chan, syncerVars, pressVars, diskVars, rq>>

Served == {"setup", "start", "running", "switch", "front", "leaving", "released"}
Pcs == {"off", "acquire", "load"} \cup Served
Saving == {"open", "write", "rename"}
Steps == {"new", "prove"} \cup Saving \cup {"drain", "send", "done"}

\* Validate: whoever saves a pairing has validated it, so nothing shorter than a
\* pairing has its key, secret, facility, save path and an https endpoint.
Valid(c) == c \in Pairing

\* config.Load and Validate: a file that is absent or not JSON is no pairing.
Loaded ==
    IF dir["config"] # None /\ Valid(content[dir["config"]])
    THEN content[dir["config"]] ELSE None

\* What a caller of config.Load goes by: an error is no pairing.
Reads == {Loaded} \cup (IF "unread" \in Env THEN {None} ELSE {})

\* A `pair` at a prompt belongs to no agent process.
Typed(r) == rq[r].proc = None

\* What is left of a request that was answered or died: what an administrator
\* typed is remembered.
Over(r) == [pc |-> "done", proc |-> None, fd |-> None,
            want |-> IF Typed(r) THEN rq[r].want ELSE None]

InFlight(r) == rq[r].pc \notin {"new", "done"}

\* Nobody is about to write the config, or such overlaps are part of the run.
Alone(event) == event \in Env \/ \A r \in Request : ~InFlight(r)

\* A mistake Cancelled avoids: a context of its own instead of the loop's.
CancelledByLoop(p) == pc[p] \in {"switch", "leaving", "released"}

\* The syncer's context is cancelled, by the loop or from outside.
Cancelled(p) == stop[p] \/ pc[p] \in {"switch", "leaving", "released"}

-----------------------------------------------------------------------------
Init ==
    /\ holder = None
    /\ mode = [p \in Process |-> "run"]
    /\ pc = [p \in Process |-> "off"]
    /\ stop = [p \in Process |-> FALSE]
    /\ cfg = [p \in Process |-> None]
    /\ next = [p \in Process |-> None]
    /\ chan = [p \in Process |-> None]
    /\ current = [p \in Process |-> FALSE]
    /\ run = [p \in Process |-> "done"]
    /\ applied = [p \in Process |-> FALSE]
    /\ token = [p \in Process |-> FALSE]
    /\ press = [p \in Process |-> FALSE]
    /\ owed = [p \in Process |-> FALSE]
    /\ \E first \in Good \cup {None} :
          /\ dir = [n \in Name |->
                      IF n = "config" /\ first # None THEN First ELSE None]
          /\ content = [i \in Inode |->
                           IF i = First /\ first # None THEN first ELSE "empty"]
    /\ rq = [r \in Request |-> [pc |-> "new", proc |-> None, want |-> None,
                                fd |-> None]]

-----------------------------------------------------------------------------
(* A process starts, stops and dies                                        *)

\* The service manager, a login or a tech starts the program.
Launch(p) ==
    /\ pc[p] = "off"
    /\ "late" \in Env \/ \A r \in Request : ~(InFlight(r) /\ Typed(r))
    /\ \E m \in {"run"} \cup ({"force"} \cap Env) : mode' = [mode EXCEPT ![p] = m]
    /\ pc' = [pc EXCEPT ![p] = "acquire"]
    /\ UNCHANGED <<holder, stop, loopVars, chan, syncerVars, pressVars,
                   diskVars, rq>>

\* lock.Acquire: the second process leaves.
Acquire(p) ==
    /\ pc[p] = "acquire"
    /\ holder' = IF holder = None THEN p ELSE holder
    /\ pc' = [pc EXCEPT ![p] = IF holder = None THEN "load" ELSE "off"]
    /\ UNCHANGED <<mode, stop, loopVars, chan, syncerVars, pressVars, diskVars,
                   rq>>

\* What is left of a process that ended: the lock goes with it, and so do the
\* handlers that were running in it.
Gone(p) ==
    /\ holder' = IF holder = p THEN None ELSE holder
    /\ pc' = [pc EXCEPT ![p] = "off"]
    /\ stop' = [stop EXCEPT ![p] = FALSE]
    /\ cfg' = [cfg EXCEPT ![p] = None]
    /\ next' = [next EXCEPT ![p] = None]
    /\ chan' = [chan EXCEPT ![p] = None]
    /\ current' = [current EXCEPT ![p] = FALSE]
    /\ run' = [run EXCEPT ![p] = "done"]
    /\ applied' = [applied EXCEPT ![p] = FALSE]
    /\ token' = [token EXCEPT ![p] = FALSE]
    /\ press' = [press EXCEPT ![p] = FALSE]
    /\ owed' = [owed EXCEPT ![p] = FALSE]
    /\ rq' = [r \in Request |-> IF rq[r].proc = p THEN Over(r) ELSE rq[r]]
    /\ UNCHANGED <<mode, diskVars>>

\* Killed, or the machine went down.
Crash(p) == "crash" \in Env /\ pc[p] # "off" /\ Gone(p)

\* config.Load and Validate after the lock: no pairing is setup mode, and the
\* end of a `force`.
LoadConfig(p) ==
    /\ pc[p] = "load"
    /\ \E c \in Reads :
          \/ /\ mode[p] = "force" /\ c = None
             /\ Gone(p)
          \/ /\ mode[p] = "force" => c # None
             /\ cfg' = [cfg EXCEPT ![p] = c]
             /\ pc' = [pc EXCEPT ![p] = IF c = None THEN "setup" ELSE "start"]
             /\ UNCHANGED <<holder, mode, stop, next, current, chan, syncerVars,
                            pressVars, diskVars, rq>>

\* Execute's Stop, or a signal: the context is cancelled, the foreground `force`
\* too, which goes on waiting for Enter.
Stop(p) ==
    /\ "stop" \in Env
    /\ pc[p] \in Served \ {"leaving", "released"}
    /\ stop' = [stop EXCEPT ![p] = TRUE]
    /\ UNCHANGED <<holder, mode, pc, loopVars, chan, syncerVars, pressVars,
                   diskVars, rq>>

\* A mistake Return avoids: not waiting for the syncer.
ReturnEarly(p) ==
    /\ stop[p]
    /\ pc[p] \in {"setup", "running"}
    /\ holder' = IF holder = p THEN None ELSE holder
    /\ pc' = [pc EXCEPT ![p] = "released"]
    /\ UNCHANGED <<mode, stop, loopVars, chan, syncerVars, pressVars, diskVars,
                   rq>>

\* The loop returns once the syncer has, run's deferred release and the end of
\* the process follow.
Return(p) ==
    /\ stop[p]
    /\ pc[p] \in {"setup", "running"}
    /\ run[p] = "done"
    /\ Gone(p)

-----------------------------------------------------------------------------
(* The loop                                                                *)

\* Setup mode: the first pairing.
TakeFirst(p) ==
    /\ pc[p] = "setup"
    /\ chan[p] # None
    /\ cfg' = [cfg EXCEPT ![p] = chan[p]]
    /\ chan' = [chan EXCEPT ![p] = None]
    /\ pc' = [pc EXCEPT ![p] = "start"]
    /\ UNCHANGED <<holder, mode, stop, next, current, syncerVars, pressVars,
                   diskVars, rq>>

\* A new syncer becomes the current one and its Run is started; `force` marks
\* it first and waits for Enter.  A Force handler that has loaded the one before
\* will leave its token where nobody takes it.
StartSyncer(p) ==
    /\ pc[p] = "start"
    /\ current' = [current EXCEPT ![p] = TRUE]
    /\ press' = [press EXCEPT ![p] = FALSE]
    /\ run' = [run EXCEPT ![p] = "select"]
    /\ applied' = [applied EXCEPT ![p] = FALSE]
    /\ token' = [token EXCEPT ![p] = mode[p] = "force"]
    /\ pc' = [pc EXCEPT ![p] = IF mode[p] = "force" THEN "front" ELSE "running"]
    /\ UNCHANGED <<holder, mode, stop, cfg, next, chan, owed, diskVars, rq>>

\* A mistake TakeNext avoids: not waiting until there is one.
TakeNextPolls(p) ==
    /\ pc[p] = "running"
    /\ next' = [next EXCEPT ![p] = chan[p]]
    /\ chan' = [chan EXCEPT ![p] = None]
    /\ pc' = [pc EXCEPT ![p] = "switch"]
    /\ UNCHANGED <<holder, mode, stop, cfg, current, syncerVars, pressVars,
                   diskVars, rq>>

\* Another one: reading pairCh in setup mode only.
TakeNextInSetup(p) ==
    /\ pc[p] = "setup"
    /\ chan[p] # None
    /\ next' = [next EXCEPT ![p] = chan[p]]
    /\ chan' = [chan EXCEPT ![p] = None]
    /\ pc' = [pc EXCEPT ![p] = "switch"]
    /\ UNCHANGED <<holder, mode, stop, cfg, current, syncerVars, pressVars,
                   diskVars, rq>>

\* pairCh has another pairing: the syncer is cancelled.
TakeNext(p) ==
    /\ pc[p] = "running"
    /\ chan[p] # None
    /\ next' = [next EXCEPT ![p] = chan[p]]
    /\ chan' = [chan EXCEPT ![p] = None]
    /\ pc' = [pc EXCEPT ![p] = "switch"]
    /\ UNCHANGED <<holder, mode, stop, cfg, current, syncerVars, pressVars,
                   diskVars, rq>>

\* A mistake Switch avoids: going round with the old pairing.
SwitchForgets(p) ==
    /\ pc[p] = "switch"
    /\ run[p] = "done"
    /\ next' = [next EXCEPT ![p] = None]
    /\ pc' = [pc EXCEPT ![p] = "start"]
    /\ UNCHANGED <<holder, mode, stop, cfg, current, chan, syncerVars, pressVars,
                   diskVars, rq>>

\* Its Run has returned, a cycle that was under way included.
Switch(p) ==
    /\ pc[p] = "switch"
    /\ run[p] = "done"
    /\ cfg' = [cfg EXCEPT ![p] = next[p]]
    /\ next' = [next EXCEPT ![p] = None]
    /\ pc' = [pc EXCEPT ![p] = "start"]
    /\ UNCHANGED <<holder, mode, stop, current, chan, syncerVars, pressVars,
                   diskVars, rq>>

\* The foreground `force`: Enter cancels the context and run returns, whether
\* or not the cycle is through...
Enter(p) ==
    /\ pc[p] = "front"
    /\ pc' = [pc EXCEPT ![p] = "leaving"]
    /\ UNCHANGED <<holder, mode, stop, loopVars, chan, syncerVars, pressVars,
                   diskVars, rq>>

\* ...the deferred release...
Release(p) ==
    /\ pc[p] = "leaving"
    /\ holder' = None
    /\ pc' = [pc EXCEPT ![p] = "released"]
    /\ UNCHANGED <<mode, stop, loopVars, chan, syncerVars, pressVars, diskVars,
                   rq>>

\* ...and the end of the process, which takes the cycle with it.
Exit(p) == pc[p] = "released" /\ Gone(p)

-----------------------------------------------------------------------------
(* The syncer's Run goroutine                                              *)

\* The timer fires.  Without a lastHash the fetch is a full one and the cycle
\* answers a press.
CycleByTimer(p) ==
    /\ run[p] = "select"
    /\ run' = [run EXCEPT ![p] = "cycle"]
    /\ owed' = [owed EXCEPT ![p] = @ /\ applied[p]]
    /\ UNCHANGED <<lockVars, loopVars, chan, applied, token, press, diskVars, rq>>

\* A force token drops the lastHash first.
CycleByToken(p) ==
    /\ run[p] = "select"
    /\ token[p]
    /\ run' = [run EXCEPT ![p] = "cycle"]
    /\ applied' = [applied EXCEPT ![p] = FALSE]
    /\ token' = [token EXCEPT ![p] = FALSE]
    /\ owed' = [owed EXCEPT ![p] = FALSE]
    /\ UNCHANGED <<lockVars, loopVars, chan, press, diskVars, rq>>

\* The cycle ends, well or not; the details are module Syncer.
CycleEnds(p) ==
    /\ run[p] = "cycle"
    /\ run' = [run EXCEPT ![p] = "select"]
    /\ applied' \in {applied, [applied EXCEPT ![p] = TRUE]}
    /\ UNCHANGED <<lockVars, loopVars, chan, token, pressVars, diskVars, rq>>

\* A mistake RunReturns avoids: leaving in the middle of a cycle.
RunAbandons(p) ==
    /\ run[p] # "done"
    /\ Cancelled(p)
    /\ run' = [run EXCEPT ![p] = "done"]
    /\ UNCHANGED <<lockVars, loopVars, chan, applied, token, pressVars, diskVars,
                   rq>>

\* ctx.Done, looked at between cycles only.
RunReturns(p) ==
    /\ run[p] = "select"
    /\ Cancelled(p)
    /\ run' = [run EXCEPT ![p] = "done"]
    /\ UNCHANGED <<lockVars, loopVars, chan, applied, token, pressVars, diskVars,
                   rq>>

-----------------------------------------------------------------------------
(* The dashboard's hooks                                                   *)

\* OnForce loads `current`; in setup mode it is nil and the press is over.
PressForce(p) ==
    /\ "press" \in Env
    /\ pc[p] \in Served
    /\ current[p]
    /\ press' = [press EXCEPT ![p] = TRUE]
    /\ UNCHANGED <<lockVars, loopVars, chan, syncerVars, owed, diskVars, rq>>

\* A mistake TellSyncer avoids: no token.
TellNobody(p) ==
    /\ press[p]
    /\ press' = [press EXCEPT ![p] = FALSE]
    /\ owed' = [owed EXCEPT ![p] = TRUE]
    /\ UNCHANGED <<lockVars, loopVars, chan, syncerVars, diskVars, rq>>

\* ForceFullUpdate leaves a token with the syncer it found.
TellSyncer(p) ==
    /\ press[p]
    /\ press' = [press EXCEPT ![p] = FALSE]
    /\ token' = [token EXCEPT ![p] = TRUE]
    /\ owed' = [owed EXCEPT ![p] = TRUE]
    /\ UNCHANGED <<lockVars, loopVars, chan, run, applied, diskVars, rq>>

Step(r, to) == rq' = [rq EXCEPT ![r].pc = to]
End(r) == rq' = [rq EXCEPT ![r] = Over(r)]
Elsewhere == UNCHANGED <<lockVars, loopVars, syncerVars, pressVars>>

\* A mistake Begin avoids: taking a pairing for another facility.
BeginAny(r, p) ==
    /\ rq[r].pc = "new"
    /\ pc[p] \in Served
    /\ Alone("race")
    /\ \E w \in Pairing :
          rq' = [rq EXCEPT ![r] = [pc |-> "prove", proc |-> p, want |-> w,
                                   fd |-> None]]
    /\ Elsewhere /\ UNCHANGED <<chan, diskVars>>

\* pairFromDashboard loads the present config: a paired machine keeps its
\* facility.
Begin(r, p) ==
    /\ rq[r].pc = "new"
    /\ pc[p] \in Served
    /\ Alone("race")
    /\ \E old \in Reads :
          \/ old # None /\ End(r)
          \/ \E w \in Pairing :
                /\ old # None => FacilityOf[w] = FacilityOf[old]
                /\ rq' = [rq EXCEPT ![r] = [pc |-> "prove", proc |-> p, want |-> w,
                                            fd |-> None]]
    /\ Elsewhere /\ UNCHANGED <<chan, diskVars>>

\* findLocalAgent: nobody answers on the five ports it tries.  An agent that does
\* not serve yet, has a port of its own or could not serve is there and not found.
NoAgent == "late" \in Env \/ \A p \in Process : pc[p] = "off"

\* `pair` where no dashboard answers: it writes the config itself, unproven,
\* for any facility.
BeginCli(r) ==
    /\ rq[r].pc = "new"
    /\ NoAgent
    /\ Alone("late")
    /\ \E w \in Pairing :
          rq' = [rq EXCEPT ![r] = [pc |-> "open", proc |-> None, want |-> w,
                                   fd |-> None]]
    /\ Elsewhere /\ UNCHANGED <<chan, diskVars>>

\* A mistake Prove avoids: saving first, proving later.
ProveLater(r) ==
    /\ rq[r].pc = "prove"
    /\ Step(r, "open")
    /\ Elsewhere /\ UNCHANGED <<chan, diskVars>>

\* GetState with the new credentials, then a probe file in the save path.
Prove(r) ==
    /\ rq[r].pc = "prove"
    /\ \/ rq[r].want \in Good /\ Step(r, "open")
       \/ (rq[r].want \notin Good \/ "fail" \in Env) /\ End(r)
    /\ Elsewhere /\ UNCHANGED <<chan, diskVars>>

\* A request that fails is answered with the error.
Refuse(r) ==
    /\ "fail" \in Env
    /\ rq[r].pc \in Saving
    /\ End(r)
    /\ \/ rq[r].pc = "write" /\ content' = [content EXCEPT ![rq[r].fd] = "torn"]
       \/ UNCHANGED content
    /\ Elsewhere /\ UNCHANGED <<chan, dir>>

\* A mistake Open avoids: writing config.json itself.
OpenInPlace(r) ==
    /\ rq[r].pc = "open"
    /\ dir' = [dir EXCEPT !["config"] = r]
    /\ rq' = [rq EXCEPT ![r].pc = "write", ![r].fd = r]
    /\ Elsewhere /\ UNCHANGED <<chan, content>>

\* Save: WriteFile opens the temporary, truncating one that is there...
Open(r) ==
    /\ rq[r].pc = "open"
    /\ LET i == IF dir["tmp"] = None THEN r ELSE dir["tmp"]
       IN  /\ dir' = [dir EXCEPT !["tmp"] = i]
           /\ content' = [content EXCEPT ![i] = "empty"]
           /\ rq' = [rq EXCEPT ![r].pc = "write", ![r].fd = i]
    /\ Elsewhere /\ UNCHANGED chan

\* ...and writes from its start: what another wrote there since shows past the
\* end of a shorter text.
Write(r) ==
    /\ rq[r].pc = "write"
    /\ \E c \in {rq[r].want} \cup
                (IF content[rq[r].fd] \in {"empty", rq[r].want} THEN {} ELSE {"torn"}) :
          content' = [content EXCEPT ![rq[r].fd] = c]
    /\ Step(r, "rename")
    /\ Elsewhere /\ UNCHANGED <<chan, dir>>

\* Where an open file cannot be renamed another writer is in the way.
MayRename == dir["tmp"] # None /\
    (RenameOpen \/ \A r \in Request : ~(rq[r].pc = "write" /\ rq[r].fd = dir["tmp"]))

\* The temporary, whoever wrote it, becomes config.json; the file that was
\* is gone.
Rename(r) ==
    /\ rq[r].pc = "rename"
    /\ \/ /\ MayRename
          /\ dir' = [n \in Name |-> IF n = "config" THEN dir["tmp"] ELSE None]
          /\ content' = IF dir["config"] = None THEN content
                        ELSE [content EXCEPT ![dir["config"]] = "empty"]
          /\ IF Typed(r) THEN End(r) ELSE Step(r, "drain")
       \/ /\ ~MayRename
          /\ UNCHANGED diskVars
          /\ End(r)
    /\ Elsewhere /\ UNCHANGED chan

\* OnPair drops a queued pairing...
Drain(r) ==
    /\ rq[r].pc = "drain"
    /\ chan' = [chan EXCEPT ![rq[r].proc] = None]
    /\ Step(r, "send")
    /\ Elsewhere /\ UNCHANGED diskVars

\* ...and queues this one, waiting for room.
Send(r) ==
    /\ rq[r].pc = "send"
    /\ chan[rq[r].proc] = None
    /\ chan' = [chan EXCEPT ![rq[r].proc] = rq[r].want]
    /\ End(r)
    /\ Elsewhere /\ UNCHANGED diskVars

-----------------------------------------------------------------------------
Loop(p) ==
    \/ Acquire(p) \/ LoadConfig(p) \/ Return(p)
    \/ TakeFirst(p) \/ StartSyncer(p) \/ TakeNext(p) \/ Switch(p)
    \/ Release(p) \/ Exit(p)

Cycle(p) == CycleByTimer(p) \/ CycleByToken(p) \/ RunReturns(p)

Save(r) == Open(r) \/ Write(r) \/ Rename(r)

Handle(r) == Prove(r) \/ Save(r) \/ Drain(r) \/ Send(r)

Next ==
    \/ \E p \in Process :
          \/ Launch(p) \/ Crash(p) \/ Stop(p) \/ Enter(p)
          \/ Loop(p) \/ Cycle(p) \/ CycleEnds(p)
          \/ PressForce(p) \/ TellSyncer(p)
    \/ \E r \in Request :
          \/ BeginCli(r) \/ Handle(r) \/ Refuse(r)
          \/ \E p \in Process : Begin(r, p)

\* Goroutines that can go on do; a cycle ends; select looks at a case that is
\* ready at infinitely many of its turns.
Fairness ==
    /\ \A p \in Process :
          /\ WF_vars(Loop(p)) /\ WF_vars(Cycle(p)) /\ WF_vars(CycleEnds(p))
          /\ SF_vars(CycleByToken(p)) /\ SF_vars(RunReturns(p))
    /\ \A r \in Request : WF_vars(Handle(r))

Spec == Init /\ [][Next]_vars

FairSpec == Spec /\ Fairness

-----------------------------------------------------------------------------
(* Properties                                                              *)

\* Every variable holds a value of its kind.
TypeOK ==
    /\ holder \in Process \cup {None}
    /\ mode \in [Process -> {"run", "force"}]
    /\ pc \in [Process -> Pcs]
    /\ stop \in [Process -> BOOLEAN]
    /\ cfg \in [Process -> Pairing \cup {None}]
    /\ next \in [Process -> Pairing \cup {None}]
    /\ \A p \in Process : pc[p] = "switch" => next[p] # None
    /\ chan \in [Process -> Pairing \cup {None}]
    /\ current \in [Process -> BOOLEAN]
    /\ run \in [Process -> {"select", "cycle", "done"}]
    /\ applied \in [Process -> BOOLEAN]
    /\ token \in [Process -> BOOLEAN]
    /\ press \in [Process -> BOOLEAN]
    /\ owed \in [Process -> BOOLEAN]
    /\ dir \in [Name -> Inode \cup {None}]
    /\ content \in [Inode -> Pairing \cup {"empty", "torn"}]
    /\ rq \in [Request -> [pc : Steps, proc : Process \cup {None},
                           want : Pairing \cup {None}, fd : Inode \cup {None}]]
    /\ \A r \in Request : InFlight(r) => rq[r].want # None

\* run's comment: ONE agent per machine, ever.  No two processes are inside a
\* cycle, which would each commit a roster the other's file never told.
OneCycle == \A p, q \in Process : run[p] = "cycle" /\ run[q] = "cycle" => p = q

\* The config is absent or a whole pairing, whatever failed or died while one
\* was saved.
ConfigWhole == dir["config"] # None => Loaded # None

\* pairFromDashboard: nothing unproven is ever saved.  What is on disk was
\* proven, or typed by an administrator.
ProvenOnly ==
    Loaded # None => Loaded \in Good \/ \E r \in Request : Typed(r) /\ rq[r].want = Loaded

\* The loop has caught up with the requests: it runs one syncer, no request is
\* in flight, none is queued.
Quiet(p) ==
    /\ pc[p] = "running" /\ chan[p] = None
    /\ \A r \in Request : ~InFlight(r)

\* What runs is what a restart would run: once the loop is quiet its pairing is
\* the one on disk (OnPair saves and queues in two steps).
RunsSaved == \A p \in Process : Quiet(p) => cfg[p] = Loaded

KeepsFacility ==
    Loaded # None /\ Loaded' # None /\ Loaded' # Loaded
        => \/ FacilityOf[Loaded'] = FacilityOf[Loaded]
           \/ \E r \in Request : Typed(r) /\ rq[r].pc \in Saving

\* A machine moves to another facility only by `pair` at an administrator's
\* prompt, never through the dashboard.
FacilityStays == [][KeepsFacility]_vars

\* A foreground `force` whose syncer has ended: no signal ends it any more, it
\* keeps the lock and the dashboard until somebody presses Enter.
Lingers(p) == pc[p] = "front" /\ run[p] = "done"

\* A press that reached the current syncer is answered by a cycle with a full
\* fetch, its own or the first one of the syncer that replaces it; only a
\* foreground `force` that was told to stop leaves one unanswered.
PressServed == \A p \in Process : owed[p] ~> ~owed[p] \/ Lingers(p)

\* A stop ends the syncer, through any cycle and re-pair that is under way, and
\* with it the process, but for the foreground `force`, which lingers.
StopEnds == \A p \in Process : stop[p] ~> ~stop[p] \/ Lingers(p)

\* Every pairing request is answered, also when others race it for the one
\* slot of the queue; only the foreground `force` never reads that queue.
Unread(r) == rq[r].proc # None /\ mode[rq[r].proc] = "force"
Answered == \A r \in Request : InFlight(r) ~> ~InFlight(r) \/ Unread(r)

\* Each process runs its syncers one after the other, the way module Syncer
\* shows them from inside: a re-pair starts the next one only once a cycle of
\* the last is over, and nothing but that cycle touches hash and token.
Syncers(p) == INSTANCE RunLoop WITH
    up <- pc[p] # "off",
    run <- run[p],
    applied <- applied[p],
    token <- token[p]

RunsLoops ==
    /\ \A p \in Process : Syncers(p)!Init
    /\ [][\A p \in Process : [Syncers(p)!Next]_(Syncers(p)!vars)]_vars
=============================================================================
