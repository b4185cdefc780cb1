------------------------------- MODULE Deploy -------------------------------
(***************************************************************************)
(* The program's own binary on a gate PC: the self-update that swaps it    *)
(* (internal/update), the installer that copies over it                    *)
(* (installer_windows.go), and the service manager that runs whatever is   *)
(* at the service's path (internal/service).                               *)
(*                                                                         *)
(* Three names in one folder matter: the binary, `.old`, and the temporary *)
(* `.unitrise-gate.new`.  A name denotes a file; on Windows a file some    *)
(* process runs from can be renamed but not written, replaced or removed,  *)
(* and a file somebody writes cannot be renamed.  Elsewhere all of it      *)
(* works.                                                                  *)
(***************************************************************************)
EXTENDS Integers

CONSTANTS
    Updater,    \* self-updates, each tried once
    Installer,  \* runs of the installer (Windows), each once
    Latest,     \* the version the server publishes
    Carried,    \* the version an installer is, newer or older than the others
    First,      \* the file of the first installation
    None,       \* no file
    Sums,       \* the server publishes SHA256SUMS
    Env         \* what this instance lets happen

\* crash: processes die.  fail: a call fails.  race: an update starts while
\* another update or an installer is under way.
Events == {"crash", "fail", "race"}

File == Updater \cup Installer \cup {First}
Name == {"exe", "old", "new"}

\* What is in a file: a version, or a binary cut short by an update, cut short
\* by an installer, or not the published one.
Partial == 0
Cut == -1
Bad == -2

ASSUME ActorAssumption ==
    Updater \cap Installer = {} /\ First \notin Updater \cup Installer
ASSUME NoneAssumption == None \notin File
ASSUME VersionAssumption ==
    /\ Latest \in Nat \ {0}
    /\ Carried \in [Installer -> Nat \ {0}]
ASSUME SettingAssumption == Sums \in BOOLEAN /\ Env \subseteq Events

VARIABLES
    windows,  \* the platform of this PC
    dir,      \* the file a name denotes
    data,     \* what is in a file
    scm,      \* the service as its manager sees it
    image,    \* the file the agent runs from
    ver,      \* the version that is running
    up,       \* the updates
    ins,      \* where an installer is
    was,      \* its wasInstalled
    last      \* history: the last version that was whole at the path

fileVars == <<dir, data>>
svcVars  == <<scm, image, ver>>
insVars  == <<ins, was>>
vars == <<windows, fileVars, svcVars, up, insVars, last>>

UpSteps == {"idle", "fetch", "open", "write", "clear", "aside", "place", "exit",
            "done"}
InsSteps == {"idle", "kill", "copy", "write", "register", "start", "done",
             "failed"}

Whole(n) == dir[n] # None /\ data[dir[n]] > 0

Updating(u) == up[u].pc \notin {"idle", "done"}
Installing(i) == ins[i] \notin {"idle", "done", "failed"}
Alone == "race" \in Env \/ /\ \A u \in Updater : ~Updating(u)
                           /\ \A i \in Installer : ~Installing(i)

\* The agent or a prompt's `update` runs from the file.
Mapped(f) ==
    f = image \/ \E u \in Updater : Updating(u) /\ up[u].host = "cli" /\ up[u].img = f

\* Somebody has the file open and writes it.
Busy(f) == \/ \E u \in Updater : up[u].pc = "write" /\ up[u].fd = f
           \/ \E i \in Installer : ins[i] = "write" /\ dir["exe"] = f

CanMove(f) == f # None /\ (windows => ~Busy(f))
CanReplace(f) == f = None \/ (windows => ~Busy(f) /\ ~Mapped(f))

\* The history keeps up with what is at the path.
Note == last' = IF dir'["exe"] # None /\ data'[dir'["exe"]] > 0
                THEN data'[dir'["exe"]] ELSE last

-----------------------------------------------------------------------------
\* An installed machine, or one that has never seen the program.
Init ==
    /\ windows \in BOOLEAN
    /\ data = [f \in File |-> IF f = First THEN 1 ELSE Partial]
    /\ \/ /\ dir = [n \in Name |-> IF n = "exe" THEN First ELSE None]
          /\ scm = "running" /\ image = First /\ ver = 1 /\ last = 1
       \/ /\ dir = [n \in Name |-> None]
          /\ scm = "absent" /\ image = None /\ ver = 0 /\ last = 0
    /\ up = [u \in Updater |-> [pc |-> "idle", host |-> "agent", bin |-> Partial,
                                fd |-> None, img |-> None]]
    /\ ins = [i \in Installer |-> "idle"]
    /\ was = [i \in Installer |-> FALSE]

-----------------------------------------------------------------------------
(* The service manager                                                     *)

Over(u) == [up[u] EXCEPT !.pc = "done", !.bin = Partial, !.fd = None, !.img = None]

\* The agent's process is gone, and the updates that ran in it.
AgentEnds(state) ==
    /\ scm' = state
    /\ image' = None /\ ver' = 0
    /\ up' = [u \in Updater |->
                 IF Updating(u) /\ up[u].host = "agent" THEN Over(u) ELSE up[u]]

\* The manager runs what is at the service's path.
Run ==
    /\ Whole("exe")
    /\ scm' = "running"
    /\ image' = dir["exe"] /\ ver' = data[dir["exe"]]

\* A person stops the service (Execute cancels the loop and waits for it), but
\* not one that is being installed...
StopService ==
    /\ scm = "running"
    /\ \A i \in Installer : ~Installing(i)
    /\ scm' = "stopping"
    /\ UNCHANGED <<windows, fileVars, image, ver, up, insVars, last>>

ServiceStops ==
    /\ scm = "stopping"
    /\ AgentEnds("stopped")
    /\ UNCHANGED <<windows, fileVars, insVars, last>>

\* ...and starts it.
StartService ==
    /\ scm = "stopped"
    /\ Run
    /\ UNCHANGED <<windows, fileVars, up, insVars, last>>

\* The recovery actions of Install, or launchd's KeepAlive.
Recover ==
    /\ scm = "recovering"
    /\ Run
    /\ UNCHANGED <<windows, fileVars, up, insVars, last>>

AgentDies ==
    /\ "crash" \in Env
    /\ scm \in {"running", "stopping"}
    /\ AgentEnds("recovering")
    /\ UNCHANGED <<windows, fileVars, insVars, last>>

-----------------------------------------------------------------------------
(* SelfUpdate                                                              *)

To(u, pc) == up' = [up EXCEPT ![u].pc = pc]

\* The update is over, well or not, and whoever asked for it is told.
EndUpdate(u) == up' = [up EXCEPT ![u] = Over(u)]

Around == UNCHANGED <<windows, svcVars, insVars>>

\* CheckOnly; a version is its place in the order.
IsNewer(current, latest) == current < latest

\* OnUpdate: the agent updates itself.
AskAgent(u) ==
    /\ image # None
    /\ IsNewer(ver, Latest)
    /\ up' = [up EXCEPT ![u].pc = "fetch"]

\* `update` at a prompt that finds no agent does it in its own process.
AskPrompt(u) ==
    /\ image = None
    /\ Whole("exe")
    /\ IsNewer(data[dir["exe"]], Latest)
    /\ up' = [up EXCEPT ![u].pc = "fetch", ![u].host = "cli", ![u].img = dir["exe"]]

BeginUpdate(u) ==
    /\ up[u].pc = "idle"
    /\ Alone
    /\ AskAgent(u) \/ AskPrompt(u)
    /\ Around /\ UNCHANGED <<fileVars, last>>

\* A mistake Fetch avoids: going on where the sums cannot be had.
FetchUnchecked(u) ==
    /\ up[u].pc = "fetch"
    /\ \E b \in {Latest, Bad} : up' = [up EXCEPT ![u].pc = "open", ![u].bin = b]
    /\ Around /\ UNCHANGED <<fileVars, last>>

\* The check of the checksum, mandatory where sums are published: a binary they
\* do not name is refused.
Accepted == IF Sums THEN {Latest} ELSE {Latest, Bad}

\* The download, or its failure.
Fetch(u) ==
    /\ up[u].pc = "fetch"
    /\ \/ \E b \in Accepted : up' = [up EXCEPT ![u].pc = "open", ![u].bin = b]
       \/ EndUpdate(u)
    /\ Around /\ UNCHANGED <<fileVars, last>>

\* The path is resolved (without a binary there EvalSymlinks yields no path, and
\* the update fails at its first rename, in another folder); WriteFile of the
\* temporary opens it, truncating, and writes.
OpenNew(u) ==
    /\ up[u].pc = "open"
    /\ \/ /\ dir["exe"] = None
          /\ EndUpdate(u)
          /\ UNCHANGED fileVars
       \/ /\ dir["exe"] # None
          /\ LET f == IF dir["new"] = None THEN u ELSE dir["new"]
             IN  /\ dir' = [dir EXCEPT !["new"] = f]
                 /\ data' = [data EXCEPT ![f] = Partial]
                 /\ up' = [up EXCEPT ![u].pc = "write", ![u].fd = f]
    /\ Note /\ Around

WriteNew(u) ==
    /\ up[u].pc = "write"
    /\ \/ /\ data' = [data EXCEPT ![up[u].fd] = up[u].bin]
          /\ To(u, "clear")
       \/ /\ "fail" \in Env
          /\ UNCHANGED data
          /\ EndUpdate(u)
    /\ UNCHANGED dir
    /\ Note /\ Around

\* The `.old` of a previous update goes, if it can.
ClearOld(u) ==
    /\ up[u].pc = "clear"
    /\ dir' = IF CanReplace(dir["old"]) THEN [dir EXCEPT !["old"] = None] ELSE dir
    /\ To(u, "aside")
    /\ UNCHANGED data
    /\ Note /\ Around

\* A mistake MoveAside avoids: deleting the binary.
MoveAsideDeletes(u) ==
    /\ up[u].pc = "aside"
    /\ dir' = IF CanReplace(dir["exe"]) THEN [dir EXCEPT !["exe"] = None] ELSE dir
    /\ To(u, "place")
    /\ UNCHANGED data
    /\ Note /\ Around

\* The first rename of the swap; if it fails the temporary is removed.
MoveAside(u) ==
    /\ up[u].pc = "aside"
    /\ \/ /\ CanMove(dir["exe"]) /\ CanReplace(dir["old"])
          /\ dir' = [dir EXCEPT !["old"] = dir["exe"], !["exe"] = None]
          /\ To(u, "place")
       \/ /\ ~(CanMove(dir["exe"]) /\ CanReplace(dir["old"])) \/ "fail" \in Env
          /\ dir' = IF CanReplace(dir["new"]) THEN [dir EXCEPT !["new"] = None]
                    ELSE dir
          /\ EndUpdate(u)
    /\ UNCHANGED data
    /\ Note /\ Around

\* The second rename; if it fails the first is undone, as far as that goes.
\* An agent that updated itself is about to exit.
Place(u) ==
    /\ up[u].pc = "place"
    /\ \/ /\ CanMove(dir["new"]) /\ CanReplace(dir["exe"])
          /\ dir' = [dir EXCEPT !["exe"] = dir["new"], !["new"] = None]
          /\ IF up[u].host = "agent" THEN To(u, "exit") ELSE EndUpdate(u)
       \/ /\ ~(CanMove(dir["new"]) /\ CanReplace(dir["exe"])) \/ "fail" \in Env
          /\ \/ /\ CanMove(dir["old"]) /\ CanReplace(dir["exe"])
                /\ dir' = [dir EXCEPT !["exe"] = dir["old"], !["old"] = None]
             \/ /\ ~(CanMove(dir["old"]) /\ CanReplace(dir["exe"])) \/ "fail" \in Env
                /\ UNCHANGED dir
          /\ EndUpdate(u)
    /\ UNCHANGED data
    /\ Note /\ Around

\* A mistake Exit avoids: an exit the service manager takes for a stop.
ExitClean(u) ==
    /\ up[u].pc = "exit"
    /\ AgentEnds("stopped")
    /\ UNCHANGED <<windows, fileVars, insVars, last>>

\* os.Exit(1), so that the service manager starts the new binary.
Exit(u) ==
    /\ up[u].pc = "exit"
    /\ AgentEnds("recovering")
    /\ UNCHANGED <<windows, fileVars, insVars, last>>

UpdateDies(u) ==
    /\ "crash" \in Env
    /\ Updating(u) /\ up[u].host = "cli"
    /\ EndUpdate(u)
    /\ UNCHANGED <<fileVars, last>> /\ Around

-----------------------------------------------------------------------------
(* installSelf                                                             *)

At(i, pc) == ins' = [ins EXCEPT ![i] = pc]

Installed == scm # "absent"

\* Is there a service?  Then it is told to stop; nobody waits for that.
BeginInstall(i) ==
    /\ ins[i] = "idle" /\ windows
    /\ \A j \in Installer : ~Installing(j)
    /\ was' = [was EXCEPT ![i] = Installed]
    /\ scm' = IF scm = "running" THEN "stopping" ELSE scm
    /\ At(i, "kill")
    /\ UNCHANGED <<windows, fileVars, image, ver, up, last>>

\* A mistake Kill avoids: trusting the stop.
KillNobody(i) ==
    /\ ins[i] = "kill"
    /\ At(i, "copy")
    /\ UNCHANGED <<windows, fileVars, svcVars, up, was, last>>

\* Another one: taking the service for stopped already.
KillSparesService(i) ==
    /\ ins[i] = "kill"
    /\ scm' = IF scm = "stopping" THEN "stopped" ELSE scm
    /\ up' = [u \in Updater |->
                 IF Updating(u) /\ up[u].host = "cli" THEN Over(u) ELSE up[u]]
    /\ At(i, "copy")
    /\ UNCHANGED <<windows, fileVars, image, ver, was, last>>

\* taskkill: the agent if it has not stopped yet, which its manager may count
\* as a crash, trays, windows, prompts.
Kill(i) ==
    /\ ins[i] = "kill"
    /\ scm' \in IF scm \in {"running", "stopping"} THEN {"stopped", "recovering"}
                ELSE {scm}
    /\ image' = None /\ ver' = 0
    /\ up' = [u \in Updater |-> IF Updating(u) THEN Over(u) ELSE up[u]]
    /\ At(i, "copy")
    /\ UNCHANGED <<windows, fileVars, was, last>>

\* copyFile truncates the installed binary, tried again while it is in use...
Copy(i) ==
    /\ ins[i] = "copy"
    /\ dir["exe"] # None => ~Mapped(dir["exe"])
    /\ LET f == IF dir["exe"] = None THEN i ELSE dir["exe"]
       IN  /\ dir' = [dir EXCEPT !["exe"] = f]
           /\ data' = [data EXCEPT ![f] = Cut]
    /\ At(i, "write")
    /\ Note
    /\ UNCHANGED <<windows, svcVars, up, was>>

\* ...and writes it.
CopyWrites(i) ==
    /\ ins[i] = "write"
    /\ dir["exe"] # None
    /\ data' = [data EXCEPT ![dir["exe"]] = Carried[i]]
    /\ At(i, "register")
    /\ UNCHANGED dir
    /\ Note
    /\ UNCHANGED <<windows, svcVars, up, was>>

\* `service install` by the installed copy, on a machine without the service.
Register(i) ==
    /\ ins[i] = "register"
    /\ was[i] \/ scm = "absent"
    /\ scm' = IF was[i] THEN scm ELSE "stopped"
    /\ At(i, "start")
    /\ UNCHANGED <<windows, fileVars, image, ver, up, was, last>>

\* sc start; 1056, it is already running, is fine.
StartInstalled(i) ==
    /\ ins[i] = "start"
    /\ \/ scm \in {"stopped", "recovering"} /\ Run
       \/ scm \in {"running", "stopping"} /\ UNCHANGED svcVars
    /\ At(i, "done")
    /\ UNCHANGED <<windows, fileVars, up, was, last>>

\* A step failed for good, or the installer died.
InstallFails(i) ==
    /\ Installing(i)
    /\ \/ ins[i] \in {"copy", "write", "register", "start"} /\ "fail" \in Env
       \/ ins[i] = "copy" /\ Mapped(dir["exe"])
       \/ "crash" \in Env
    /\ At(i, "failed")
    /\ UNCHANGED <<windows, fileVars, svcVars, up, was, last>>

-----------------------------------------------------------------------------
Service == ServiceStops \/ Recover

Update(u) ==
    \/ Fetch(u) \/ OpenNew(u) \/ WriteNew(u) \/ ClearOld(u)
    \/ MoveAside(u) \/ Place(u) \/ Exit(u)

Install(i) ==
    \/ Kill(i) \/ Copy(i) \/ CopyWrites(i) \/ Register(i) \/ StartInstalled(i)

Next ==
    \/ StopService \/ StartService \/ Service \/ AgentDies
    \/ \E u \in Updater : BeginUpdate(u) \/ Update(u) \/ UpdateDies(u)
    \/ \E i \in Installer : BeginInstall(i) \/ Install(i) \/ InstallFails(i)

\* A process that can go on does, a stop ends, a service that died is started
\* again when there is something to start.
Fairness ==
    /\ WF_vars(ServiceStops) /\ WF_vars(Recover)
    /\ \A u \in Updater : WF_vars(Update(u))
    /\ \A i \in Installer : WF_vars(Install(i) \/ InstallFails(i))

Spec == Init /\ [][Next]_vars

FairSpec == Spec /\ Fairness

-----------------------------------------------------------------------------
(* Properties                                                              *)

Content == {Bad, Cut, Partial, 1, Latest} \cup {Carried[i] : i \in Installer}

\* Every variable holds a value of its kind, and there is an agent process
\* exactly while the service manager knows of one.
TypeOK ==
    /\ windows \in BOOLEAN
    /\ dir \in [Name -> File \cup {None}]
    /\ data \in [File -> Content]
    /\ scm \in {"absent", "stopped", "running", "stopping", "recovering"}
    /\ image \in File \cup {None} /\ ver \in Content
    /\ image # None <=> scm \in {"running", "stopping"}
    /\ up \in [Updater -> [pc : UpSteps, host : {"agent", "cli"}, bin : Content,
                           fd : File \cup {None}, img : File \cup {None}]]
    /\ \A u \in Updater : up[u].pc = "write" => up[u].fd # None
    /\ ins \in [Installer -> InsSteps]
    /\ was \in [Installer -> BOOLEAN]
    /\ last \in Content

\* SelfUpdate rolls back so the install keeps working.  Wherever an update fails
\* or dies, a whole binary is at the path or beside it as `.old`; only an
\* installer that was cut off while it copied may leave none.
Restorable ==
    last # 0 => \/ Whole("exe") \/ Whole("old")
                \/ dir["exe"] # None /\ data[dir["exe"]] = Cut

\* What an update puts at the path is whole and, where sums are published, the
\* published binary (step 3 of the package comment).
Verified ==
    Sums /\ dir["exe"] # None => data[dir["exe"]] \notin {Bad, Partial}

\* The version at the path goes back only where an installer copies itself over
\* a newer one, which installSelf does not ask about.  An update never takes it
\* back, whoever interrupts whom: neither its rollback, nor a temporary or an
\* `.old` of an earlier one, nor its swap over an installer it overlapped.
CopiesItself(i) ==
    ins[i] = "write" /\ ins'[i] = "register" /\ last' = Carried[i]

UpdatesNeverDowngrade ==
    [][last' < last => \E i \in Installer : CopiesItself(i)]_vars

\* An installer that ends well leaves the version it carries running, whatever
\* was running, being updated or coming back before (installSelf's header:
\* stop service, replace exe, start service).
InstallDone ==
    [][\A i \in Installer :
          ins[i] # "done" /\ ins'[i] = "done"
              => scm' = "running" /\ ver' = Carried[i]]_vars

\* An update of the agent by itself ends with a new version running, unless the
\* service is told to stop meanwhile or an installer begins to copy itself over
\* it (InstallDone says how that ends).
UpdateTakes ==
    \A u \in Updater :
        up[u].pc = "exit" ~> \/ ver >= Latest
                             \/ scm = "stopping"
                             \/ dir["exe"] # None /\ data[dir["exe"]] = Cut
=============================================================================
