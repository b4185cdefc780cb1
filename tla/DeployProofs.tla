---------------------------- MODULE DeployProofs ----------------------------
(***************************************************************************)
(* Proofs about module Deploy: what is at the service's path, beside it    *)
(* and in memory, while updates do not overlap and the server publishes    *)
(* checksums.                                                              *)
(***************************************************************************)
EXTENDS Deploy, TLAPS

\* An installer is past the kill.
Copying(i) == ins[i] \in {"copy", "write", "register", "start"}

\* One update at a time, one installer at a time, and no update past the kill.
OneActor ==
    /\ \A u, v \in Updater : Updating(u) /\ Updating(v) => u = v
    /\ \A i, j \in Installer : Installing(i) /\ Installing(j) => i = j
    /\ \A i \in Installer, u \in Updater : Copying(i) => ~Updating(u)

\* A file has one name, and one not created yet has none.
Distinct ==
    /\ \A m, n \in Name : m # n /\ dir[m] # None => dir[m] # dir[n]
    /\ \A u \in Updater :
          up[u].pc \in {"idle", "fetch", "open"} => \A n \in Name : dir[n] # u
    /\ \A i \in Installer :
          ins[i] \in {"idle", "kill", "copy"} => \A n \in Name : dir[n] # i

\* What is at the path is a whole version, the last one there, or cut by an
\* installer; what is in `.old` is whole.
Intact ==
    /\ dir["exe"] # None => \/ data[dir["exe"]] > 0 /\ last = data[dir["exe"]]
                            \/ data[dir["exe"]] = Cut
    /\ dir["old"] # None => data[dir["old"]] > 0

\* What an update carries is the published binary, and it is in the temporary
\* from the end of the write on.
Carries(u) ==
    /\ up[u].pc \in {"open", "write"} => up[u].bin = Latest
    /\ up[u].pc = "write" => up[u].fd # None /\ up[u].fd = dir["new"]
    /\ up[u].pc \in {"clear", "aside", "place"} =>
          dir["new"] # None /\ data[dir["new"]] = Latest

\* An update finds a whole older binary at the path, and has it in `.old` between
\* its two renames.
Replaces(u) ==
    /\ up[u].pc \in {"fetch", "open"} =>
          dir["exe"] = None \/ (Whole("exe") /\ last <= Latest)
    /\ up[u].pc \in {"write", "clear", "aside"} => Whole("exe") /\ last <= Latest
    /\ up[u].pc = "place" =>
          /\ dir["exe"] = None /\ last <= Latest
          /\ dir["old"] # None /\ data[dir["old"]] = last
          /\ image # None => ver = last \/ last = Latest

\* What runs is what is at the path, or older than what an update put there.
Runs ==
    image # None => \/ dir["exe"] = None
                    \/ /\ Whole("exe")
                       /\ ver = data[dir["exe"]] \/ data[dir["exe"]] = Latest

\* While an installer copies, nothing runs but what it has put there.
Installs(i) ==
    /\ Copying(i) => /\ scm # "stopping"
                     /\ image # None => image = dir["exe"] /\ ver = data[dir["exe"]]
    /\ ins[i] = "write" => dir["exe"] # None /\ data[dir["exe"]] = Cut
    /\ ins[i] \in {"register", "start"} =>
          dir["exe"] # None /\ data[dir["exe"]] = Carried[i]

DeployInv ==
    /\ TypeOK /\ OneActor /\ Distinct /\ Intact /\ Restorable /\ Runs
    /\ \A u \in Updater : Carries(u) /\ Replaces(u)
    /\ \A i \in Installer : Installs(i)

-----------------------------------------------------------------------------
(* Types                                                                   *)

LEMMA Numbers ==
    /\ Latest \in Int /\ Latest > 0 /\ Partial = 0 /\ Cut = -1 /\ Bad = -2
    /\ Latest \in Content /\ Partial \in Content /\ Cut \in Content
    /\ Bad \in Content /\ 1 \in Content
    /\ \A i \in Installer : Carried[i] \in Content /\ Carried[i] > 0
    /\ \A c \in Content : c \in Int
  <1>1. Latest \in Int /\ Latest > 0 /\ Partial = 0 /\ Cut = -1 /\ Bad = -2
    BY VersionAssumption DEF Partial, Cut, Bad
  <1>2. \A i \in Installer : Carried[i] \in Content /\ Carried[i] > 0 /\ Carried[i] \in Int
    BY VersionAssumption DEF Content
  <1>3. \A c \in Content : c \in Int
    BY <1>1, <1>2 DEF Content
  <1> QED
    BY <1>1, <1>2, <1>3 DEF Content

LEMMA Actors ==
    /\ \A u \in Updater : u \in File /\ u # None /\ u \notin Installer /\ u # First
    /\ \A i \in Installer : i \in File /\ i # None /\ i # First
    /\ First \in File /\ First # None
  BY ActorAssumption, NoneAssumption DEF File

\* The file operations keep the kinds.
LEMMA FileTypes ==
    ASSUME TypeOK,
           \/ \E u \in Updater : OpenNew(u) \/ WriteNew(u) \/ ClearOld(u)
                                 \/ MoveAside(u) \/ Place(u)
           \/ \E i \in Installer : Copy(i) \/ CopyWrites(i)
    PROVE  dir' \in [Name -> File \cup {None}] /\ data' \in [File -> Content]
  <1>1. ASSUME NEW u \in Updater, OpenNew(u)
        PROVE  dir' \in [Name -> File \cup {None}] /\ data' \in [File -> Content]
    <2>1. CASE dir["exe"] = None
      BY <1>1, <2>1 DEF OpenNew, TypeOK, fileVars
    <2>2. CASE dir["exe"] # None
      <3> DEFINE f == IF dir["new"] = None THEN u ELSE dir["new"]
      <3>1. f \in File
        BY Actors DEF TypeOK, Name
      <3>2. /\ dir' = [dir EXCEPT !["new"] = f]
            /\ data' = [data EXCEPT ![f] = Partial]
        BY <1>1, <2>2 DEF OpenNew
      <3> HIDE DEF f
      <3> QED
        BY <3>1, <3>2, Numbers DEF TypeOK
    <2> QED
      BY <2>1, <2>2
  <1>2. ASSUME NEW u \in Updater, WriteNew(u)
        PROVE  dir' \in [Name -> File \cup {None}] /\ data' \in [File -> Content]
    BY <1>2, Numbers DEF WriteNew, TypeOK
  <1>3. ASSUME NEW u \in Updater, ClearOld(u) \/ MoveAside(u) \/ Place(u)
        PROVE  dir' \in [Name -> File \cup {None}] /\ data' \in [File -> Content]
    BY <1>3 DEF ClearOld, MoveAside, Place, TypeOK, Name
  <1>4. ASSUME NEW i \in Installer, Copy(i) \/ CopyWrites(i)
        PROVE  dir' \in [Name -> File \cup {None}] /\ data' \in [File -> Content]
    BY <1>4, Numbers, Actors DEF Copy, CopyWrites, TypeOK, Name
  <1> QED
    BY <1>1, <1>2, <1>3, <1>4

LEMMA NoteTypes ==
    ASSUME TypeOK, Note, dir' \in [Name -> File \cup {None}], data' \in [File -> Content]
    PROVE  last' \in Content
  BY DEF Note, TypeOK, Name

Record == [pc : UpSteps, host : {"agent", "cli"}, bin : Content,
           fd : File \cup {None}, img : File \cup {None}]

LEMMA OverTypes ==
    ASSUME TypeOK, NEW u \in Updater
    PROVE  Over(u) \in Record /\ Over(u).pc = "done"
  BY Numbers DEF Over, TypeOK, UpSteps, Record

\* A step of one update keeps the record's kind and leaves the others alone.
LEMMA UpdateTypes ==
    ASSUME TypeOK, NEW u \in Updater,
           \/ BeginUpdate(u) \/ UpdateDies(u)
           \/ Fetch(u) \/ OpenNew(u) \/ WriteNew(u) \/ ClearOld(u)
           \/ MoveAside(u) \/ Place(u)
    PROVE  /\ up' \in [Updater -> Record]
           /\ \A v \in Updater \ {u} : up'[v] = up[v]
           /\ up'[u].pc = "write" => up'[u].fd # None
  <1>1. up \in [Updater -> Record] /\ (up[u].pc = "write" => up[u].fd # None)
    BY DEF TypeOK, Record
  <1>2. CASE EndUpdate(u)
    BY <1>1, <1>2, OverTypes DEF EndUpdate
  <1>3. ASSUME NEW pc \in UpSteps \ {"write"}, To(u, pc)
        PROVE  /\ up' \in [Updater -> Record]
               /\ \A v \in Updater \ {u} : up'[v] = up[v]
               /\ up'[u].pc = "write" => up'[u].fd # None
    BY <1>1, <1>3 DEF To, Record
  <1>4. CASE BeginUpdate(u)
    <2>1. CASE AskAgent(u)
      BY <1>1, <2>1 DEF AskAgent, Record, UpSteps
    <2>2. CASE AskPrompt(u)
      <3> DEFINE f == dir["exe"]
      <3>1. f \in File /\ f # None
        BY <2>2 DEF AskPrompt, Whole, TypeOK, Name
      <3>2. up' = [up EXCEPT ![u] = [up[u] EXCEPT !.pc = "fetch", !.host = "cli",
                                                 !.img = f]]
        BY <1>1, <2>2 DEF AskPrompt
      <3> HIDE DEF f
      <3>3. [up[u] EXCEPT !.pc = "fetch", !.host = "cli", !.img = f] \in Record
        BY <1>1, <3>1 DEF Record, UpSteps
      <3> QED
        BY <1>1, <3>2, <3>3
    <2> QED
      BY <1>4, <2>1, <2>2 DEF BeginUpdate
  <1>5. CASE Fetch(u) /\ ~EndUpdate(u)
    <2>1. PICK b \in Accepted : up' = [up EXCEPT ![u].pc = "open", ![u].bin = b]
      BY <1>5 DEF Fetch
    <2>2. b \in Content
      BY Numbers DEF Accepted
    <2>3. up' = [up EXCEPT ![u] = [up[u] EXCEPT !.pc = "open", !.bin = b]]
      BY <1>1, <2>1
    <2>4. [up[u] EXCEPT !.pc = "open", !.bin = b] \in Record
      BY <1>1, <2>2 DEF Record, UpSteps
    <2> QED
      BY <1>1, <2>3, <2>4
  <1>6. CASE OpenNew(u) /\ ~EndUpdate(u)
    <2> DEFINE f == IF dir["new"] = None THEN u ELSE dir["new"]
    <2>1. f \in File /\ f # None
      BY Actors DEF TypeOK, Name
    <2>2. up' = [up EXCEPT ![u].pc = "write", ![u].fd = f]
      BY <1>6 DEF OpenNew
    <2> HIDE DEF f
    <2>3. [up[u] EXCEPT !.pc = "write", !.fd = f] \in Record
      BY <1>1, <2>1 DEF Record, UpSteps
    <2>4. up'[u] = [up[u] EXCEPT !.pc = "write", !.fd = f]
      BY <1>1, <2>2
    <2> QED
      BY <1>1, <2>1, <2>2, <2>3, <2>4
  <1>7. CASE (WriteNew(u) \/ ClearOld(u) \/ MoveAside(u) \/ Place(u)) /\ ~EndUpdate(u)
    BY <1>3, <1>7 DEF WriteNew, ClearOld, MoveAside, Place, UpSteps
  <1>8. CASE UpdateDies(u)
    BY <1>2, <1>8 DEF UpdateDies
  <1> QED
    BY <1>2, <1>4, <1>5, <1>6, <1>7, <1>8

\* The end of the agent, or the kill, ends updates or leaves them alone.
LEMMA EndTypes ==
    ASSUME TypeOK,
           \A u \in Updater : up'[u] = up[u] \/ up'[u] = Over(u),
           DOMAIN up' = Updater, up' = [u \in Updater |-> up'[u]]
    PROVE  /\ up' \in [Updater -> Record]
           /\ \A u \in Updater : up'[u].pc = "write" => up'[u].fd # None
  BY OverTypes DEF TypeOK, Record

LEMMA TypeInit == Init => TypeOK
  BY Numbers, Actors DEF Init, TypeOK, UpSteps, InsSteps, Name

LEMMA TypeStep == TypeOK /\ [Next]_vars => TypeOK'
  <1> SUFFICES ASSUME TypeOK, [Next]_vars
               PROVE  TypeOK'
    OBVIOUS
  <1> USE DEF Record
  <1>1. CASE UNCHANGED vars
    BY <1>1 DEF TypeOK, vars, fileVars, svcVars, insVars
  <1>2. CASE StopService
    BY <1>2 DEF StopService, TypeOK, fileVars, insVars
  <1>3. CASE StartService \/ Recover
    BY <1>3 DEF StartService, Recover, Run, Whole, TypeOK, Name, fileVars, insVars
  <1>4. ASSUME NEW state \in {"stopped", "recovering"}, AgentEnds(state),
               UNCHANGED <<windows, fileVars, insVars, last>>
        PROVE  TypeOK'
    <2>1. /\ up' \in [Updater -> Record]
          /\ \A u \in Updater : up'[u].pc = "write" => up'[u].fd # None
      BY <1>4, EndTypes DEF AgentEnds
    <2> QED
      BY <1>4, <2>1, Numbers DEF AgentEnds, TypeOK, fileVars, insVars, Partial
  <1>5. CASE ServiceStops \/ AgentDies \/ \E u \in Updater : Exit(u)
    BY <1>4, <1>5 DEF ServiceStops, AgentDies, Exit
  <1>6. ASSUME NEW u \in Updater,
               \/ BeginUpdate(u) \/ UpdateDies(u)
               \/ Fetch(u) \/ OpenNew(u) \/ WriteNew(u) \/ ClearOld(u)
               \/ MoveAside(u) \/ Place(u)
        PROVE  TypeOK'
    <2>1. /\ up' \in [Updater -> Record]
          /\ \A v \in Updater : up'[v].pc = "write" => up'[v].fd # None
      BY <1>6, UpdateTypes DEF TypeOK
    <2>2. /\ dir' \in [Name -> File \cup {None}] /\ data' \in [File -> Content]
          /\ last' \in Content
      <3>1. CASE BeginUpdate(u) \/ UpdateDies(u) \/ Fetch(u)
        BY <3>1 DEF BeginUpdate, UpdateDies, Fetch, TypeOK, fileVars
      <3>2. CASE OpenNew(u) \/ WriteNew(u) \/ ClearOld(u) \/ MoveAside(u) \/ Place(u)
        BY <3>2, FileTypes, NoteTypes
        DEF OpenNew, WriteNew, ClearOld, MoveAside, Place
      <3> QED
        BY <1>6, <3>1, <3>2
    <2>3. Around
      BY <1>6 DEF BeginUpdate, UpdateDies, Fetch, OpenNew, WriteNew, ClearOld,
                  MoveAside, Place
    <2> QED
      BY <2>1, <2>2, <2>3 DEF Around, TypeOK, svcVars, insVars
  <1>7. ASSUME NEW i \in Installer,
               BeginInstall(i) \/ Register(i) \/ StartInstalled(i) \/ InstallFails(i)
        PROVE  TypeOK'
    <2>1. ins' \in [Installer -> InsSteps] /\ was' \in [Installer -> BOOLEAN]
      BY <1>7 DEF BeginInstall, Register, StartInstalled, InstallFails, At, TypeOK,
                  InsSteps, Installed
    <2>2. /\ scm' \in {"absent", "stopped", "running", "stopping", "recovering"}
          /\ image' \in File \cup {None} /\ ver' \in Content
          /\ image' # None <=> scm' \in {"running", "stopping"}
      BY <1>7 DEF BeginInstall, Register, StartInstalled, InstallFails, Run, Whole,
                  TypeOK, Name, svcVars
    <2> QED
      BY <1>7, <2>1, <2>2
      DEF BeginInstall, Register, StartInstalled, InstallFails, TypeOK, fileVars
  <1>8. ASSUME NEW i \in Installer, Kill(i)
        PROVE  TypeOK'
    <2>1. /\ up' \in [Updater -> Record]
          /\ \A u \in Updater : up'[u].pc = "write" => up'[u].fd # None
      BY <1>8, EndTypes DEF Kill
    <2> QED
      BY <1>8, <2>1, Numbers DEF Kill, At, InsSteps, TypeOK, fileVars, Partial
  <1>9. ASSUME NEW i \in Installer, Copy(i) \/ CopyWrites(i)
        PROVE  TypeOK'
    <2>1. /\ dir' \in [Name -> File \cup {None}] /\ data' \in [File -> Content]
          /\ last' \in Content
      BY <1>9, FileTypes, NoteTypes DEF Copy, CopyWrites
    <2> QED
      BY <1>9, <2>1 DEF Copy, CopyWrites, At, InsSteps, TypeOK, svcVars
  <1> QED
    BY <1>1, <1>2, <1>3, <1>5, <1>6, <1>7, <1>8, <1>9
    DEF Next, Service, Update, Install

\* Every reachable state is well typed, and there is an agent process exactly
\* while the service manager knows of one.
THEOREM TypeCorrect == Spec => []TypeOK
  BY TypeInit, TypeStep, PTL DEF Spec

-----------------------------------------------------------------------------
(* One update or installation at a time: what is at the path               *)

LEMMA InvInit == Init => DeployInv
  <1> SUFFICES ASSUME Init
               PROVE  DeployInv
    OBVIOUS
  <1>1. TypeOK
    BY TypeInit
  <1>2. OneActor
    BY DEF Init, OneActor, Updating, Installing, Copying
  <1>3. Distinct /\ Intact /\ Restorable
    BY Actors DEF Init, Distinct, Intact, Restorable, Whole, Name
  <1>4. Runs
    BY Actors DEF Init, Runs, Whole, Name
  <1>5. \A u \in Updater : Carries(u) /\ Replaces(u)
    BY DEF Init, Carries, Replaces
  <1>6. \A i \in Installer : Installs(i)
    BY DEF Init, Installs, Copying
  <1> QED
    BY <1>1, <1>2, <1>3, <1>4, <1>5, <1>6 DEF DeployInv

\* The service is stopped or started.
LEMMA ServiceStep ==
    ASSUME DeployInv, TypeOK', StopService \/ StartService \/ Recover
    PROVE  DeployInv'
  <1>1. UNCHANGED <<dir, data, up, ins, last>>
    BY DEF StopService, StartService, Recover, fileVars, insVars
  <1>2. OneActor' /\ Distinct' /\ Intact' /\ Restorable'
    BY <1>1 DEF DeployInv, OneActor, Updating, Installing, Copying, Distinct, Intact,
                Restorable, Whole
  <1>3. \A u \in Updater : Carries(u)'
    BY <1>1 DEF DeployInv, Carries
  <1>4. CASE StopService
    <2>1. \A i \in Installer : ~Copying(i)
      BY <1>4 DEF StopService, Copying, Installing
    <2> QED
      BY <1>1, <1>2, <1>3, <1>4, <2>1
      DEF StopService, DeployInv, Runs, Replaces, Installs, Copying, Whole
  <1>5. CASE StartService \/ Recover
    <2>1. Whole("exe") /\ scm' = "running" /\ image' = dir["exe"]
          /\ ver' = data[dir["exe"]]
      BY <1>5 DEF StartService, Recover, Run
    <2> QED
      BY <1>1, <1>2, <1>3, <2>1
      DEF DeployInv, Runs, Replaces, Installs, Copying, Whole
  <1> QED
    BY <1>4, <1>5

\* The agent ends, and with it the updates that ran in it.
LEMMA AgentStep ==
    ASSUME DeployInv, TypeOK', NEW state \in {"stopped", "recovering"},
           AgentEnds(state), UNCHANGED <<fileVars, insVars, last>>
    PROVE  DeployInv'
  <1>1. UNCHANGED <<dir, data, ins, last>> /\ image' = None /\ scm' = state
    BY DEF AgentEnds, fileVars, insVars
  <1>2. \A u \in Updater : up'[u] = up[u] \/ up'[u].pc = "done"
    BY DEF AgentEnds, Over, DeployInv, TypeOK
  <1>3. OneActor' /\ Distinct' /\ Intact' /\ Restorable'
    BY <1>1, <1>2 DEF DeployInv, OneActor, Updating, Installing, Copying, Distinct,
                      Intact, Restorable, Whole
  <1>4. \A u \in Updater : Carries(u)' /\ Replaces(u)'
    BY <1>1, <1>2 DEF DeployInv, Carries, Replaces, Whole
  <1>5. Runs' /\ \A i \in Installer : Installs(i)'
    BY <1>1 DEF DeployInv, Runs, Installs, Copying
  <1> QED
    BY <1>3, <1>4, <1>5 DEF DeployInv

\* An update begins, downloads, or dies.
LEMMA DownloadStep ==
    ASSUME DeployInv, TypeOK', Sums, "race" \notin Env, NEW u \in Updater,
           BeginUpdate(u) \/ Fetch(u) \/ UpdateDies(u)
    PROVE  DeployInv'
  <1>1. UNCHANGED <<dir, data, last, scm, image, ver, ins>>
    BY DEF BeginUpdate, Fetch, UpdateDies, Around, fileVars, svcVars, insVars
  <1>2. \A v \in Updater \ {u} : up'[v] = up[v]
    BY UpdateTypes DEF DeployInv
  <1>3. Intact' /\ Restorable' /\ Runs' /\ \A i \in Installer : Installs(i)'
    BY <1>1 DEF DeployInv, Intact, Restorable, Runs, Installs, Copying, Whole
  <1>4. \/ up'[u].pc = "done"
        \/ BeginUpdate(u) /\ up'[u].pc = "fetch"
        \/ Fetch(u) /\ up'[u].pc = "open" /\ up'[u].bin = Latest
    <2>1. up \in [Updater -> Record]
      BY DEF DeployInv, TypeOK, Record
    <2>2. CASE BeginUpdate(u)
      BY <2>1, <2>2 DEF BeginUpdate, AskAgent, AskPrompt, Record
    <2>3. CASE Fetch(u)
      BY <2>1, <2>3 DEF Fetch, Accepted, EndUpdate, Over, Record
    <2>4. CASE UpdateDies(u)
      BY <2>1, <2>4 DEF UpdateDies, EndUpdate, Over, Record
    <2> QED
      BY <2>2, <2>3, <2>4
  <1>5. OneActor'
    BY <1>1, <1>2, <1>4
    DEF DeployInv, OneActor, BeginUpdate, Fetch, Alone, Updating, Installing, Copying
  <1>6. Distinct'
    BY <1>1, <1>2, <1>4 DEF DeployInv, Distinct, BeginUpdate, Fetch
  <1>7. \A v \in Updater : Carries(v)'
    BY <1>1, <1>2, <1>4 DEF DeployInv, Carries
  <1>8. \A v \in Updater \ {u} : Replaces(v)'
    BY <1>1, <1>2 DEF DeployInv, Replaces, Whole
  <1>9. Replaces(u)'
    <2>1. CASE BeginUpdate(u) /\ up'[u].pc = "fetch"
      <3>1. dir["exe"] # None => Whole("exe") /\ last <= Latest
        <4>1. CASE AskAgent(u)
          BY <4>1, Numbers
          DEF AskAgent, IsNewer, DeployInv, Runs, Intact, Whole, TypeOK
        <4>2. CASE AskPrompt(u)
          BY <4>2, Numbers
          DEF AskPrompt, IsNewer, DeployInv, Intact, Whole, TypeOK
        <4> QED
          BY <2>1, <4>1, <4>2 DEF BeginUpdate
      <3> QED
        BY <1>1, <2>1, <3>1 DEF Replaces, Whole
    <2>2. CASE Fetch(u) /\ up'[u].pc = "open"
      BY <1>1, <2>2 DEF DeployInv, Fetch, Replaces, Whole
    <2>3. CASE up'[u].pc = "done"
      BY <2>3 DEF Replaces
    <2> QED
      BY <1>4, <2>1, <2>2, <2>3
  <1> QED
    BY <1>3, <1>5, <1>6, <1>7, <1>8, <1>9 DEF DeployInv

\* What a step of an update on the files leaves as it is.
LEMMA SoleUpdate ==
    ASSUME DeployInv, NEW u \in Updater,
           OpenNew(u) \/ WriteNew(u) \/ ClearOld(u) \/ MoveAside(u) \/ Place(u)
    PROVE  /\ UNCHANGED <<scm, image, ver, ins>>
           /\ \A v \in Updater \ {u} : up'[v] = up[v] /\ up[v].pc \in {"idle", "done"}
           /\ \A v \in Updater \ {u} : Carries(v)' /\ Replaces(v)'
           /\ OneActor'
           /\ \A i \in Installer : Installs(i)'
  <1>1. Updating(u)
    BY DEF OpenNew, WriteNew, ClearOld, MoveAside, Place, Updating
  <1>2. UNCHANGED <<scm, image, ver, ins>>
    BY DEF OpenNew, WriteNew, ClearOld, MoveAside, Place, Around, svcVars, insVars
  <1>3. \A v \in Updater \ {u} : up'[v] = up[v]
    BY UpdateTypes DEF DeployInv
  <1>4. \A v \in Updater \ {u} : up[v].pc \in {"idle", "done"}
    BY <1>1 DEF DeployInv, OneActor, Updating
  <1>5. \A v \in Updater \ {u} : Carries(v)' /\ Replaces(v)'
    BY <1>3, <1>4 DEF Carries, Replaces
  <1>6. \A i \in Installer : ~Copying(i)
    BY <1>1 DEF DeployInv, OneActor
  <1>7. \A i \in Installer : Installs(i)'
    BY <1>2, <1>6 DEF Installs, Copying
  <1>8. OneActor'
    BY <1>2, <1>3, <1>4, <1>6 DEF DeployInv, OneActor, Updating, Installing, Copying
  <1> QED
    BY <1>2, <1>3, <1>4, <1>5, <1>7, <1>8

\* The temporary is opened and truncated.
LEMMA OpenStep ==
    ASSUME DeployInv, TypeOK', Sums, NEW u \in Updater, OpenNew(u)
    PROVE  DeployInv'
  <1>0. TypeOK /\ up[u].pc = "open" /\ Note
    BY DEF DeployInv, OpenNew
  <1>1. CASE EndUpdate(u) /\ UNCHANGED fileVars
    <2>1. UNCHANGED <<dir, data>> /\ up'[u].pc = "done"
      BY <1>0, <1>1 DEF EndUpdate, Over, TypeOK, fileVars
    <2>2. last' = last
      BY <1>0, <2>1 DEF Note, DeployInv, Intact, Cut
    <2> QED
      BY <2>1, <2>2, SoleUpdate
      DEF DeployInv, Distinct, Intact, Restorable, Runs, Whole, Carries, Replaces
  <1>2. CASE dir["exe"] # None
    <2> DEFINE f == IF dir["new"] = None THEN u ELSE dir["new"]
    <2>1. f \in File /\ f # None /\ f # dir["exe"] /\ f # dir["old"]
      BY <1>0, Actors DEF TypeOK, Name, DeployInv, Distinct
    <2>2. /\ dir' = [dir EXCEPT !["new"] = f]
          /\ data' = [data EXCEPT ![f] = Partial]
          /\ up' = [up EXCEPT ![u].pc = "write", ![u].fd = f]
      BY <1>2 DEF OpenNew
    <2>3. \A v \in Updater : up'[v].pc \in {"idle", "fetch", "open"} =>
              v # f /\ \A n \in Name : dir[n] # v
      BY <1>0, <2>2, SoleUpdate DEF DeployInv, Distinct, TypeOK, Name
    <2>4. \A i \in Installer : ins[i] \in {"idle", "kill", "copy"} => i # f
      BY <1>0, Actors DEF DeployInv, Distinct, Name
    <2> HIDE DEF f
    <2>5. /\ dir'["exe"] = dir["exe"] /\ dir'["old"] = dir["old"] /\ dir'["new"] = f
          /\ \A g \in File : g # f => data'[g] = data[g]
      BY <1>0, <2>1, <2>2 DEF TypeOK, Name
    <2>6. up'[u].pc = "write" /\ up'[u].fd = f /\ up'[u].bin = up[u].bin
      BY <1>0, <2>2 DEF TypeOK
    <2>7. /\ data'[dir["exe"]] = data[dir["exe"]]
          /\ dir["old"] # None => data'[dir["old"]] = data[dir["old"]]
      BY <1>0, <1>2, <2>1, <2>5 DEF TypeOK, Name
    <2>8. last' = last
      BY <1>0, <2>5, <2>7 DEF Note, DeployInv, Intact, Cut
    <2>9. Distinct'
      BY <2>1, <2>3, <2>4, <2>5, SoleUpdate DEF DeployInv, Distinct, Name
    <2>10. Intact' /\ Restorable' /\ Runs'
      BY <2>5, <2>7, <2>8, SoleUpdate DEF DeployInv, Intact, Restorable, Runs, Whole
    <2>11. Carries(u)' /\ Replaces(u)'
      BY <1>0, <1>2, <2>1, <2>5, <2>6, <2>7, <2>8
      DEF DeployInv, Carries, Replaces, Whole
    <2> QED
      BY <2>9, <2>10, <2>11, SoleUpdate DEF DeployInv
  <1> QED
    BY <1>1, <1>2 DEF OpenNew

\* It is written, or the update fails.
LEMMA WriteStep ==
    ASSUME DeployInv, TypeOK', Sums, NEW u \in Updater, WriteNew(u)
    PROVE  DeployInv'
  <1>0. TypeOK /\ up[u].pc = "write" /\ Note /\ UNCHANGED dir
    BY DEF DeployInv, WriteNew
  <1>1. /\ up[u].fd = dir["new"] /\ up[u].fd # None /\ up[u].bin = Latest
        /\ Whole("exe") /\ last <= Latest
    BY <1>0 DEF DeployInv, Carries, Replaces
  <1>2. \/ data' = data /\ up'[u].pc = "done"
        \/ data' = [data EXCEPT ![dir["new"]] = Latest] /\ up'[u].pc = "clear"
    <2>1. CASE EndUpdate(u) /\ UNCHANGED data
      BY <1>0, <2>1 DEF EndUpdate, Over, TypeOK
    <2>2. CASE data' = [data EXCEPT ![up[u].fd] = up[u].bin] /\ To(u, "clear")
      <3>1. up'[u].pc = "clear"
        BY <1>0, <2>2 DEF To, TypeOK
      <3> QED
        BY <1>1, <2>2, <3>1
    <2> QED
      BY <2>1, <2>2 DEF WriteNew
  <1>3. /\ data'[dir["exe"]] = data[dir["exe"]]
        /\ dir["old"] # None => data'[dir["old"]] = data[dir["old"]]
    <2>1. dir["exe"] # dir["new"] /\ (dir["old"] # None => dir["old"] # dir["new"])
      BY <1>1 DEF DeployInv, Distinct, Name
    <2>2. dir["exe"] \in File /\ (dir["old"] # None => dir["old"] \in File)
      BY <1>0, <1>1 DEF TypeOK, Name, Whole
    <2> QED
      BY <1>0, <1>2, <2>1, <2>2 DEF TypeOK
  <1>4. up'[u].pc = "clear" => data'[dir["new"]] = Latest
    BY <1>0, <1>1, <1>2 DEF TypeOK, Name
  <1>5. last' = last
    BY <1>0, <1>1, <1>3 DEF Note, DeployInv, Intact, Cut, Whole
  <1>6. Distinct'
    BY <1>0, <1>2, SoleUpdate DEF DeployInv, Distinct
  <1>7. Intact' /\ Restorable' /\ Runs'
    BY <1>0, <1>3, <1>5, SoleUpdate DEF DeployInv, Intact, Restorable, Runs, Whole
  <1>8. Carries(u)' /\ Replaces(u)'
    BY <1>0, <1>1, <1>2, <1>3, <1>4, <1>5 DEF Carries, Replaces, Whole
  <1> QED
    BY <1>6, <1>7, <1>8, SoleUpdate DEF DeployInv

\* A `.old` of before is removed, if that is possible.
LEMMA ClearStep ==
    ASSUME DeployInv, TypeOK', Sums, NEW u \in Updater, ClearOld(u)
    PROVE  DeployInv'
  <1>0. /\ TypeOK /\ up[u].pc = "clear" /\ Note /\ UNCHANGED data
        /\ up'[u].pc = "aside"
    BY DEF DeployInv, ClearOld, To, TypeOK
  <1>1. /\ dir["new"] # None /\ data[dir["new"]] = Latest
        /\ Whole("exe") /\ last <= Latest
    BY <1>0 DEF DeployInv, Carries, Replaces
  <1>2. /\ dir'["exe"] = dir["exe"] /\ dir'["new"] = dir["new"]
        /\ dir'["old"] \in {dir["old"], None}
    BY <1>0 DEF ClearOld, TypeOK, Name
  <1>3. last' = last
    BY <1>0, <1>1, <1>2 DEF Note, DeployInv, Intact, Cut, Whole
  <1>4. Distinct'
    BY <1>0, <1>2, SoleUpdate, Actors DEF DeployInv, Distinct, Name
  <1>5. Intact' /\ Restorable' /\ Runs'
    BY <1>0, <1>1, <1>2, <1>3, SoleUpdate
    DEF DeployInv, Intact, Restorable, Runs, Whole
  <1>6. Carries(u)' /\ Replaces(u)'
    BY <1>0, <1>1, <1>2, <1>3 DEF Carries, Replaces, Whole
  <1> QED
    BY <1>4, <1>5, <1>6, SoleUpdate DEF DeployInv

\* The binary is moved aside, or the temporary is removed.
LEMMA AsideStep ==
    ASSUME DeployInv, TypeOK', Sums, NEW u \in Updater, MoveAside(u)
    PROVE  DeployInv'
  <1>0. TypeOK /\ up[u].pc = "aside" /\ Note /\ UNCHANGED data
    BY DEF DeployInv, MoveAside
  <1>1. /\ dir["new"] # None /\ data[dir["new"]] = Latest
        /\ Whole("exe") /\ last <= Latest /\ last = data[dir["exe"]]
    BY <1>0 DEF DeployInv, Carries, Replaces, Intact, Whole, Cut
  <1>2. CASE /\ dir' = [dir EXCEPT !["old"] = dir["exe"], !["exe"] = None]
             /\ To(u, "place")
    <2>1. /\ dir'["exe"] = None /\ dir'["old"] = dir["exe"]
          /\ dir'["new"] = dir["new"] /\ up'[u].pc = "place" /\ last' = last
      BY <1>0, <1>2 DEF TypeOK, Name, To, Note
    <2>2. Distinct'
      BY <1>0, <1>1, <2>1, SoleUpdate, Actors DEF DeployInv, Distinct, Name
    <2>3. Intact' /\ Restorable' /\ Runs'
      BY <1>0, <1>1, <2>1, SoleUpdate DEF DeployInv, Intact, Restorable, Runs, Whole
    <2>4. Carries(u)' /\ Replaces(u)'
      BY <1>0, <1>1, <2>1, SoleUpdate DEF DeployInv, Carries, Replaces, Runs, Whole
    <2> QED
      BY <2>2, <2>3, <2>4, SoleUpdate DEF DeployInv
  <1>3. CASE EndUpdate(u) /\ dir' \in {dir, [dir EXCEPT !["new"] = None]}
    <2>1. /\ dir'["exe"] = dir["exe"] /\ dir'["old"] = dir["old"]
          /\ dir'["new"] \in {dir["new"], None} /\ up'[u].pc = "done"
      BY <1>0, <1>3 DEF TypeOK, Name, EndUpdate, Over
    <2>2. last' = last
      BY <1>0, <1>1, <2>1 DEF Note
    <2>3. Distinct'
      BY <2>1, SoleUpdate, Actors DEF DeployInv, Distinct, Name
    <2>4. Intact' /\ Restorable' /\ Runs'
      BY <1>0, <2>1, <2>2, SoleUpdate DEF DeployInv, Intact, Restorable, Runs, Whole
    <2>5. Carries(u)' /\ Replaces(u)'
      BY <2>1 DEF Carries, Replaces
    <2> QED
      BY <2>3, <2>4, <2>5, SoleUpdate DEF DeployInv
  <1> QED
    BY <1>2, <1>3 DEF MoveAside

\* The new binary takes its place, or the old one comes back, or nothing works.
LEMMA PlaceStep ==
    ASSUME DeployInv, TypeOK', Sums, NEW u \in Updater, Place(u)
    PROVE  DeployInv'
  <1>0. TypeOK /\ up[u].pc = "place" /\ Note /\ UNCHANGED data
    BY DEF DeployInv, Place
  <1>1. /\ dir["exe"] = None /\ last <= Latest
        /\ dir["old"] # None /\ data[dir["old"]] = last /\ last > 0
        /\ dir["new"] # None /\ data[dir["new"]] = Latest /\ Latest > 0
        /\ image # None => ver = last \/ last = Latest
    BY <1>0, Numbers DEF DeployInv, Carries, Replaces, Intact
  <1>2. up'[u].pc \in {"exit", "done"}
    <2>1. To(u, "exit") \/ EndUpdate(u)
      BY DEF Place
    <2>2. CASE To(u, "exit")
      BY <1>0, <2>2 DEF To, TypeOK
    <2>3. CASE EndUpdate(u)
      BY <1>0, <2>3 DEF EndUpdate, Over, TypeOK
    <2> QED
      BY <2>1, <2>2, <2>3
  <1>3. Carries(u)' /\ Replaces(u)'
    BY <1>2 DEF Carries, Replaces
  <1>4. CASE dir' = [dir EXCEPT !["exe"] = dir["new"], !["new"] = None]
    <2>1. /\ dir'["exe"] = dir["new"] /\ dir'["new"] = None /\ dir'["old"] = dir["old"]
      BY <1>0, <1>4 DEF TypeOK, Name
    <2>2. last' = Latest
      BY <1>0, <1>1, <2>1 DEF Note
    <2>3. Distinct'
      BY <1>0, <1>1, <1>2, <2>1, SoleUpdate, Actors DEF DeployInv, Distinct, Name
    <2>4. Intact' /\ Restorable' /\ Runs'
      BY <1>0, <1>1, <2>1, <2>2, SoleUpdate
      DEF DeployInv, Intact, Restorable, Runs, Whole
    <2> QED
      BY <1>3, <2>3, <2>4, SoleUpdate DEF DeployInv
  <1>5. CASE dir' = [dir EXCEPT !["exe"] = dir["old"], !["old"] = None]
    <2>1. /\ dir'["exe"] = dir["old"] /\ dir'["old"] = None /\ dir'["new"] = dir["new"]
      BY <1>0, <1>5 DEF TypeOK, Name
    <2>2. last' = last
      BY <1>0, <1>1, <2>1 DEF Note
    <2>3. Distinct'
      BY <1>0, <1>1, <1>2, <2>1, SoleUpdate, Actors DEF DeployInv, Distinct, Name
    <2>4. Intact' /\ Restorable' /\ Runs'
      BY <1>0, <1>1, <2>1, <2>2, SoleUpdate
      DEF DeployInv, Intact, Restorable, Runs, Whole
    <2> QED
      BY <1>3, <2>3, <2>4, SoleUpdate DEF DeployInv
  <1>6. CASE UNCHANGED dir
    <2>1. last' = last
      BY <1>0, <1>1, <1>6 DEF Note
    <2>2. Distinct'
      BY <1>2, <1>6, SoleUpdate DEF DeployInv, Distinct
    <2>3. Intact' /\ Restorable' /\ Runs'
      BY <1>0, <1>6, <2>1, SoleUpdate DEF DeployInv, Intact, Restorable, Runs, Whole
    <2> QED
      BY <1>3, <2>2, <2>3, SoleUpdate DEF DeployInv
  <1> QED
    BY <1>4, <1>5, <1>6 DEF Place

\* The kill ends whatever runs from the path.
LEMMA KillStep ==
    ASSUME DeployInv, TypeOK', NEW i \in Installer, Kill(i)
    PROVE  DeployInv'
  <1>0. TypeOK /\ ins[i] = "kill" /\ Installing(i)
    BY DEF DeployInv, Kill, Installing
  <1>1. UNCHANGED <<dir, data, last>> /\ image' = None /\ scm' # "stopping"
    BY DEF Kill, fileVars
  <1>2. \A u \in Updater : (up'[u] = up[u] /\ ~Updating(u)) \/ up'[u].pc = "done"
    BY DEF Kill, Over, DeployInv, TypeOK
  <1>3. ins' = [ins EXCEPT ![i] = "copy"]
    BY DEF Kill, At
  <1>4. \A j \in Installer \ {i} : ins'[j] = ins[j] /\ ~Installing(j)
    BY <1>0, <1>3 DEF DeployInv, OneActor, TypeOK
  <1>5. ins'[i] = "copy"
    BY <1>0, <1>3 DEF TypeOK
  <1>6. OneActor'
    BY <1>2, <1>4, <1>5 DEF OneActor, Updating, Installing, Copying
  <1>7. Distinct'
    BY <1>0, <1>1, <1>2, <1>4, <1>5 DEF DeployInv, Distinct
  <1>8. Intact' /\ Restorable' /\ Runs'
    BY <1>1 DEF DeployInv, Intact, Restorable, Runs, Whole
  <1>9. \A u \in Updater : Carries(u)' /\ Replaces(u)'
    BY <1>2 DEF Carries, Replaces, Updating
  <1>10. \A j \in Installer : Installs(j)'
    BY <1>1, <1>4, <1>5 DEF Installs, Copying, Installing
  <1> QED
    BY <1>6, <1>7, <1>8, <1>9, <1>10 DEF DeployInv

\* An installer begins, registers the service, starts it, or fails.
LEMMA InstallerStep ==
    ASSUME DeployInv, TypeOK', NEW i \in Installer,
           BeginInstall(i) \/ Register(i) \/ StartInstalled(i) \/ InstallFails(i)
    PROVE  DeployInv'
  <1>0. TypeOK
    BY DEF DeployInv
  <1>1. UNCHANGED <<dir, data, up, last>>
    BY DEF BeginInstall, Register, StartInstalled, InstallFails, fileVars
  <1>2. \A j \in Installer \ {i} : ins'[j] = ins[j] /\ ~Installing(j)
    BY <1>0
    DEF BeginInstall, Register, StartInstalled, InstallFails, At, DeployInv, OneActor,
        Installing, TypeOK
  <1>3. \/ /\ BeginInstall(i) /\ ins[i] = "idle" /\ ins'[i] = "kill"
        \/ /\ Register(i) /\ ins[i] = "register" /\ ins'[i] = "start"
        \/ /\ StartInstalled(i) /\ ins[i] = "start" /\ ins'[i] = "done"
        \/ /\ InstallFails(i) /\ ins'[i] = "failed"
    BY <1>0 DEF BeginInstall, Register, StartInstalled, InstallFails, At, TypeOK
  <1>4. OneActor'
    BY <1>1, <1>2, <1>3 DEF DeployInv, OneActor, Updating, Installing, Copying
  <1>5. Distinct' /\ Intact' /\ Restorable'
    BY <1>1, <1>2, <1>3 DEF DeployInv, Distinct, Intact, Restorable, Whole
  <1>6. \A u \in Updater : Carries(u)'
    BY <1>1 DEF DeployInv, Carries
  <1>7. \A j \in Installer \ {i} : Installs(j)'
    BY <1>2 DEF Installs, Copying, Installing
  <1>8. CASE BeginInstall(i) \/ InstallFails(i)
    <2>1. UNCHANGED <<image, ver>>
      BY <1>8 DEF BeginInstall, InstallFails, svcVars
    <2>2. Runs' /\ \A u \in Updater : Replaces(u)'
      BY <1>1, <2>1 DEF DeployInv, Runs, Replaces, Whole
    <2>3. ins'[i] \in {"kill", "failed"}
      BY <1>0, <1>8 DEF BeginInstall, InstallFails, At, TypeOK
    <2>4. Installs(i)'
      BY <2>3 DEF Installs, Copying
    <2> QED
      BY <1>4, <1>5, <1>6, <1>7, <2>2, <2>4 DEF DeployInv
  <1>9. CASE Register(i)
    <2>1. /\ UNCHANGED <<image, ver>> /\ scm' \in {scm, "stopped"}
          /\ ins[i] = "register" /\ ins'[i] = "start"
      BY <1>0, <1>9 DEF Register, At, TypeOK
    <2>2. Runs' /\ (\A u \in Updater : Replaces(u)') /\ Installs(i)'
      BY <1>1, <2>1 DEF DeployInv, Runs, Replaces, Installs, Copying, Whole
    <2> QED
      BY <1>4, <1>5, <1>6, <1>7, <2>2 DEF DeployInv
  <1>10. CASE StartInstalled(i)
    <2>1. ins[i] = "start" /\ ins'[i] = "done" /\ Copying(i)
      BY <1>0, <1>10 DEF StartInstalled, At, TypeOK, Copying
    <2>2. \A u \in Updater : ~Updating(u)
      BY <2>1 DEF DeployInv, OneActor
    <2>3. \A u \in Updater : Replaces(u)'
      BY <1>1, <2>2 DEF Replaces, Updating
    <2>4. Runs'
      BY <1>1, <1>10 DEF StartInstalled, Run, DeployInv, Runs, Whole, svcVars
    <2>5. Installs(i)'
      BY <2>1 DEF Installs, Copying
    <2> QED
      BY <1>4, <1>5, <1>6, <1>7, <2>3, <2>4, <2>5 DEF DeployInv
  <1> QED
    BY <1>8, <1>9, <1>10

\* The installer truncates what is at the path and writes it again.
LEMMA CopyStep ==
    ASSUME DeployInv, TypeOK', NEW i \in Installer, Copy(i) \/ CopyWrites(i)
    PROVE  DeployInv'
  <1>0. TypeOK /\ Note /\ UNCHANGED <<up, scm, image, ver>>
    BY DEF DeployInv, Copy, CopyWrites, svcVars
  <1>1. Copying(i) /\ Installing(i)
    BY DEF Copy, CopyWrites, Copying, Installing
  <1>2. \A j \in Installer \ {i} : ins'[j] = ins[j] /\ ~Installing(j)
    BY <1>0, <1>1 DEF Copy, CopyWrites, At, DeployInv, OneActor, TypeOK
  <1>3. \A u \in Updater : ~Updating(u)
    BY <1>1 DEF DeployInv, OneActor
  <1>4. \A u \in Updater : Carries(u)' /\ Replaces(u)'
    BY <1>0, <1>3 DEF Carries, Replaces, Updating
  <1>5. \A j \in Installer \ {i} : Installs(j)'
    BY <1>2 DEF Installs, Copying, Installing
  <1>6. CASE Copy(i)
    <2> DEFINE f == IF dir["exe"] = None THEN i ELSE dir["exe"]
    <2>1. /\ f \in File /\ f # None /\ f # dir["old"] /\ f # dir["new"]
          /\ \A n \in Name : dir[n] = f => n = "exe"
      BY <1>0, <1>6, Actors DEF Copy, TypeOK, Name, DeployInv, Distinct
    <2>2. image = None
      BY <1>1, <1>6 DEF Copy, Mapped, DeployInv, Installs
    <2>3. \A j \in Installer \ {i} : j # f \/ dir["exe"] = j
      OBVIOUS
    <2>4. \A u \in Updater : u # f \/ dir["exe"] = u
      BY Actors
    <2>5. /\ dir' = [dir EXCEPT !["exe"] = f] /\ data' = [data EXCEPT ![f] = Cut]
          /\ ins'[i] = "write"
      BY <1>0, <1>6 DEF Copy, At, TypeOK
    <2> HIDE DEF f
    <2>6. /\ dir'["exe"] = f /\ dir'["old"] = dir["old"] /\ dir'["new"] = dir["new"]
          /\ data'[f] = Cut
          /\ dir["old"] # None => data'[dir["old"]] = data[dir["old"]]
      BY <1>0, <2>1, <2>5 DEF TypeOK, Name
    <2>7. last' = last
      BY <1>0, <2>6, Numbers DEF Note
    <2>8. OneActor'
      BY <1>0, <1>2, <1>3 DEF DeployInv, OneActor, Updating, Installing
    <2>9. Distinct'
      BY <1>0, <1>2, <2>1, <2>3, <2>4, <2>5, <2>6 DEF DeployInv, Distinct, Name
    <2>10. Intact' /\ Restorable' /\ Runs'
      BY <1>0, <2>1, <2>2, <2>6, <2>7 DEF DeployInv, Intact, Restorable, Runs, Whole
    <2>11. Installs(i)'
      BY <1>0, <1>1, <2>1, <2>2, <2>5, <2>6 DEF DeployInv, Installs
    <2> QED
      BY <1>4, <1>5, <2>8, <2>9, <2>10, <2>11 DEF DeployInv
  <1>7. CASE CopyWrites(i)
    <2>1. /\ ins[i] = "write" /\ ins'[i] = "register" /\ dir["exe"] # None
          /\ data[dir["exe"]] = Cut /\ UNCHANGED dir
          /\ data' = [data EXCEPT ![dir["exe"]] = Carried[i]]
      BY <1>0, <1>7 DEF CopyWrites, At, TypeOK, DeployInv, Installs
    <2>2. image = None
      BY <2>1, Numbers DEF DeployInv, Runs, Whole
    <2>3. /\ data'[dir["exe"]] = Carried[i] /\ Carried[i] > 0
          /\ dir["old"] # None => data'[dir["old"]] = data[dir["old"]]
      BY <1>0, <2>1, Numbers DEF TypeOK, Name, DeployInv, Distinct
    <2>4. last' = Carried[i]
      BY <1>0, <2>1, <2>3 DEF Note
    <2>5. OneActor'
      BY <1>0, <1>2, <1>3, <2>1 DEF DeployInv, OneActor, Updating, Installing, Copying
    <2>6. Distinct'
      BY <1>0, <1>2, <2>1 DEF DeployInv, Distinct
    <2>7. Intact' /\ Restorable' /\ Runs'
      BY <1>0, <2>1, <2>2, <2>3, <2>4 DEF DeployInv, Intact, Restorable, Runs, Whole
    <2>8. Installs(i)'
      BY <1>0, <1>1, <2>1, <2>2, <2>3 DEF DeployInv, Installs
    <2> QED
      BY <1>4, <1>5, <2>5, <2>6, <2>7, <2>8 DEF DeployInv
  <1> QED
    BY <1>6, <1>7

LEMMA DeployStep ==
    ASSUME Sums, "race" \notin Env
    PROVE  DeployInv /\ [Next]_vars => DeployInv'
  <1> SUFFICES ASSUME DeployInv, [Next]_vars
               PROVE  DeployInv'
    OBVIOUS
  <1>0. TypeOK'
    BY TypeStep DEF DeployInv
  <1>1. CASE UNCHANGED vars
    BY <1>0, <1>1
    DEF vars, fileVars, svcVars, insVars, DeployInv, OneActor, Updating, Installing,
        Copying, Distinct, Intact, Restorable, Runs, Whole, Carries, Replaces, Installs
  <1>2. CASE StopService \/ StartService \/ Recover
    BY <1>0, <1>2, ServiceStep
  <1>3. CASE ServiceStops \/ AgentDies \/ \E u \in Updater : Exit(u)
    BY <1>0, <1>3, AgentStep DEF ServiceStops, AgentDies, Exit
  <1>4. CASE \E u \in Updater : BeginUpdate(u) \/ Fetch(u) \/ UpdateDies(u)
    BY <1>0, <1>4, DownloadStep
  <1>5. CASE \E u \in Updater :
                OpenNew(u) \/ WriteNew(u) \/ ClearOld(u) \/ MoveAside(u) \/ Place(u)
    BY <1>0, <1>5, OpenStep, WriteStep, ClearStep, AsideStep, PlaceStep
  <1>6. CASE \E i \in Installer : Kill(i)
    BY <1>0, <1>6, KillStep
  <1>7. CASE \E i \in Installer :
                BeginInstall(i) \/ Register(i) \/ StartInstalled(i) \/ InstallFails(i)
    BY <1>0, <1>7, InstallerStep
  <1>8. CASE \E i \in Installer : Copy(i) \/ CopyWrites(i)
    BY <1>0, <1>8, CopyStep
  <1> QED
    BY <1>1, <1>2, <1>3, <1>4, <1>5, <1>6, <1>7, <1>8 DEF Next, Service, Update, Install

LEMMA DeployInvariant ==
    ASSUME Sums, "race" \notin Env
    PROVE  Spec => []DeployInv
  <1>1. DeployInv /\ [Next]_vars => DeployInv'
    BY DeployStep
  <1> QED
    BY InvInit, <1>1, PTL DEF Spec

\* While updates do not overlap, a whole binary is always at the path or beside
\* it, unless an installer was cut off while it copied: SelfUpdate's rollback is
\* never left without something to roll back to.
THEOREM RestorableHolds ==
    ASSUME Sums, "race" \notin Env
    PROVE  Spec => []Restorable
  <1>1. DeployInv => Restorable
    BY DEF DeployInv
  <1> QED
    BY DeployInvariant, <1>1, PTL

\* What an update puts at the path is whole and is the published binary.
THEOREM VerifiedHolds ==
    ASSUME Sums, "race" \notin Env
    PROVE  Spec => []Verified
  <1>1. DeployInv => Verified
    BY Numbers DEF DeployInv, Intact, Verified
  <1> QED
    BY DeployInvariant, <1>1, PTL

-----------------------------------------------------------------------------
(* Versions                                                                *)

\* What an installer that ends well has started.
LEMMA DoneStep ==
    ASSUME DeployInv, [Next]_vars, NEW i \in Installer,
           ins[i] # "done", ins'[i] = "done"
    PROVE  scm' = "running" /\ ver' = Carried[i]
  <1>0. TypeOK
    BY DEF DeployInv
  <1>1. StartInstalled(i)
    <2>1. ins' # ins
      OBVIOUS
    <2>2. \E j \in Installer : BeginInstall(j) \/ Install(j) \/ InstallFails(j)
      BY <2>1 DEF Next, vars, insVars, Service, Update, StopService, StartService,
                  ServiceStops, Recover, AgentDies, BeginUpdate, Fetch, OpenNew,
                  WriteNew, ClearOld, MoveAside, Place, Exit, UpdateDies, Around
    <2>3. PICK j \in Installer : BeginInstall(j) \/ Install(j) \/ InstallFails(j)
      BY <2>2
    <2>4. j = i
      BY <1>0, <2>3 DEF BeginInstall, Install, InstallFails, Kill, Copy, CopyWrites,
                        Register, StartInstalled, At, TypeOK
    <2> QED
      BY <1>0, <2>3, <2>4
      DEF BeginInstall, Install, InstallFails, Kill, Copy, CopyWrites, Register, At,
          TypeOK
  <1>2. /\ ins[i] = "start" /\ dir["exe"] # None /\ data[dir["exe"]] = Carried[i]
        /\ scm # "stopping"
        /\ image # None => ver = data[dir["exe"]]
    BY <1>1 DEF StartInstalled, DeployInv, Installs, Copying
  <1>3. CASE Run
    BY <1>2, <1>3 DEF Run
  <1>4. CASE scm = "running" /\ UNCHANGED svcVars
    BY <1>0, <1>2, <1>4 DEF svcVars, TypeOK
  <1> QED
    BY <1>1, <1>2, <1>3, <1>4 DEF StartInstalled

\* An installer that ends well leaves the version it carries running.
THEOREM InstallDoneHolds ==
    ASSUME Sums, "race" \notin Env
    PROVE  Spec => InstallDone
  <1>1. DeployInv /\ [Next]_vars =>
            [\A i \in Installer : ins[i] # "done" /\ ins'[i] = "done"
                 => scm' = "running" /\ ver' = Carried[i]]_vars
    BY DoneStep
  <1> QED
    BY DeployInvariant, <1>1, PTL DEF Spec, InstallDone

\* The history moves only to what an update publishes or an installer carries.
LEMMA LastMoves ==
    ASSUME DeployInv, [Next]_vars, last' # last
    PROVE  \/ last <= Latest /\ last' = Latest
           \/ \E i \in Installer : CopiesItself(i)
  <1>0. TypeOK
    BY DEF DeployInv
  <1>1. \/ \E u \in Updater : OpenNew(u) \/ WriteNew(u) \/ ClearOld(u)
                              \/ MoveAside(u) \/ Place(u)
        \/ \E i \in Installer : Copy(i) \/ CopyWrites(i)
    BY DEF Next, vars, Service, Update, Install, StopService, StartService,
           ServiceStops, Recover, AgentDies, BeginUpdate, Fetch, Exit, UpdateDies,
           BeginInstall, Kill, Register, StartInstalled, InstallFails
  <1>2. /\ Note /\ dir'["exe"] # None /\ last' = data'[dir'["exe"]]
        /\ data'[dir'["exe"]] > 0
    BY <1>1 DEF Note, OpenNew, WriteNew, ClearOld, MoveAside, Place, Copy, CopyWrites
  <1>3. dir["exe"] # None => ~(dir'["exe"] = dir["exe"]
                               /\ data'[dir["exe"]] = data[dir["exe"]])
    BY <1>2, Numbers DEF DeployInv, Intact
  <1>4. ASSUME NEW u \in Updater, OpenNew(u)
        PROVE  FALSE
    <2>1. CASE dir["exe"] = None
      BY <1>2, <1>4, <2>1 DEF OpenNew, fileVars
    <2>2. CASE dir["exe"] # None
      <3> DEFINE f == IF dir["new"] = None THEN u ELSE dir["new"]
      <3>1. f # dir["exe"]
        BY <1>4, <2>2, Actors DEF OpenNew, DeployInv, Distinct, Name
      <3>2. dir' = [dir EXCEPT !["new"] = f] /\ data' = [data EXCEPT ![f] = Partial]
        BY <1>4, <2>2 DEF OpenNew
      <3> HIDE DEF f
      <3> QED
        BY <1>0, <1>3, <2>2, <3>1, <3>2 DEF TypeOK, Name
    <2> QED
      BY <2>1, <2>2
  <1>5. ASSUME NEW u \in Updater, WriteNew(u)
        PROVE  FALSE
    <2>1. /\ up[u].fd = dir["new"] /\ up[u].fd # None /\ dir["exe"] # None
          /\ dir["new"] # dir["exe"]
      BY <1>5 DEF WriteNew, DeployInv, Carries, Replaces, Whole, Distinct, Name
    <2>2. UNCHANGED dir /\ \E c : data' = [data EXCEPT ![dir["new"]] = c]
      <3>1. CASE UNCHANGED data
        <4>1. data' = [data EXCEPT ![dir["new"]] = data[dir["new"]]]
          BY <1>0, <3>1 DEF TypeOK
        <4> QED
          BY <1>5, <4>1 DEF WriteNew
      <3>2. CASE data' = [data EXCEPT ![up[u].fd] = up[u].bin]
        BY <1>5, <2>1, <3>2 DEF WriteNew
      <3> QED
        BY <1>5, <3>1, <3>2 DEF WriteNew
    <2> QED
      BY <1>0, <1>3, <2>1, <2>2 DEF TypeOK, Name
  <1>6. ASSUME NEW u \in Updater, ClearOld(u) \/ MoveAside(u)
        PROVE  FALSE
    <2>1. dir["exe"] # None /\ UNCHANGED data
      BY <1>6 DEF ClearOld, MoveAside, DeployInv, Replaces, Whole
    <2>2. dir'["exe"] \in {dir["exe"], None}
      BY <1>0, <1>6 DEF ClearOld, MoveAside, TypeOK, Name
    <2> QED
      BY <1>2, <1>3, <2>1, <2>2
  <1>7. ASSUME NEW u \in Updater, Place(u)
        PROVE  last <= Latest /\ last' = Latest
    <2>1. /\ dir["exe"] = None /\ last <= Latest /\ data[dir["old"]] = last
          /\ data[dir["new"]] = Latest /\ UNCHANGED data
      BY <1>7 DEF Place, DeployInv, Carries, Replaces
    <2>2. dir'["exe"] \in {None, dir["old"], dir["new"]}
      BY <1>0, <1>7, <2>1 DEF Place, TypeOK, Name
    <2> QED
      BY <1>2, <2>1, <2>2
  <1>8. ASSUME NEW i \in Installer, Copy(i)
        PROVE  FALSE
    <2> DEFINE f == IF dir["exe"] = None THEN i ELSE dir["exe"]
    <2>1. f \in File
      BY <1>0, Actors DEF TypeOK, Name
    <2>2. dir' = [dir EXCEPT !["exe"] = f] /\ data' = [data EXCEPT ![f] = Cut]
      BY <1>8 DEF Copy
    <2> HIDE DEF f
    <2>3. data'[dir'["exe"]] = Cut
      BY <1>0, <2>1, <2>2 DEF TypeOK, Name
    <2> QED
      BY <1>2, <2>3, Numbers
  <1>9. ASSUME NEW i \in Installer, CopyWrites(i)
        PROVE  CopiesItself(i)
    BY <1>0, <1>2, <1>9 DEF CopyWrites, CopiesItself, At, TypeOK, Name
  <1> QED
    BY <1>1, <1>4, <1>5, <1>6, <1>7, <1>8, <1>9

\* Whatever versions installers carry, nothing but the copy of one of them puts
\* an older version at the path than the one that was there.
THEOREM UpdatesNeverDowngradeHolds ==
    ASSUME Sums, "race" \notin Env
    PROVE  Spec => UpdatesNeverDowngrade
  <1>1. DeployInv /\ DeployInv' /\ [Next]_vars
            => [last' < last => \E i \in Installer : CopiesItself(i)]_vars
    <2> SUFFICES ASSUME DeployInv, DeployInv', [Next]_vars, last' < last
                 PROVE  \E i \in Installer : CopiesItself(i)
      OBVIOUS
    <2>1. last \in Int /\ last' \in Int /\ Latest \in Int
      BY Numbers DEF DeployInv, TypeOK
    <2> QED
      BY <2>1, LastMoves
  <1> QED
    BY DeployInvariant, <1>1, PTL DEF Spec, UpdatesNeverDowngrade
=============================================================================
