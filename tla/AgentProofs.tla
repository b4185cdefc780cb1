----------------------------- MODULE AgentProofs -----------------------------
(***************************************************************************)
(* Proofs about the agent process (module Agent), for any number of        *)
(* processes, requests and pairings.                                       *)
(***************************************************************************)
EXTENDS Agent, TLAPS

Requests == [pc : Steps, proc : Process \cup {None},
             want : Pairing \cup {None}, fd : Inode \cup {None}]

LEMMA TypeInit == Init => TypeOK
  <1> SUFFICES ASSUME Init PROVE TypeOK
    OBVIOUS
  <1> USE NoneAssumption, PairingAssumption DEF Init
  <1>1. /\ dir \in [Name -> Inode \cup {None}]
        /\ content \in [Inode -> Pairing \cup {"empty", "torn"}]
    BY DEF Inode, Name
  <1>2. /\ rq \in [Request -> Requests]
        /\ \A r \in Request : ~InFlight(r)
    BY DEF Steps, Requests, InFlight
  <1> QED
    BY <1>1, <1>2 DEF TypeOK, Pcs, Requests

\* What is left of a request is a request that is over.
LEMMA OverType ==
    ASSUME TypeOK, NEW r \in Request
    PROVE  Over(r) \in Requests /\ Over(r).pc = "done"
  BY DEF TypeOK, Over, Steps, Requests

\* The process's own steps keep the type.
LEMMA GoneType ==
    ASSUME TypeOK, NEW p \in Process, Gone(p)
    PROVE  TypeOK'
  <1>1. rq' \in [Request -> Requests]
    BY OverType DEF Gone, TypeOK, Requests
  <1>2. \A r \in Request : InFlight(r)' => rq'[r] = rq[r]
    BY OverType DEF Gone, InFlight, TypeOK
  <1>3. \A r \in Request : InFlight(r)' => rq'[r].want # None
    BY <1>2 DEF TypeOK, InFlight
  <1> QED
    BY <1>1, <1>3 DEF TypeOK, Gone, diskVars, Pcs, Requests

LEMMA ProcessType ==
    ASSUME TypeOK, NEW p \in Process,
           \/ Launch(p) \/ Stop(p) \/ Acquire(p) \/ LoadConfig(p) \/ TakeFirst(p)
           \/ StartSyncer(p) \/ TakeNext(p) \/ Switch(p) \/ Enter(p) \/ Release(p)
    PROVE  TypeOK'
  <1> USE DEF TypeOK, lockVars, loopVars, syncerVars, pressVars, diskVars, Pcs,
              Served, InFlight
  <1>1. CASE Launch(p)
    BY <1>1 DEF Launch
  <1>2. CASE Stop(p)
    BY <1>2 DEF Stop
  <1>3. CASE Acquire(p)
    BY <1>3 DEF Acquire
  <1>4. CASE LoadConfig(p)
    <2>1. CASE Gone(p)
      BY <2>1, GoneType
    <2>2. CASE ~Gone(p)
      <3>1. Reads \subseteq Pairing \cup {None}
        BY DEF Reads, Loaded, Valid
      <3> QED
        BY <1>4, <2>2, <3>1 DEF LoadConfig
    <2> QED
      BY <2>1, <2>2
  <1>5. CASE TakeFirst(p)
    BY <1>5 DEF TakeFirst
  <1>6. CASE StartSyncer(p)
    BY <1>6 DEF StartSyncer
  <1>7. CASE TakeNext(p)
    BY <1>7 DEF TakeNext
  <1>8. CASE Switch(p)
    BY <1>8 DEF Switch
  <1>9. CASE Enter(p) \/ Release(p)
    BY <1>9 DEF Enter, Release
  <1> QED
    BY <1>1, <1>2, <1>3, <1>4, <1>5, <1>6, <1>7, <1>8, <1>9

LEMMA SyncerType ==
    ASSUME TypeOK, NEW p \in Process,
           \/ CycleByTimer(p) \/ CycleByToken(p) \/ CycleEnds(p) \/ RunReturns(p)
           \/ PressForce(p) \/ TellSyncer(p)
    PROVE  TypeOK'
  <1> USE DEF lockVars, loopVars, syncerVars, pressVars, diskVars, InFlight
  <1>1. CASE CycleByTimer(p)
    <2>1. owed' \in [Process -> BOOLEAN]
      BY <1>1, Zenon DEF CycleByTimer, TypeOK
    <2> QED
      BY <1>1, <2>1 DEF CycleByTimer, TypeOK
  <1>2. CASE CycleByToken(p)
    BY <1>2 DEF CycleByToken, TypeOK
  <1>3. CASE CycleEnds(p)
    <2>1. applied' \in [Process -> BOOLEAN]
      BY <1>3 DEF CycleEnds, TypeOK
    <2> QED
      BY <1>3, <2>1 DEF CycleEnds, TypeOK
  <1>4. CASE RunReturns(p)
    BY <1>4 DEF RunReturns, TypeOK
  <1>5. CASE PressForce(p)
    BY <1>5 DEF PressForce, TypeOK
  <1>6. CASE TellSyncer(p)
    BY <1>6 DEF TellSyncer, TypeOK
  <1> QED
    BY <1>1, <1>2, <1>3, <1>4, <1>5, <1>6

\* The file a save opens: the temporary there is, or a new one.
LEMMA OpenInode ==
    ASSUME TypeOK, NEW r \in Request, Open(r)
    PROVE  \E i \in Inode :
              /\ i = IF dir["tmp"] = None THEN r ELSE dir["tmp"]
              /\ dir' = [dir EXCEPT !["tmp"] = i]
              /\ content' = [content EXCEPT ![i] = "empty"]
              /\ rq' = [rq EXCEPT ![r].pc = "write", ![r].fd = i]
  <1> DEFINE i == IF dir["tmp"] = None THEN r ELSE dir["tmp"]
  <1>1. dir["tmp"] \in Inode \cup {None}
    BY DEF TypeOK, Name
  <1>2. i \in Inode
    BY <1>1 DEF Inode
  <1> QED
    BY <1>2 DEF Open

\* A step of one request, seen from the others: it is over, moves on, begins, or
\* opens the temporary.
LEMMA RequestStep ==
    ASSUME TypeOK, NEW r \in Request,
           \/ BeginCli(r) \/ Handle(r) \/ Refuse(r)
           \/ \E p \in Process : Begin(r, p)
    PROVE  \E q \in Requests :
              /\ rq' = [rq EXCEPT ![r] = q]
              /\ q.pc # "done" => q.want # None
  <1> DEFINE Moved(q) == /\ rq' = [rq EXCEPT ![r] = q]
                         /\ q.pc # "done" => q.want # None
  <1> USE DEF Requests
  <1>0. rq[r] \in Requests /\ (rq[r].pc \notin {"new", "done"} => rq[r].want # None)
    BY DEF TypeOK, InFlight
  <1>1. CASE End(r)
    BY <1>1, OverType DEF End
  <1>2. CASE \E to \in Steps : Step(r, to) /\ rq[r].pc \notin {"new", "done"}
    <2>1. PICK to \in Steps : Step(r, to)
      BY <1>2
    <2> DEFINE q == [rq[r] EXCEPT !.pc = to]
    <2>2. q \in Requests /\ q.want # None
      BY <1>0, <1>2
    <2>3. rq' = [rq EXCEPT ![r] = q]
      BY <2>1 DEF Step
    <2> QED
      BY <2>2, <2>3
  <1>3. CASE BeginCli(r) \/ \E p \in Process : Begin(r, p)
    <2>1. CASE \E p \in Process, w \in Pairing :
                  rq' = [rq EXCEPT ![r] = [pc |-> "prove", proc |-> p, want |-> w,
                                           fd |-> None]]
      <3>1. PICK p \in Process, w \in Pairing :
                    rq' = [rq EXCEPT ![r] = [pc |-> "prove", proc |-> p,
                                             want |-> w, fd |-> None]]
        BY <2>1
      <3> DEFINE q == [pc |-> "prove", proc |-> p, want |-> w, fd |-> None]
      <3>2. q \in Requests /\ q.want # None
        BY NoneAssumption DEF Steps
      <3> QED
        BY <3>1, <3>2
    <2>2. CASE \E w \in Pairing :
                  rq' = [rq EXCEPT ![r] = [pc |-> "open", proc |-> None, want |-> w,
                                           fd |-> None]]
      <3>1. PICK w \in Pairing :
                    rq' = [rq EXCEPT ![r] = [pc |-> "open", proc |-> None,
                                             want |-> w, fd |-> None]]
        BY <2>2
      <3> DEFINE q == [pc |-> "open", proc |-> None, want |-> w, fd |-> None]
      <3>2. q \in Requests /\ q.want # None
        BY NoneAssumption DEF Steps, Saving
      <3> QED
        BY <3>1, <3>2
    <2> QED
      BY <1>1, <1>3, <2>1, <2>2 DEF BeginCli, Begin
  <1>4. CASE Open(r)
    <2>1. PICK i \in Inode : rq' = [rq EXCEPT ![r].pc = "write", ![r].fd = i]
      BY <1>4, OpenInode
    <2> DEFINE q == [rq[r] EXCEPT !.pc = "write", !.fd = i]
    <2>2. q \in Requests /\ q.want # None
      BY <1>0, <1>4 DEF Open, Steps, Saving
    <2>3. rq' = [rq EXCEPT ![r] = q]
      BY <2>1
    <2> QED
      BY <2>2, <2>3
  <1> QED
    BY <1>1, <1>2, <1>3, <1>4
    DEF Handle, Save, Prove, Write, Rename, Drain, Send, Refuse, Steps, Saving

\* A request leaves the processes alone but for the queue.
Asks(r) == \/ BeginCli(r) \/ Handle(r) \/ Refuse(r)
           \/ \E p \in Process : Begin(r, p)

LEMMA RequestElsewhere ==
    ASSUME NEW r \in Request, Asks(r)
    PROVE  UNCHANGED <<lockVars, loopVars, syncerVars, pressVars>>
  BY DEF Asks, BeginCli, Begin, Handle, Save, Prove, Open, Write, Rename, Drain,
         Send, Refuse, Elsewhere

LEMMA RequestType ==
    ASSUME TypeOK, NEW r \in Request,
           \/ BeginCli(r) \/ Handle(r) \/ Refuse(r)
           \/ \E p \in Process : Begin(r, p)
    PROVE  TypeOK'
  <1> USE DEF Elsewhere, lockVars, loopVars, syncerVars, pressVars, diskVars
  <1>1. UNCHANGED <<lockVars, loopVars, syncerVars, pressVars>>
    BY RequestElsewhere DEF Asks
  <1>2. /\ rq' \in [Request -> Requests]
        /\ \A o \in Request : InFlight(o)' => rq'[o].want # None
    BY RequestStep DEF TypeOK, Requests, InFlight
  <1>3. /\ dir' \in [Name -> Inode \cup {None}]
        /\ content' \in [Inode -> Pairing \cup {"empty", "torn"}]
    <2>1. CASE Open(r)
      <3>1. PICK i \in Inode : /\ dir' = [dir EXCEPT !["tmp"] = i]
                               /\ content' = [content EXCEPT ![i] = "empty"]
        BY <2>1, OpenInode
      <3> QED
        BY <3>1 DEF TypeOK
    <2>2. CASE Write(r)
      <3>1. rq[r].want \in Pairing
        BY <2>2 DEF Write, TypeOK, InFlight
      <3> QED
        BY <2>2, <3>1 DEF Write, TypeOK
    <2>3. CASE Rename(r)
      BY <2>3 DEF Rename, TypeOK, Name
    <2>4. CASE Refuse(r)
      BY <2>4 DEF Refuse, TypeOK
    <2> QED
      BY <2>1, <2>2, <2>3, <2>4
      DEF TypeOK, BeginCli, Begin, Handle, Save, Prove, Drain, Send
  <1>4. chan' \in [Process -> Pairing \cup {None}]
    BY DEF TypeOK, BeginCli, Begin, Handle, Save, Prove, Open, Write, Rename,
           Drain, Send, Refuse
  <1> QED
    BY <1>1, <1>2, <1>3, <1>4 DEF TypeOK, Requests

LEMMA TypeStep == TypeOK /\ [Next]_vars => TypeOK'
  <1> SUFFICES ASSUME TypeOK, [Next]_vars PROVE TypeOK'
    OBVIOUS
  <1>1. CASE UNCHANGED vars
    BY <1>1 DEF TypeOK, vars, lockVars, loopVars, syncerVars, pressVars, diskVars,
                InFlight
  <1>2. CASE Next
    BY <1>2, GoneType, ProcessType, SyncerType, RequestType
    DEF Next, Crash, Loop, Cycle, Return, Exit
  <1> QED
    BY <1>1, <1>2

\* Every reachable state of the agent is well typed.
THEOREM TypeCorrect == Spec => []TypeOK
  BY TypeInit, TypeStep, PTL DEF Spec

-----------------------------------------------------------------------------
(* One agent per machine                                                   *)

\* Where nobody runs `force`, a process that got past the lock is the one that
\* holds it, and only such a process has a syncer.
LockInv ==
    /\ TypeOK
    /\ \A p \in Process :
          /\ mode[p] = "run"
          /\ pc[p] \notin {"front", "leaving", "released"}
          /\ pc[p] \notin {"off", "acquire"} => holder = p
          /\ run[p] # "done" => pc[p] \in {"running", "switch"}

LEMMA LockInit == Init => LockInv
  BY TypeInit DEF Init, LockInv

LEMMA LockStep ==
    ASSUME "force" \notin Env
    PROVE  LockInv /\ [Next]_vars => LockInv'
  <1> SUFFICES ASSUME LockInv, [Next]_vars PROVE LockInv'
    OBVIOUS
  <1>0. TypeOK /\ TypeOK'
    BY TypeStep DEF LockInv
  <1> USE <1>0 DEF LockInv, TypeOK, lockVars, loopVars, syncerVars, pressVars
  <1>1. CASE UNCHANGED vars
    BY <1>1 DEF vars
  <1>2. ASSUME NEW p \in Process, Gone(p) PROVE LockInv'
    BY <1>2, NoneAssumption DEF Gone
  <1>3. ASSUME NEW p \in Process, Launch(p) PROVE LockInv'
    BY <1>3 DEF Launch
  <1>4. ASSUME NEW p \in Process, Acquire(p) PROVE LockInv'
    BY <1>4, NoneAssumption DEF Acquire
  <1>5. ASSUME NEW p \in Process, LoadConfig(p) PROVE LockInv'
    BY <1>2, <1>5 DEF LoadConfig
  <1>6. ASSUME NEW p \in Process, Stop(p) \/ TakeFirst(p) PROVE LockInv'
    BY <1>6 DEF Stop, TakeFirst
  <1>7. ASSUME NEW p \in Process, StartSyncer(p) PROVE LockInv'
    BY <1>7 DEF StartSyncer
  <1>8. ASSUME NEW p \in Process, TakeNext(p) \/ Switch(p) PROVE LockInv'
    BY <1>8 DEF TakeNext, Switch
  <1>9. ASSUME NEW p \in Process, Enter(p) \/ Release(p) PROVE LockInv'
    BY <1>9 DEF Enter, Release
  <1>10. ASSUME NEW p \in Process,
                \/ CycleByTimer(p) \/ CycleByToken(p) \/ CycleEnds(p)
                \/ RunReturns(p) \/ PressForce(p) \/ TellSyncer(p)
         PROVE  LockInv'
    BY <1>10 DEF CycleByTimer, CycleByToken, CycleEnds, RunReturns, PressForce,
                 TellSyncer
  <1>11. ASSUME NEW r \in Request, Asks(r) PROVE LockInv'
    BY <1>11, RequestElsewhere
  <1> QED
    BY <1>1, <1>2, <1>3, <1>4, <1>5, <1>6, <1>7, <1>8, <1>9, <1>10, <1>11
    DEF Next, Crash, Loop, Cycle, Return, Exit, Asks

\* Where nobody runs `force`, no two processes are inside a cycle at once.
THEOREM OneCycleHolds ==
    ASSUME "force" \notin Env
    PROVE  Spec => []OneCycle
  <1>1. LockInv => OneCycle
    BY DEF LockInv, OneCycle, TypeOK
  <1> QED
    BY <1>1, LockInit, LockStep, PTL DEF Spec

-----------------------------------------------------------------------------
(* What is on disk                                                         *)

\* Somebody answers for a pairing: the server did, or an administrator.
Vouched(w) == w \in Good \/ \E r \in Request : Typed(r) /\ rq[r].want = w

\* Every pairing that is in some file is vouched for, and so is every one that
\* is about to be written; a request that has not been made wants none.
VouchInv ==
    /\ TypeOK
    /\ \A i \in Inode : content[i] \in Pairing => Vouched(content[i])
    /\ \A r \in Request : /\ rq[r].pc \in Saving => Vouched(rq[r].want)
                          /\ rq[r].pc = "new" => rq[r].want = None
                          /\ rq[r].pc = "prove" => ~Typed(r)

LEMMA VouchInit == Init => VouchInv
  <1> SUFFICES ASSUME Init PROVE VouchInv
    OBVIOUS
  <1>1. TypeOK
    BY TypeInit
  <1> QED
    BY <1>1, RequestAssumption, ContentAssumption
    DEF Init, VouchInv, Vouched, Inode, Saving

\* A step is one of a process that leaves disk and requests alone, the end of a
\* process, or one of a request.
LEMMA StepCases ==
    ASSUME [Next]_vars
    PROVE  \/ UNCHANGED <<diskVars, rq>>
           \/ \E p \in Process : Gone(p)
           \/ \E r \in Request : Asks(r)
  <1>1. ASSUME NEW p \in Process, Cycle(p) \/ CycleEnds(p) \/ PressForce(p)
                                  \/ TellSyncer(p)
        PROVE  UNCHANGED <<diskVars, rq>>
    BY <1>1 DEF Cycle, CycleByTimer, CycleByToken, CycleEnds, RunReturns,
                PressForce, TellSyncer
  <1>2. ASSUME NEW p \in Process, Launch(p) \/ Crash(p) \/ Stop(p) \/ Enter(p)
                                  \/ Loop(p)
        PROVE  Gone(p) \/ UNCHANGED <<diskVars, rq>>
    BY <1>2 DEF Launch, Crash, Stop, Enter, Loop, Acquire, LoadConfig, Return,
                TakeFirst, StartSyncer, TakeNext, Switch, Release, Exit
  <1> QED
    BY <1>1, <1>2 DEF Next, vars, Asks

\* A request that goes on keeps who asked and for what; it was proven before it
\* is saved.
Continues(r) ==
    /\ rq[r].pc \notin {"new", "done"}
    /\ rq'[r].proc = rq[r].proc /\ rq'[r].want = rq[r].want
    /\ rq'[r].pc \in Saving \cup {"drain", "send"}
    /\ rq[r].pc = "prove" => rq[r].want \in Good
    /\ rq'[r].pc \in Saving => rq[r].pc \in Saving \cup {"prove"}

\* What a step of a request makes of the requests.
LEMMA AskCases ==
    ASSUME TypeOK, NEW r \in Request, Asks(r)
    PROVE  /\ \A o \in Request \ {r} : rq'[o] = rq[o]
           /\ \/ rq'[r] = Over(r)
              \/ BeginCli(r) /\ rq'[r].pc = "open" /\ rq'[r].proc = None
              \/ \E p \in Process : /\ Begin(r, p) /\ rq'[r].proc = p
                                    /\ rq'[r].pc = "prove"
              \/ Continues(r)
  <1>1. \A o \in Request \ {r} : rq'[o] = rq[o]
    BY RequestStep DEF Asks, TypeOK
  <1>2. CASE End(r)
    BY <1>1, <1>2 DEF End, TypeOK
  <1>3. CASE BeginCli(r)
    <2>1. PICK w \in Pairing : rq' = [rq EXCEPT ![r] =
                 [pc |-> "open", proc |-> None, want |-> w, fd |-> None]]
      BY <1>3 DEF BeginCli
    <2> QED
      BY <1>1, <1>3, <2>1 DEF TypeOK
  <1>4. CASE ~End(r) /\ \E p \in Process : Begin(r, p)
    BY <1>1, <1>4 DEF Begin, TypeOK
  <1>5. CASE Open(r)
    <2>1. PICK i \in Inode : rq' = [rq EXCEPT ![r].pc = "write", ![r].fd = i]
      BY <1>5, OpenInode
    <2> QED
      BY <1>1, <1>5, <2>1 DEF TypeOK, Continues, Open, Saving
  <1>6. CASE ~End(r) /\ (Prove(r) \/ Write(r) \/ Rename(r) \/ Drain(r))
    BY <1>1, <1>6
    DEF Prove, Write, Rename, Drain, Step, Continues, Saving, TypeOK
  <1> QED
    BY <1>2, <1>3, <1>4, <1>5, <1>6 DEF Asks, Handle, Save, Send, Refuse

\* What was vouched for stays so.
LEMMA VouchStays ==
    ASSUME VouchInv, [Next]_vars, NEW w \in Pairing, Vouched(w)
    PROVE  Vouched(w)'
  <1>1. SUFFICES ASSUME NEW r \in Request, Typed(r), rq[r].want = w
                 PROVE  Typed(r)' /\ rq'[r].want = w
    BY DEF Vouched
  <1>2. TypeOK /\ rq[r].pc # "new" /\ rq[r].proc = None
    BY <1>1, NoneAssumption DEF VouchInv, Typed
  <1>3. Over(r).proc = None /\ Over(r).want = w
    BY <1>1 DEF Over
  <1>4. CASE \E p \in Process : Gone(p)
    BY <1>1, <1>2, <1>4, NoneAssumption DEF Gone, Typed
  <1>5. ASSUME NEW o \in Request, Asks(o)
        PROVE  Typed(r)' /\ rq'[r].want = w
    <2>1. CASE o = r
      <3>1. ~BeginCli(r) /\ \A p \in Process : ~Begin(r, p)
        BY <1>2 DEF BeginCli, Begin
      <3> QED
        BY <1>1, <1>2, <1>3, <1>5, <2>1, <3>1, AskCases DEF Typed, Continues
    <2>2. CASE o # r
      BY <1>1, <1>2, <1>5, <2>2, AskCases DEF Typed
    <2> QED
      BY <2>1, <2>2
  <1> QED
    BY <1>1, <1>4, <1>5, StepCases DEF Typed

LEMMA VouchStep == VouchInv /\ [Next]_vars => VouchInv'
  <1> SUFFICES ASSUME VouchInv, [Next]_vars PROVE VouchInv'
    OBVIOUS
  <1>0. TypeOK /\ TypeOK'
    BY TypeStep DEF VouchInv
  <1>1. ASSUME NEW i \in Inode, NEW w \in Pairing, w = content'[i]
        PROVE  Vouched(w)'
    <2>1. SUFFICES Vouched(w)
      BY VouchStays
    <2>2. CASE content'[i] = content[i]
      BY <1>1, <2>2 DEF VouchInv
    <2>3. CASE content'[i] # content[i]
      <3>1. PICK r \in Request : Asks(r)
        BY <2>3, StepCases DEF diskVars, Gone
      <3>2. content'[i] \in {"empty", "torn"} \/ Write(r)
        BY <1>0, <2>3, <3>1
        DEF Asks, BeginCli, Begin, Handle, Save, Prove, Open, Rename, Drain, Send,
            Refuse, diskVars, TypeOK
      <3>3. Write(r)
        BY <1>1, <3>2, ContentAssumption
      <3>4. content'[i] \in {rq[r].want, "torn"}
        BY <1>0, <2>3, <3>3 DEF Write, TypeOK
      <3>5. content'[i] = rq[r].want
        BY <1>1, <3>4, ContentAssumption
      <3> QED
        BY <1>1, <3>3, <3>5 DEF Write, VouchInv, Saving
    <2> QED
      BY <2>2, <2>3
  <1>2. ASSUME NEW r \in Request, NEW w, w = rq'[r].want, rq'[r].pc \in Saving
        PROVE  Vouched(w)'
    <2>0. w \in Pairing
      BY <1>0, <1>2 DEF TypeOK, InFlight, Saving
    <2>1. CASE rq'[r] = rq[r]
      BY <1>2, <2>0, <2>1, VouchStays DEF VouchInv
    <2>2. CASE rq'[r] # rq[r] /\ \E p \in Process : Gone(p)
      BY <1>0, <1>2, <2>2 DEF Gone, TypeOK, Over, Saving
    <2>3. CASE Asks(r)
      <3>1. CASE BeginCli(r) /\ rq'[r].proc = None
        BY <1>2, <3>1 DEF Vouched, Typed
      <3>2. CASE Continues(r)
        <4>1. Vouched(w)
          BY <1>2, <3>2 DEF Continues, VouchInv, Vouched
        <4> QED
          BY <2>0, <4>1, VouchStays
      <3> QED
        <4>1. rq'[r] # Over(r) /\ rq'[r].pc # "prove"
          BY <1>2 DEF Over, Saving
        <4> QED
          BY <1>0, <2>3, <3>1, <3>2, <4>1, AskCases
    <2> QED
      BY <1>0, <2>1, <2>2, <2>3, StepCases, AskCases
  <1>3. ASSUME NEW r \in Request
        PROVE  /\ rq'[r].pc = "new" => rq'[r].want = None
               /\ rq'[r].pc = "prove" => rq'[r].proc # None
    <2>1. CASE rq'[r] = rq[r]
      BY <2>1 DEF VouchInv, Typed
    <2>2. CASE rq'[r] = Over(r)
      BY <2>2 DEF Over
    <2>3. CASE Asks(r)
      BY <1>0, <2>2, <2>3, AskCases, NoneAssumption DEF Continues, Saving
    <2> QED
      BY <1>0, <2>1, <2>2, <2>3, StepCases, AskCases DEF Gone
  <1> QED
    BY <1>0, <1>1, <1>2, <1>3 DEF VouchInv, Vouched, Typed

\* Nothing unproven is ever saved, whatever fails, races or dies.
THEOREM ProvenOnlyHolds == Spec => []ProvenOnly
  <1>1. VouchInv => ProvenOnly
    BY DEF VouchInv, ProvenOnly, Vouched, Loaded, Valid, TypeOK, Name
  <1> QED
    BY <1>1, VouchInit, VouchStep, PTL DEF Spec

-----------------------------------------------------------------------------
(* One save at a time                                                      *)

\* At most one request is under way.
SoloInv ==
    /\ TypeOK
    /\ \A r, o \in Request : InFlight(r) /\ InFlight(o) => r = o

LEMMA SoloStep ==
    ASSUME "race" \notin Env, "late" \notin Env
    PROVE  SoloInv /\ [Next]_vars => SoloInv'
  <1> SUFFICES ASSUME SoloInv, [Next]_vars PROVE SoloInv'
    OBVIOUS
  <1>0. TypeOK /\ TypeOK'
    BY TypeStep DEF SoloInv
  <1>1. CASE UNCHANGED <<diskVars, rq>>
    BY <1>0, <1>1 DEF SoloInv, InFlight
  <1>2. CASE \E p \in Process : Gone(p)
    <2>1. \A r \in Request : InFlight(r)' => InFlight(r)
      BY <1>0, <1>2 DEF Gone, InFlight, Over, TypeOK
    <2> QED
      BY <1>0, <2>1 DEF SoloInv
  <1>3. ASSUME NEW r \in Request, Asks(r)
        PROVE  SoloInv'
    <2>1. \A o \in Request \ {r} : InFlight(o)' => InFlight(o)
      BY <1>0, <1>3, AskCases DEF InFlight
    <2>2. CASE InFlight(r)
      BY <1>0, <2>1, <2>2 DEF SoloInv
    <2>3. CASE ~InFlight(r)' \/ \A o \in Request : ~InFlight(o)
      BY <1>0, <2>1, <2>3 DEF SoloInv
    <2>4. CASE rq'[r] = Over(r)
      BY <2>3, <2>4 DEF Over, InFlight
    <2>5. CASE BeginCli(r) \/ \E p \in Process : Begin(r, p)
      BY <2>3, <2>5 DEF BeginCli, Begin, Alone
    <2>6. CASE Continues(r)
      BY <2>2, <2>6 DEF Continues, InFlight
    <2> QED
      BY <1>0, <1>3, <2>4, <2>5, <2>6, AskCases
  <1> QED
    BY <1>1, <1>2, <1>3, StepCases

\* Under one save at a time the temporary is the saver's own and whole when it is
\* renamed, and config.json is a pairing that nobody writes.
DiskInv ==
    /\ SoloInv
    /\ dir["config"] # None => /\ content[dir["config"]] \in Pairing
                               /\ dir["config"] # dir["tmp"]
    /\ \A r \in Request :
          /\ rq[r].pc \in {"new", "prove", "open"} =>
                r # dir["config"] /\ r # dir["tmp"]
          /\ rq[r].pc = "write" => /\ rq[r].fd = dir["tmp"] /\ dir["tmp"] # None
                                   /\ content[dir["tmp"]] = "empty"
          /\ rq[r].pc = "rename" => /\ dir["tmp"] # None
                                    /\ content[dir["tmp"]] = rq[r].want

LEMMA DiskInit == Init => DiskInv
  <1> SUFFICES ASSUME Init PROVE DiskInv
    OBVIOUS
  <1>1. SoloInv
    BY TypeInit DEF SoloInv, Init, InFlight
  <1>2. dir["tmp"] = None /\ dir["config"] \in {None, First}
    BY DEF Init, Name
  <1>3. dir["config"] = First => content[First] \in Pairing
    BY PairingAssumption, NoneAssumption DEF Init, Inode, Name
  <1> QED
    BY <1>1, <1>2, <1>3, RequestAssumption, NoneAssumption
    DEF DiskInv, Init, Inode

LEMMA DiskStep ==
    ASSUME "race" \notin Env, "late" \notin Env
    PROVE  DiskInv /\ [Next]_vars => DiskInv'
  <1> SUFFICES ASSUME DiskInv, [Next]_vars PROVE DiskInv'
    OBVIOUS
  <1>0. SoloInv /\ SoloInv' /\ TypeOK /\ TypeOK'
    BY SoloStep DEF DiskInv, SoloInv
  <1>1. CASE UNCHANGED <<diskVars, rq>>
    BY <1>0, <1>1 DEF DiskInv, diskVars
  <1>2. CASE \E p \in Process : Gone(p)
    <2>1. \A r \in Request : rq'[r] = rq[r] \/ rq'[r].pc = "done"
      BY <1>0, <1>2 DEF Gone, Over, TypeOK
    <2> QED
      BY <1>0, <1>2, <2>1 DEF DiskInv, diskVars, Gone
  <1>3. ASSUME NEW r \in Request, Asks(r)
        PROVE  DiskInv'
    <2>1. \A o \in Request \ {r} : rq'[o] = rq[o]
      BY <1>0, <1>3, AskCases
    <2>2. InFlight(r) => \A o \in Request \ {r} : rq[o].pc \in {"new", "done"}
      BY <1>0 DEF SoloInv, InFlight
    <2>3. dir["tmp"] \in Inode \cup {None} /\ dir["config"] \in Inode \cup {None}
      BY <1>0 DEF TypeOK, Name
    <2>4. CASE UNCHANGED diskVars /\ ~Open(r) /\ ~Write(r) /\ ~Rename(r)
      <3>1. rq'[r].pc \in {"new", "prove", "open"} =>
               rq[r].pc \in {"new", "prove", "open"}
        <4>1. CASE BeginCli(r) \/ \E p \in Process : Begin(r, p)
          BY <4>1 DEF BeginCli, Begin
        <4>2. CASE Prove(r)
          BY <4>2 DEF Prove
        <4>3. CASE Drain(r) \/ Send(r) \/ Refuse(r)
          BY <1>0, <4>3 DEF Drain, Send, Refuse, Step, End, Over, TypeOK
        <4> QED
          BY <1>3, <2>4, <4>1, <4>2, <4>3 DEF Asks, Handle, Save
      <3>2. rq'[r].pc \notin {"write", "rename"}
        BY <1>0, <1>3, <2>4
        DEF Asks, BeginCli, Begin, Handle, Save, Prove, Drain, Send, Refuse,
            Step, End, Over, TypeOK
      <3> QED
        BY <1>0, <2>1, <2>4, <3>1, <3>2 DEF DiskInv, diskVars
    <2>5. CASE Open(r)
      <3>1. PICK i \in Inode :
               /\ i = IF dir["tmp"] = None THEN r ELSE dir["tmp"]
               /\ dir' = [dir EXCEPT !["tmp"] = i]
               /\ content' = [content EXCEPT ![i] = "empty"]
               /\ rq' = [rq EXCEPT ![r].pc = "write", ![r].fd = i]
        BY <1>0, <2>5, OpenInode
      <3>2. i # None /\ i # dir["config"]
            /\ \A o \in Request \ {r} : rq[o].pc = "new" => o # i
        BY <2>3, <2>5, <3>1, NoneAssumption DEF DiskInv, Open
      <3>3. /\ dir'["tmp"] = i /\ dir'["config"] = dir["config"]
            /\ content'[i] = "empty"
            /\ \A j \in Inode \ {i} : content'[j] = content[j]
            /\ rq'[r].pc = "write" /\ rq'[r].fd = i
        BY <1>0, <3>1 DEF TypeOK, Name
      <3>4. \A o \in Request \ {r} : rq'[o].pc \in {"new", "done"}
        BY <2>1, <2>2, <2>5 DEF Open, InFlight
      <3> QED
        BY <1>0, <2>1, <2>3, <3>2, <3>3, <3>4 DEF DiskInv
    <2>6. CASE Write(r)
      <3>1. /\ rq[r].fd = dir["tmp"] /\ dir["tmp"] # None
            /\ content[dir["tmp"]] = "empty"
        BY <2>6 DEF Write, DiskInv
      <3>2. /\ content' = [content EXCEPT ![dir["tmp"]] = rq[r].want]
            /\ UNCHANGED dir
            /\ rq'[r].pc = "rename" /\ rq'[r].want = rq[r].want
        <4>1. PICK c \in {rq[r].want} \cup
                     (IF content[rq[r].fd] \in {"empty", rq[r].want}
                      THEN {} ELSE {"torn"}) :
                 content' = [content EXCEPT ![rq[r].fd] = c]
          BY <2>6 DEF Write
        <4>2. c = rq[r].want
          BY <3>1, <4>1
        <4>3. UNCHANGED dir /\ rq' = [rq EXCEPT ![r].pc = "rename"]
          BY <2>6 DEF Write, Step
        <4> QED
          BY <1>0, <3>1, <4>1, <4>2, <4>3 DEF TypeOK
      <3>3. \A o \in Request \ {r} : rq'[o].pc \in {"new", "done"}
        BY <2>1, <2>2, <2>6 DEF Write, InFlight
      <3> QED
        BY <1>0, <2>1, <2>3, <3>1, <3>2, <3>3 DEF DiskInv, TypeOK
    <2>7. CASE Rename(r)
      <3>1. rq'[r].pc \in {"drain", "done"}
        BY <1>0, <2>7 DEF Rename, Step, End, Over, TypeOK
      <3>2. \A o \in Request \ {r} : rq'[o].pc \in {"new", "done"}
        BY <2>1, <2>2, <2>7 DEF Rename, InFlight
      <3>3. CASE UNCHANGED diskVars
        BY <1>0, <2>1, <3>1, <3>2, <3>3 DEF DiskInv, diskVars
      <3>4. CASE ~UNCHANGED diskVars
        <4>1. /\ dir'["config"] = dir["tmp"] /\ dir'["tmp"] = None
              /\ dir["tmp"] # None
              /\ content'[dir["tmp"]] = content[dir["tmp"]]
          BY <1>0, <2>3, <2>7, <3>4 DEF Rename, Name, MayRename, TypeOK, DiskInv
        <4>2. content[dir["tmp"]] \in Pairing
          BY <1>0, <2>7 DEF Rename, DiskInv, TypeOK, InFlight
        <4> QED
          BY <1>0, <2>1, <2>3, <3>1, <3>2, <4>1, <4>2, NoneAssumption
          DEF DiskInv, Inode
      <3> QED
        BY <3>3, <3>4
    <2>8. CASE Refuse(r)
      <3>1. rq'[r].pc = "done"
        BY <1>0, <2>8 DEF Refuse, End, Over, TypeOK
      <3>2. \A o \in Request \ {r} : rq'[o].pc \in {"new", "done"}
        BY <2>1, <2>2, <2>8 DEF Refuse, InFlight, Saving
      <3>3. UNCHANGED dir
        BY <2>8 DEF Refuse
      <3>4. dir["config"] # None => content'[dir["config"]] = content[dir["config"]]
        BY <1>0, <2>3, <2>8 DEF Refuse, DiskInv, TypeOK
      <3> QED
        BY <1>0, <2>1, <3>1, <3>2, <3>3, <3>4 DEF DiskInv
    <2> QED
      BY <1>3, <2>4, <2>5, <2>6, <2>7, <2>8
      DEF Asks, BeginCli, Begin, Handle, Save, Prove, Drain, Send, Refuse, diskVars
  <1> QED
    BY <1>1, <1>2, <1>3, StepCases

\* While no two requests overlap, config.json is absent or a whole pairing,
\* whatever fails or dies while one is saved.
THEOREM ConfigWholeHolds ==
    ASSUME "race" \notin Env, "late" \notin Env
    PROVE  Spec => []ConfigWhole
  <1>1. DiskInv => ConfigWhole
    BY NoneAssumption DEF DiskInv, ConfigWhole, Loaded, Valid
  <1> QED
    BY <1>1, DiskInit, DiskStep, PTL DEF Spec

\* A rename that succeeds puts the pairing of its request on disk.
LEMMA RenameLoads ==
    ASSUME DiskInv, NEW r \in Request, Rename(r), MayRename
    PROVE  Loaded' = rq[r].want
  <1>0. TypeOK
    BY DEF DiskInv, SoloInv
  <1>1. dir["tmp"] \in Inode \cup {None} /\ dir["config"] \in Inode \cup {None}
    BY <1>0 DEF TypeOK, Name
  <1>2. /\ dir'["config"] = dir["tmp"] /\ dir["tmp"] # None
        /\ content'[dir["tmp"]] = rq[r].want
    BY <1>0, <1>1 DEF Rename, Name, MayRename, TypeOK, DiskInv
  <1>3. rq[r].want \in Pairing
    BY <1>0 DEF Rename, TypeOK, InFlight
  <1> QED
    BY <1>2, <1>3 DEF Loaded, Valid

\* The pairing on disk moves only when a save renames its own.
LEMMA LoadedMoves ==
    ASSUME DiskInv, [Next]_vars, Loaded' # Loaded
    PROVE  \E r \in Request : Rename(r) /\ Loaded' = rq[r].want
  <1>0. TypeOK
    BY DEF DiskInv, SoloInv
  <1>1. ~UNCHANGED diskVars
    BY DEF Loaded, Valid, diskVars
  <1>2. PICK r \in Request : Asks(r)
    BY <1>1, StepCases DEF Gone, diskVars
  <1>3. dir["tmp"] \in Inode \cup {None} /\ dir["config"] \in Inode \cup {None}
    BY <1>0 DEF TypeOK, Name
  <1>4. CASE Open(r)
    <2>1. PICK i \in Inode :
             /\ i = IF dir["tmp"] = None THEN r ELSE dir["tmp"]
             /\ dir' = [dir EXCEPT !["tmp"] = i]
             /\ content' = [content EXCEPT ![i] = "empty"]
      BY <1>0, <1>4, OpenInode
    <2>2. i # dir["config"]
      BY <1>4, <2>1 DEF Open, DiskInv
    <2>3. dir'["config"] = dir["config"]
      BY <1>0, <2>1 DEF TypeOK, Name
    <2> QED
      BY <1>0, <1>3, <2>1, <2>2, <2>3 DEF TypeOK, Loaded, Valid
  <1>5. CASE Write(r) \/ Refuse(r)
    <2>1. UNCHANGED dir
      BY <1>5 DEF Write, Refuse
    <2>2. dir["config"] # None => content'[dir["config"]] = content[dir["config"]]
      BY <1>0, <1>3, <1>5 DEF Write, Refuse, DiskInv, TypeOK
    <2> QED
      BY <2>1, <2>2 DEF Loaded, Valid
  <1>6. CASE Rename(r)
    <2>1. MayRename
      BY <1>1, <1>6 DEF Rename
    <2> QED
      BY <1>6, <2>1, RenameLoads
  <1> QED
    BY <1>1, <1>2, <1>4, <1>5, <1>6
    DEF Asks, BeginCli, Begin, Handle, Save, Prove, Drain, Send, diskVars

\* A dashboard request that is under way wants the facility the machine is at.
FacilityInv ==
    /\ DiskInv
    /\ \A r \in Request :
          rq[r].pc \in Saving \cup {"prove"} /\ ~Typed(r) /\ Loaded # None
             => FacilityOf[rq[r].want] = FacilityOf[Loaded]

LEMMA FacilityStep ==
    ASSUME "race" \notin Env, "late" \notin Env, "unread" \notin Env
    PROVE  FacilityInv /\ [Next]_vars => FacilityInv'
  <1> SUFFICES ASSUME FacilityInv, [Next]_vars,
                      NEW r \in Request, rq'[r].pc \in Saving \cup {"prove"},
                      ~Typed(r)', Loaded' # None
               PROVE  FacilityOf[rq'[r].want] = FacilityOf[Loaded']
    BY DiskStep DEF FacilityInv
  <1>0. DiskInv /\ DiskInv' /\ TypeOK
    BY DiskStep DEF FacilityInv, DiskInv, SoloInv
  <1>1. InFlight(r)'
    BY DEF InFlight, Saving
  <1>2. CASE Loaded' # Loaded
    <2>1. PICK o \in Request : Rename(o) /\ Loaded' = rq[o].want
      BY <1>0, <1>2, LoadedMoves
    <2>2. rq'[o].pc \in {"drain", "done"}
      BY <1>0, <2>1 DEF Rename, Step, End, Over, TypeOK
    <2>3. r # o /\ rq'[r] = rq[r]
      BY <1>0, <2>1, <2>2, AskCases DEF Saving, Asks, Handle, Save
    <2>4. InFlight(r) /\ InFlight(o)
      BY <1>1, <2>1, <2>3 DEF InFlight, Rename
    <2> QED
      BY <1>0, <2>3, <2>4 DEF DiskInv, SoloInv
  <1>3. CASE Loaded' = Loaded
    <2>1. CASE rq'[r] = rq[r]
      BY <1>3, <2>1 DEF FacilityInv, Typed
    <2>2. CASE rq'[r] = Over(r)
      BY <2>2 DEF Over, Saving
    <2>3. CASE Asks(r) /\ ~(rq'[r] = Over(r))
      <3>1. CASE Continues(r)
        BY <1>3, <3>1 DEF Continues, FacilityInv, Typed
      <3>2. CASE \E p \in Process : Begin(r, p)
        <4>1. PICK w \in Pairing :
                 /\ Loaded # None => FacilityOf[w] = FacilityOf[Loaded]
                 /\ rq'[r].want = w
          BY <1>0, <2>3, <3>2 DEF Begin, Reads, End, TypeOK
        <4> QED
          BY <1>3, <4>1
      <3> QED
        BY <1>0, <2>3, <3>1, <3>2, AskCases DEF Typed
    <2> QED
      BY <1>0, <2>1, <2>2, <2>3, StepCases, AskCases DEF Gone
  <1> QED
    BY <1>2, <1>3

\* While no two requests overlap and config.json can be read, a machine moves to
\* another facility only by an administrator's `pair`.
THEOREM FacilityStaysHolds ==
    ASSUME "race" \notin Env, "late" \notin Env, "unread" \notin Env
    PROVE  Spec => FacilityStays
  <1>1. Init => FacilityInv
    <2>1. Init => \A r \in Request : rq[r].pc = "new"
      BY DEF Init
    <2> QED
      BY <2>1, DiskInit DEF FacilityInv, Saving
  <1>2. FacilityInv /\ [Next]_vars => [KeepsFacility]_vars
    <2> SUFFICES ASSUME FacilityInv, [Next]_vars, Loaded # None, Loaded' # Loaded
                 PROVE  KeepsFacility
      BY DEF KeepsFacility
    <2>1. PICK r \in Request : Rename(r) /\ Loaded' = rq[r].want
      BY LoadedMoves DEF FacilityInv
    <2> QED
      BY <2>1 DEF FacilityInv, Rename, Saving, KeepsFacility
  <1> QED
    BY <1>1, <1>2, FacilityStep, PTL DEF Spec, FacilityStays

-----------------------------------------------------------------------------
(* What runs is what is saved                                              *)

\* The pairing a process will end up with when no more arrive.
Latest(p) == IF chan[p] # None THEN chan[p]
             ELSE IF pc[p] = "switch" THEN next[p] ELSE cfg[p]

\* A process in setup mode that waits for a pairing; it may have been unable to
\* read the one on disk.
Waiting(p) == pc[p] = "setup" /\ chan[p] = None

\* A request between its save and its place in the queue.
Queueing(r) == rq[r].pc \in {"drain", "send"}

\* The process that serves is on its way to the pairing on disk or waits in setup
\* mode, or the request that saved it is about to say so; nothing is queued elsewhere, and nobody
\* serves while an administrator's `pair` is under way.
RunInv ==
    /\ DiskInv /\ LockInv
    /\ \A r \in Request :
          /\ Queueing(r) => rq[r].want = Loaded /\ ~Typed(r)
          /\ InFlight(r) => IF Typed(r) THEN \A p \in Process : pc[p] = "off"
                            ELSE pc[rq[r].proc] \in Served
    /\ \A p \in Process :
          IF pc[p] \in Served
          THEN \/ Latest(p) = Loaded \/ Waiting(p)
               \/ \E r \in Request : Queueing(r) /\ rq[r].proc = p
          ELSE chan[p] = None

LEMMA RunInit == Init => RunInv
  <1>1. Init => /\ \A r \in Request : rq[r].pc = "new"
                /\ \A p \in Process : pc[p] = "off" /\ chan[p] = None
    BY DEF Init
  <1> QED
    BY <1>1, DiskInit, LockInit DEF RunInv, Queueing, InFlight, Served

\* A process's own steps.
LEMMA RunProcess ==
    ASSUME RunInv, DiskInv', LockInv', NEW p \in Process,
           UNCHANGED <<diskVars, rq>>,
           \/ Launch(p) \/ Stop(p) \/ Enter(p) \/ Loop(p) \/ Cycle(p)
           \/ CycleEnds(p) \/ PressForce(p) \/ TellSyncer(p),
           ~Gone(p), "late" \notin Env
    PROVE  RunInv'
  <1>0. TypeOK /\ TypeOK' /\ Loaded' = Loaded
    BY DEF RunInv, LockInv, Loaded, Valid, diskVars
  <1> USE <1>0 DEF TypeOK, lockVars, loopVars, syncerVars, pressVars
  <1> DEFINE Others == \A q \in Process \ {p} :
                /\ pc'[q] = pc[q] /\ chan'[q] = chan[q]
                /\ next'[q] = next[q] /\ cfg'[q] = cfg[q]
             Arrives == IF pc'[p] \in Served
                        THEN \/ /\ pc[p] \in Served /\ Latest(p)' = Latest(p)
                                /\ Waiting(p) => Waiting(p)'
                             \/ Latest(p)' = Loaded \/ Waiting(p)'
                        ELSE chan'[p] = None
             Serves == pc[p] \in Served => pc'[p] \in Served
  <1>1. /\ Others /\ Arrives /\ Serves
        /\ pc[p] = "off" => \/ \A r \in Request : ~(InFlight(r) /\ Typed(r))
                            \/ pc' = pc
    <2>1. CASE Launch(p)
      <3>1. Others /\ Serves /\ pc'[p] = "acquire" /\ chan'[p] = None
        BY <2>1 DEF Launch, RunInv, Served
      <3> QED
        BY <2>1, <3>1 DEF Launch, Served
    <2>2. CASE Acquire(p)
      <3>1. /\ Others /\ Serves /\ pc'[p] \in {"load", "off"} /\ chan'[p] = None
            /\ pc[p] # "off"
        BY <2>2 DEF Acquire, RunInv, Served
      <3> QED
        BY <3>1 DEF Served
    <2>3. CASE LoadConfig(p)
      <3>1. /\ Others /\ Serves /\ pc'[p] \in {"setup", "start"} /\ chan'[p] = None
            /\ pc'[p] = "start" => cfg'[p] = Loaded
            /\ pc[p] # "off"
        BY <2>3 DEF LoadConfig, Reads, RunInv, Served
      <3> QED
        BY <3>1 DEF Latest, Waiting
    <2>4. CASE Stop(p) \/ Enter(p) \/ Release(p)
      BY <2>4 DEF Stop, Enter, Release, Latest, Waiting, Served
    <2>5. CASE TakeFirst(p) \/ TakeNext(p)
      BY <2>5, NoneAssumption DEF TakeFirst, TakeNext, Latest, Waiting, Served
    <2>6. CASE StartSyncer(p)
      BY <2>6 DEF StartSyncer, Latest, Waiting, Served
    <2>7. CASE Switch(p)
      BY <2>7 DEF Switch, Latest, Waiting, Served
    <2>8. CASE Cycle(p) \/ CycleEnds(p) \/ PressForce(p) \/ TellSyncer(p)
      <3>1. UNCHANGED <<pc, chan, next, cfg>>
        BY <2>8 DEF Cycle, CycleByTimer, CycleByToken, RunReturns, CycleEnds,
                    PressForce, TellSyncer
      <3> QED
        BY <3>1 DEF RunInv, Latest, Waiting
    <2> QED
      BY <2>1, <2>2, <2>3, <2>4, <2>5, <2>6, <2>7, <2>8 DEF Loop, Return, Exit
  <1>2. \A q \in Process : pc'[q] \in Pcs /\ (pc[q] \in Served => pc'[q] \in Served)
    BY <1>1
  <1>3. ASSUME NEW r \in Request
        PROVE  /\ Queueing(r)' => rq'[r].want = Loaded' /\ ~Typed(r)'
               /\ InFlight(r)' => IF Typed(r)' THEN \A q \in Process : pc'[q] = "off"
                                  ELSE pc'[rq'[r].proc] \in Served
    <2>1. rq'[r] = rq[r] /\ (rq[r].proc # None => rq[r].proc \in Process)
      OBVIOUS
    <2>2. CASE InFlight(r) /\ Typed(r)
      <3>1. \A q \in Process : pc[q] = "off"
        BY <2>2 DEF RunInv
      <3>2. pc' = pc
        BY <1>1, <2>2, <3>1
      <3> QED
        BY <2>1, <2>2, <3>1, <3>2 DEF RunInv, Queueing, Typed, InFlight
    <2>3. CASE ~(InFlight(r) /\ Typed(r))
      BY <1>2, <2>1, <2>3 DEF RunInv, Queueing, Typed, InFlight
    <2> QED
      BY <2>2, <2>3
  <1>4. ASSUME NEW q \in Process
        PROVE  IF pc'[q] \in Served
               THEN \/ Latest(q)' = Loaded' \/ Waiting(q)'
                    \/ \E r \in Request : Queueing(r)' /\ rq'[r].proc = q
               ELSE chan'[q] = None
    <2>1. CASE q = p
      BY <1>1, <2>1 DEF RunInv, Queueing
    <2>2. CASE q # p
      BY <1>0, <1>1, <2>2 DEF RunInv, Queueing, Latest, Waiting
    <2> QED
      BY <2>1, <2>2
  <1> QED
    BY <1>3, <1>4 DEF RunInv

\* The end of a process.
LEMMA RunGone ==
    ASSUME RunInv, DiskInv', LockInv', NEW p \in Process, Gone(p)
    PROVE  RunInv'
  <1>0. TypeOK /\ Loaded' = Loaded
    BY DEF RunInv, LockInv, Loaded, Valid, diskVars, Gone
  <1>1. /\ pc'[p] = "off" /\ chan'[p] = None
        /\ \A q \in Process \ {p} :
              /\ pc'[q] = pc[q] /\ chan'[q] = chan[q]
              /\ next'[q] = next[q] /\ cfg'[q] = cfg[q]
    BY <1>0 DEF Gone, TypeOK
  <1>2. \A r \in Request : /\ rq[r].proc = p => rq'[r].pc = "done"
                           /\ rq[r].proc # p => rq'[r] = rq[r]
    BY <1>0 DEF Gone, Over, TypeOK
  <1>3. ASSUME NEW r \in Request
        PROVE  /\ Queueing(r)' => rq'[r].want = Loaded' /\ ~Typed(r)'
               /\ InFlight(r)' => IF Typed(r)' THEN \A q \in Process : pc'[q] = "off"
                                  ELSE pc'[rq'[r].proc] \in Served
    <2>1. rq[r].proc \in Process \cup {None}
      BY <1>0 DEF TypeOK
    <2>2. CASE rq[r].proc = p
      BY <1>2, <2>2 DEF Queueing, InFlight, Typed
    <2>3. CASE rq[r].proc # p
      BY <1>0, <1>1, <1>2, <2>1, <2>3 DEF RunInv, Queueing, InFlight, Typed
    <2> QED
      BY <2>2, <2>3
  <1>4. ASSUME NEW q \in Process
        PROVE  IF pc'[q] \in Served
               THEN \/ Latest(q)' = Loaded' \/ Waiting(q)'
                    \/ \E r \in Request : Queueing(r)' /\ rq'[r].proc = q
               ELSE chan'[q] = None
    <2>1. CASE q = p
      BY <1>1, <2>1 DEF Served
    <2>2. CASE q # p
      <3>1. IF pc[q] \in Served
            THEN \/ Latest(q) = Loaded \/ Waiting(q)
                 \/ \E r \in Request : Queueing(r) /\ rq[r].proc = q
            ELSE chan[q] = None
        BY DEF RunInv
      <3>2. Latest(q)' = Latest(q) /\ Waiting(q)' = Waiting(q)
        BY <1>1, <2>2 DEF Latest, Waiting
      <3>3. \A r \in Request : rq[r].proc = q => rq'[r] = rq[r]
        BY <1>2, <2>2
      <3> QED
        BY <1>0, <1>1, <2>2, <3>1, <3>2, <3>3 DEF Queueing
    <2> QED
      BY <2>1, <2>2
  <1> QED
    BY <1>3, <1>4 DEF RunInv

\* A step of a request.
LEMMA RunAsk ==
    ASSUME RunInv, DiskInv', LockInv', NEW r \in Request, Asks(r),
           "late" \notin Env
    PROVE  RunInv'
  <1>0. TypeOK /\ DiskInv /\ UNCHANGED <<pc, next, cfg>>
    BY RequestElsewhere DEF RunInv, LockInv, lockVars, loopVars
  <1>1. \A o \in Request \ {r} : rq'[o] = rq[o]
    BY <1>0, AskCases
  <1>2. InFlight(r) => \A o \in Request \ {r} : ~InFlight(o)
    BY <1>0 DEF DiskInv, SoloInv
  <1>3. \A q, p \in Process : pc[q] \in Served /\ pc[p] \in Served => q = p
    BY <1>0 DEF RunInv, LockInv, Served
  <1>4. \A o \in Request : Queueing(o) => InFlight(o)
    BY DEF Queueing, InFlight
  <1>5. CASE UNCHANGED chan /\ Loaded' = Loaded /\ ~Queueing(r) /\ ~Queueing(r)'
    <2>1. InFlight(r)' => IF Typed(r)' THEN \A q \in Process : pc'[q] = "off"
                          ELSE pc'[rq'[r].proc] \in Served
      <3>1. CASE rq'[r] = Over(r)
        BY <3>1 DEF Over, InFlight
      <3>2. CASE BeginCli(r) /\ rq'[r].proc = None
        BY <1>0, <3>2 DEF BeginCli, NoAgent, Typed
      <3>3. CASE \E p \in Process : Begin(r, p) /\ rq'[r].proc = p
        BY <1>0, <3>3, NoneAssumption DEF Begin, Typed
      <3>4. CASE Continues(r)
        BY <1>0, <3>4 DEF Continues, RunInv, InFlight, Typed
      <3> QED
        BY <1>0, <3>1, <3>2, <3>3, <3>4, AskCases
    <2>2. ASSUME NEW o \in Request, o # r
          PROVE  /\ Queueing(o)' => rq'[o].want = Loaded' /\ ~Typed(o)'
                 /\ InFlight(o)' => IF Typed(o)' THEN \A q \in Process : pc'[q] = "off"
                                    ELSE pc'[rq'[o].proc] \in Served
      BY <1>0, <1>1, <1>5, <2>2 DEF RunInv, Queueing, InFlight, Typed
    <2>3. ASSUME NEW q \in Process
          PROVE  IF pc'[q] \in Served
                 THEN \/ Latest(q)' = Loaded' \/ Waiting(q)'
                      \/ \E o \in Request : Queueing(o)' /\ rq'[o].proc = q
                 ELSE chan'[q] = None
      BY <1>0, <1>1, <1>5 DEF RunInv, Queueing, Latest, Waiting
    <2> QED
      BY <1>5, <2>1, <2>2, <2>3 DEF RunInv
  <1>6. CASE Rename(r) /\ MayRename /\ ~Typed(r)
    <2>1. Loaded' = rq[r].want /\ InFlight(r) /\ chan' = chan
      BY <1>0, <1>6, RenameLoads DEF Rename, InFlight
    <2>2. rq'[r].pc = "drain" /\ rq'[r].want = rq[r].want /\ rq'[r].proc = rq[r].proc
      BY <1>0, <1>6 DEF Rename, Step, TypeOK
    <2>3. rq[r].proc \in Process /\ pc[rq[r].proc] \in Served
      BY <1>0, <1>6, <2>1 DEF RunInv, Typed, TypeOK
    <2>4. \A o \in Request \ {r} : ~InFlight(o)' /\ ~Queueing(o)'
      BY <1>1, <1>2, <1>4, <2>1 DEF InFlight, Queueing
    <2>5. \A q \in Process : pc[q] \in Served => q = rq[r].proc
      BY <1>3, <2>3
    <2> QED
      BY <1>0, <1>6, <2>1, <2>2, <2>3, <2>4, <2>5
      DEF RunInv, Queueing, Typed, InFlight
  <1>7. CASE Rename(r) /\ MayRename /\ Typed(r)
    <2>1. /\ InFlight(r) /\ chan' = chan /\ rq'[r].pc = "done"
      BY <1>0, <1>7 DEF Rename, InFlight, End, Over, TypeOK
    <2>2. \A q \in Process : pc[q] \notin Served
      BY <1>7, <2>1 DEF RunInv, Served
    <2>3. \A o \in Request : ~InFlight(o)' /\ ~Queueing(o)'
      BY <1>1, <1>2, <1>4, <2>1 DEF InFlight, Queueing
    <2> QED
      BY <1>0, <2>1, <2>2, <2>3 DEF RunInv
  <1>8. CASE Drain(r) \/ Send(r)
    <2>0. PICK p \in Process : p = rq[r].proc
      BY <1>0, <1>8 DEF Drain, Send, Queueing, RunInv, Typed, TypeOK
    <2>1. /\ Queueing(r) /\ InFlight(r) /\ pc[p] \in Served
          /\ rq[r].want = Loaded /\ ~Typed(r) /\ Loaded \in Pairing
          /\ Loaded' = Loaded
      BY <1>0, <1>8, <2>0
      DEF Drain, Send, Queueing, InFlight, RunInv, Typed, TypeOK, Loaded, Valid, diskVars
    <2>2. \A o \in Request \ {r} : ~InFlight(o)' /\ ~Queueing(o)'
      BY <1>1, <1>2, <1>4, <2>1 DEF InFlight, Queueing
    <2>3. \A q \in Process \ {p} : pc[q] \notin Served /\ chan'[q] = None
      <3>1. \A q \in Process \ {p} : pc[q] \notin Served /\ chan[q] = None
        BY <1>3, <2>1 DEF RunInv
      <3> QED
        BY <1>0, <1>8, <2>0, <3>1 DEF Drain, Send, TypeOK
    <2>4. CASE Drain(r)
      <3>1. rq'[r].pc = "send" /\ rq'[r].want = rq[r].want /\ rq'[r].proc = p
        BY <1>0, <2>0, <2>4 DEF Drain, Step, TypeOK
      <3> QED
        BY <1>0, <2>0, <2>1, <2>2, <2>3, <3>1 DEF RunInv, Queueing, Typed, InFlight
    <2>5. CASE Send(r)
      <3>1. rq'[r].pc = "done" /\ chan'[p] = Loaded
        BY <1>0, <2>0, <2>1, <2>5 DEF Send, End, Over, TypeOK
      <3>2. Latest(p)' = Loaded'
        BY <2>1, <3>1, NoneAssumption DEF Latest
      <3> QED
        BY <1>0, <2>1, <2>2, <2>3, <3>1, <3>2 DEF RunInv, Queueing, InFlight
    <2> QED
      BY <1>8, <2>4, <2>5
  <1>9. CASE ~(Rename(r) /\ MayRename) /\ ~Drain(r) /\ ~Send(r)
    <2>1. UNCHANGED chan
      BY <1>9 DEF Asks, BeginCli, Begin, Handle, Save, Prove, Open, Write, Rename,
                  Refuse
    <2>2. Loaded' = Loaded
      <3>1. ASSUME NEW o \in Request, Rename(o), Loaded' # Loaded
            PROVE  FALSE
        <4>1. CASE o = r
          BY <1>9, <3>1, <4>1 DEF Rename, Loaded, Valid, diskVars
        <4>2. CASE o # r
          <5>1. rq'[o] # rq[o]
            BY <1>0, <3>1 DEF Rename, Step, End, Over, TypeOK
          <5> QED
            BY <1>1, <4>2, <5>1
        <4> QED
          BY <4>1, <4>2
      <3> QED
        BY <1>0, <3>1, LoadedMoves DEF Next, Asks, vars
    <2>3. ~Queueing(r) /\ ~Queueing(r)'
      <3>1. CASE BeginCli(r)
        BY <1>0, <3>1 DEF BeginCli, Queueing, TypeOK
      <3>2. CASE \E p \in Process : Begin(r, p)
        BY <1>0, <3>2 DEF Begin, End, Over, Queueing, TypeOK
      <3>3. CASE Prove(r) \/ Open(r) \/ Write(r) \/ Refuse(r) \/ Rename(r)
        <4>1. ~Queueing(r)
          BY <3>3 DEF Prove, Open, Write, Refuse, Rename, Queueing, Saving
        <4>2. CASE Prove(r) \/ Write(r)
          BY <1>0, <4>2 DEF Prove, Write, Step, End, Over, TypeOK, Queueing
        <4>3. CASE Open(r)
          <5>1. PICK i \in Inode : rq' = [rq EXCEPT ![r].pc = "write", ![r].fd = i]
            BY <1>0, <4>3, OpenInode
          <5> QED
            BY <1>0, <4>1, <5>1 DEF TypeOK, Queueing
        <4>4. CASE Refuse(r) \/ Rename(r)
          <5>1. End(r)
            BY <1>9, <4>4 DEF Refuse, Rename
          <5> QED
            BY <1>0, <4>1, <5>1 DEF End, Over, TypeOK, Queueing
        <4> QED
          BY <3>3, <4>1, <4>2, <4>3, <4>4
      <3> QED
        BY <1>9, <3>1, <3>2, <3>3 DEF Asks, Handle, Save
    <2> QED
      BY <1>5, <2>1, <2>2, <2>3
  <1> QED
    BY <1>6, <1>7, <1>8, <1>9

LEMMA RunStep ==
    ASSUME "race" \notin Env, "late" \notin Env, "force" \notin Env
    PROVE  RunInv /\ [Next]_vars => RunInv'
  <1> SUFFICES ASSUME RunInv, [Next]_vars PROVE RunInv'
    OBVIOUS
  <1>0. DiskInv' /\ LockInv'
    BY DiskStep, LockStep DEF RunInv
  <1>1. CASE UNCHANGED vars
    BY <1>0, <1>1
    DEF vars, lockVars, loopVars, diskVars, RunInv, Queueing, Typed, InFlight,
        Latest, Waiting, Loaded
  <1>2. ASSUME NEW p \in Process, Gone(p) PROVE RunInv'
    BY <1>0, <1>2, RunGone
  <1>3. ASSUME NEW r \in Request, Asks(r) PROVE RunInv'
    BY <1>0, <1>3, RunAsk
  <1>4. ASSUME NEW p \in Process, ~Gone(p),
               \/ Launch(p) \/ Stop(p) \/ Enter(p) \/ Loop(p) \/ Cycle(p)
               \/ CycleEnds(p) \/ PressForce(p) \/ TellSyncer(p)
        PROVE  RunInv'
    <2>1. UNCHANGED <<diskVars, rq>>
      BY <1>4
      DEF Launch, Stop, Enter, Loop, Acquire, LoadConfig, Return, TakeFirst,
          StartSyncer, TakeNext, Switch, Release, Exit, Cycle, CycleByTimer,
          CycleByToken, CycleEnds, RunReturns, PressForce, TellSyncer
    <2> QED
      BY <1>0, <1>4, <2>1, RunProcess
  <1> QED
    BY <1>1, <1>2, <1>3, <1>4 DEF Next, Crash, Asks

\* While no two requests overlap and nobody runs `force`, a loop that has caught
\* up runs the pairing a restart would load.
THEOREM RunsSavedHolds ==
    ASSUME "race" \notin Env, "late" \notin Env, "force" \notin Env
    PROVE  Spec => []RunsSaved
  <1>1. RunInv => RunsSaved
    BY DEF RunInv, RunsSaved, Quiet, Latest, Waiting, Queueing, InFlight, Served
  <1> QED
    BY <1>1, RunInit, RunStep, PTL DEF Spec

-----------------------------------------------------------------------------
(* Each process runs its syncers one after the other                       *)

\* A process has a syncer only after it started one, and the next one starts
\* from nothing; whoever presses Force found a process that serves.
SyncerInv ==
    /\ TypeOK
    /\ \A p \in Process :
          /\ pc[p] \in {"off", "acquire", "load", "setup", "start"}
                => run[p] = "done"
          /\ pc[p] \in {"off", "acquire", "load"}
                => ~applied[p] /\ ~token[p] /\ ~press[p]

LEMMA SyncerInit == Init => SyncerInv
  BY TypeInit DEF Init, SyncerInv

LEMMA SyncerStep == SyncerInv /\ [Next]_vars => SyncerInv'
  <1> SUFFICES ASSUME SyncerInv, [Next]_vars PROVE SyncerInv'
    OBVIOUS
  <1>0. TypeOK /\ TypeOK'
    BY TypeStep DEF SyncerInv
  <1> USE <1>0 DEF SyncerInv, TypeOK, lockVars, loopVars, syncerVars, pressVars
  <1>1. CASE UNCHANGED vars
    BY <1>1 DEF vars
  <1>2. ASSUME NEW p \in Process, Gone(p) PROVE SyncerInv'
    BY <1>2 DEF Gone
  <1>3. ASSUME NEW p \in Process, Launch(p) \/ Acquire(p) PROVE SyncerInv'
    BY <1>3 DEF Launch, Acquire
  <1>4. ASSUME NEW p \in Process, LoadConfig(p) PROVE SyncerInv'
    BY <1>2, <1>4 DEF LoadConfig
  <1>5. ASSUME NEW p \in Process, Stop(p) \/ TakeFirst(p) \/ TakeNext(p)
        PROVE  SyncerInv'
    BY <1>5 DEF Stop, TakeFirst, TakeNext
  <1>6. ASSUME NEW p \in Process, StartSyncer(p) PROVE SyncerInv'
    BY <1>6 DEF StartSyncer
  <1>7. ASSUME NEW p \in Process, Switch(p) \/ Enter(p) \/ Release(p)
        PROVE  SyncerInv'
    BY <1>7 DEF Switch, Enter, Release
  <1>8. ASSUME NEW p \in Process, CycleByTimer(p) \/ CycleByToken(p)
                                  \/ CycleEnds(p) \/ RunReturns(p)
        PROVE  SyncerInv'
    <2>1. run[p] # "done" /\ pc[p] \notin {"off", "acquire", "load"}
      BY <1>8 DEF CycleByTimer, CycleByToken, CycleEnds, RunReturns
    <2> QED
      BY <1>8, <2>1 DEF CycleByTimer, CycleByToken, CycleEnds, RunReturns
  <1>9. ASSUME NEW p \in Process, PressForce(p) \/ TellSyncer(p)
        PROVE  SyncerInv'
    BY <1>9 DEF PressForce, TellSyncer, Served
  <1>10. ASSUME NEW r \in Request, Asks(r) PROVE SyncerInv'
    BY <1>10, RequestElsewhere
  <1> QED
    BY <1>1, <1>2, <1>3, <1>4, <1>5, <1>6, <1>7, <1>8, <1>9, <1>10
    DEF Next, Crash, Loop, Cycle, Return, Exit, Asks

\* What RunLoop sees of a process.
Seen(p) == <<pc[p] # "off", run[p], applied[p], token[p]>>

LEMMA SeenStays ==
    ASSUME NEW q \in Process, UNCHANGED Seen(q)
    PROVE  [Syncers(q)!Next]_(Syncers(q)!vars)
  BY DEF Seen, Syncers!vars

\* A step of a process, or of its syncer.
Does(p) ==
    \/ Launch(p) \/ Crash(p) \/ Stop(p) \/ Enter(p)
    \/ Loop(p) \/ Cycle(p) \/ CycleEnds(p)
    \/ PressForce(p) \/ TellSyncer(p)

\* It is none of the others' business.
LEMMA OthersUnseen ==
    ASSUME TypeOK, NEW p \in Process, NEW q \in Process, p # q, Does(p)
    PROVE  UNCHANGED Seen(q)
  <1> USE DEF Seen, TypeOK, lockVars, syncerVars
  <1>1. CASE Gone(p)
    BY <1>1 DEF Gone
  <1>2. CASE Launch(p) \/ Acquire(p) \/ LoadConfig(p) \/ Stop(p)
    BY <1>1, <1>2 DEF Launch, Acquire, LoadConfig, Stop
  <1>3. CASE TakeFirst(p) \/ StartSyncer(p) \/ TakeNext(p) \/ Switch(p)
             \/ Enter(p) \/ Release(p)
    BY <1>3 DEF TakeFirst, StartSyncer, TakeNext, Switch, Enter, Release
  <1>4. CASE CycleByTimer(p) \/ CycleByToken(p) \/ CycleEnds(p)
             \/ RunReturns(p) \/ PressForce(p) \/ TellSyncer(p)
    BY <1>4 DEF CycleByTimer, CycleByToken, CycleEnds, RunReturns, PressForce,
                TellSyncer
  <1> QED
    BY <1>1, <1>2, <1>3, <1>4
    DEF Does, Crash, Loop, Cycle, Return, Exit

\* Its own syncer moves as RunLoop says.
LEMMA OwnTurn ==
    ASSUME SyncerInv, NEW p \in Process, Does(p)
    PROVE  [Syncers(p)!Next]_(Syncers(p)!vars)
  <1> USE DEF SyncerInv, TypeOK, lockVars, syncerVars
  <1>1. ASSUME Gone(p), pc[p] # "off"
        PROVE  Syncers(p)!Next
    BY <1>1 DEF Gone, Syncers!Next, Syncers!Dies
  <1>2. CASE Launch(p)
    BY <1>2 DEF Launch, Syncers!Next, Syncers!Launch
  <1>3. CASE Acquire(p)
    <2>1. CASE holder = None
      BY <1>3, <2>1, SeenStays DEF Acquire, Seen
    <2>2. CASE holder # None
      BY <1>3, <2>2 DEF Acquire, Syncers!Next, Syncers!Dies
    <2> QED
      BY <2>1, <2>2
  <1>4. CASE StartSyncer(p)
    <2>1. /\ pc[p] = "start" /\ pc'[p] # "off" /\ run[p] = "done"
          /\ run'[p] = "select" /\ applied'[p] = FALSE
          /\ token'[p] \in BOOLEAN
      BY <1>4 DEF StartSyncer
    <2> QED
      BY <2>1 DEF Syncers!Next, Syncers!Start
  <1>5. CASE CycleByTimer(p)
    BY <1>5 DEF CycleByTimer, Syncers!Next, Syncers!CycleByTimer
  <1>6. CASE CycleByToken(p)
    BY <1>6 DEF CycleByToken, Syncers!Next, Syncers!CycleByToken
  <1>7. CASE CycleEnds(p)
    BY <1>7 DEF CycleEnds, Syncers!Next, Syncers!CycleEnds
  <1>8. CASE RunReturns(p)
    BY <1>8 DEF RunReturns, Syncers!Next, Syncers!Returns
  <1>9. CASE TellSyncer(p)
    BY <1>9 DEF TellSyncer, Syncers!Next, Syncers!Told
  <1>10. CASE LoadConfig(p) /\ ~Gone(p)
    BY <1>10, SeenStays DEF LoadConfig, Seen
  <1>11. CASE Stop(p) \/ TakeFirst(p) \/ TakeNext(p) \/ Switch(p) \/ Enter(p)
              \/ Release(p) \/ PressForce(p)
    BY <1>11, SeenStays
    DEF Stop, TakeFirst, TakeNext, Switch, Enter, Release, PressForce, Seen,
        Served
  <1> QED
    BY <1>1, <1>2, <1>3, <1>4, <1>5, <1>6, <1>7, <1>8, <1>9, <1>10, <1>11
    DEF Does, Crash, Loop, Cycle, Return, Exit, LoadConfig

LEMMA Turns ==
    ASSUME SyncerInv, [Next]_vars
    PROVE  \A q \in Process : [Syncers(q)!Next]_(Syncers(q)!vars)
  <1> SUFFICES ASSUME NEW q \in Process
               PROVE  [Syncers(q)!Next]_(Syncers(q)!vars)
    OBVIOUS
  <1>1. ASSUME NEW p \in Process, Does(p)
        PROVE  [Syncers(q)!Next]_(Syncers(q)!vars)
    BY <1>1, OthersUnseen, SeenStays, OwnTurn DEF SyncerInv
  <1>2. ASSUME NEW r \in Request, Asks(r)
        PROVE  [Syncers(q)!Next]_(Syncers(q)!vars)
    BY <1>2, RequestElsewhere, SeenStays DEF Seen, lockVars, syncerVars
  <1>3. CASE UNCHANGED vars
    BY <1>3, SeenStays DEF Seen, vars, lockVars, syncerVars
  <1> QED
    BY <1>1, <1>2, <1>3 DEF Next, Does, Asks

\* Every process of the machine implements RunLoop, whatever is paired, pressed,
\* stopped and killed around it: its syncers follow one another, and a re-pair or
\* a stop never cuts off a cycle.
THEOREM RunsLoopsHolds == Spec => RunsLoops
  <1>1. Init => \A p \in Process : Syncers(p)!Init
    BY DEF Init, Syncers!Init
  <1>2. SyncerInv /\ [Next]_vars
           => [\A p \in Process : [Syncers(p)!Next]_(Syncers(p)!vars)]_vars
    BY Turns
  <1> QED
    BY <1>1, <1>2, SyncerInit, SyncerStep, PTL DEF Spec, RunsLoops
=============================================================================
