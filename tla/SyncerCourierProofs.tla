------------------------- MODULE SyncerCourierProofs -------------------------
(***************************************************************************)
(* The core loop implements Courier, for every set of desired states that  *)
(* an observer of the gate can tell apart: in full mode through every      *)
(* failure, in delta mode where no step after the commit is lost.          *)
(***************************************************************************)
EXTENDS SyncerCourier, SyncerDeltaProofs

\* A site with a consume command where no state comes back; and every state
\* lets somebody in, and no two let in the same.
ToldApart ==
    /\ HasConsume
    /\ "revert" \notin Env
    /\ \A s \in Desired : Tells(s) => Effective(s) # {}
    /\ \A s, t \in Desired :
          Tells(s) /\ Tells(t) /\ Effective(s) = Effective(t) => s = t

\* In full mode, trials and stubs aside, where no killed command passes for none.
FullSite ==
    /\ ToldApart
    /\ Windows \/ "kill" \notin Env
    /\ \A s \in Desired :
          s.format.mode \in {"stub", "test"} \/ FullFormat(s.format)

\* In delta mode, edits of the format included, where nobody forces and nothing
\* comes between a commit and the end of its consume.
ExactSite == ToldApart /\ DeltaSite /\ NoForce

-----------------------------------------------------------------------------
(* Positions in an order                                                   *)

\* No state appears twice.
Distinct(order) ==
    \A i, j \in 1..Len(order) : order[i] = order[j] => i = j

\* A gate, and a file, at a position of the order.
GateAt(order, rows, g) ==
    IF g = 0 THEN rows = {}
             ELSE Tells(order[g]) /\ rows = Effective(order[g])

FileAt(order, f, i) ==
    /\ f.format.mode # "delta"
    /\ f.format.mode = "full"
          => i # 0 /\ FullFormat(order[i].format) /\ f = Image(order[i])

\* Where a gate is, is what the mapping finds.
LEMMA HeldIsPlace ==
    ASSUME ToldApart, NEW order \in Seq(Desired), Distinct(order), NEW rows,
           NEW g \in 0..Len(order), GateAt(order, rows, g)
    PROVE  Held(order, rows) = g
  <1>1. CASE g = 0
    BY <1>1 DEF GateAt, Held
  <1>2. CASE g # 0
    <2>1. g \in 1..Len(order) /\ g \in DOMAIN order /\ order[g] \in Desired
      BY <1>2
    <2>2. Tells(order[g]) /\ rows = Effective(order[g]) /\ rows # {}
      BY <1>2, <2>1 DEF GateAt, ToldApart
    <2>3. ASSUME NEW i \in DOMAIN order, Tells(order[i]),
                 Effective(order[i]) = rows
          PROVE  i = g
      <3>1. i \in 1..Len(order) /\ order[i] \in Desired
        OBVIOUS
      <3>2. order[i] = order[g]
        BY <2>1, <2>2, <2>3, <3>1 DEF ToldApart
      <3> QED
        BY <2>1, <3>1, <3>2 DEF Distinct
    <2>4. Holding(order, rows) = {g}
      BY <2>1, <2>2, <2>3 DEF Holding
    <2>5. (CHOOSE i \in Holding(order, rows) : TRUE) = g
      BY <2>4
    <2> QED
      BY <2>2, <2>4, <2>5 DEF Held
  <1> QED
    BY <1>1, <1>2

LEMMA PositionIsPlace ==
    ASSUME NEW order \in Seq(Desired), Distinct(order),
           NEW i \in 1..Len(order)
    PROVE  Position(order, order[i]) = i
  <1>1. i \in DOMAIN order
    OBVIOUS
  <1>2. \A j \in DOMAIN order : order[j] = order[i] => j = i
    BY DEF Distinct
  <1> QED
    BY <1>1, <1>2 DEF Position

\* Appending a new state moves nothing.
LEMMA AppendKeepsPlaces ==
    ASSUME NEW order \in Seq(Desired), Distinct(order), NEW s \in Desired,
           \A i \in 1..Len(order) : order[i] # s
    PROVE  /\ Distinct(Append(order, s))
           /\ Append(order, s) \in Seq(Desired)
           /\ Len(Append(order, s)) = Len(order) + 1
           /\ Append(order, s)[Len(order) + 1] = s
           /\ \A i \in 1..Len(order) : Append(order, s)[i] = order[i]
           /\ \A rows, g : g \in 0..Len(order) /\ GateAt(order, rows, g)
                              => GateAt(Append(order, s), rows, g)
           /\ \A f, g : g \in 0..Len(order) /\ FileAt(order, f, g)
                           => FileAt(Append(order, s), f, g)
  <1> DEFINE new == Append(order, s)
  <1>1. /\ new \in Seq(Desired) /\ Len(new) = Len(order) + 1
        /\ new[Len(order) + 1] = s
        /\ \A i \in 1..Len(order) : new[i] = order[i]
    OBVIOUS
  <1> HIDE DEF new
  <1>2. Distinct(new)
    BY <1>1 DEF Distinct
  <1>3. ASSUME NEW rows, NEW g \in 0..Len(order), GateAt(order, rows, g)
        PROVE  GateAt(new, rows, g)
    BY <1>1, <1>3 DEF GateAt
  <1>4. ASSUME NEW f, NEW g \in 0..Len(order), FileAt(order, f, g)
        PROVE  FileAt(new, f, g)
    BY <1>1, <1>4 DEF FileAt
  <1> QED
    BY <1>1, <1>2, <1>3, <1>4 DEF new

-----------------------------------------------------------------------------
(* What both kinds of site keep                                            *)

\* No state is published twice, the last one is the cloud's.
OrderInv ==
    /\ Distinct(published)
    /\ published # <<>>
    /\ cloud = published[Len(published)]

LEMMA OrderStep ==
    ASSUME ToldApart
    PROVE  TypeOK /\ OrderInv /\ [Next]_vars => OrderInv'
  <1> SUFFICES ASSUME TypeOK, OrderInv, [Next]_vars
               PROVE  OrderInv'
    OBVIOUS
  <1>1. CASE Publish
    <2>1. /\ cloud' \in Desired /\ cloud' \notin Published
          /\ published' = Append(published, cloud')
          /\ published \in Seq(Desired)
      BY <1>1 DEF Publish, ToldApart, TypeOK
    <2>2. \A i \in 1..Len(published) : published[i] # cloud'
      BY <2>1 DEF Published
    <2> QED
      BY <2>1, <2>2, AppendKeepsPlaces DEF OrderInv
  <1>2. CASE ~Publish
    <2>1. UNCHANGED <<cloud, published>>
      BY <1>2
      DEF Next, Cycle, Settle, ForceFullUpdate, GateReads, StragglerSends,
          Crash, TimerFires, TokenTaken, FetchFails, NotModified, Pull,
          RenderFails, Render, WriteFails, Land, Commit, Consume, Report,
          Finish, Panic, Fail, cloudVars, vars
    <2> QED
      BY <2>1 DEF OrderInv
  <1> QED
    BY <1>1, <1>2

\* The gate is at a position, and green is shown for what it holds.
OnCourse ==
    /\ TypeOK /\ HashInv /\ OrderInv
    /\ \E g \in 0..Len(published) : GateAt(published, gate, g)
    /\ Green /\ Tells(lastHash) => gate = Effective(lastHash)

\* A step that moves the gate at all moves it on.
MovesOn ==
    gate' # gate =>
        \E g, h \in 0..Len(published) :
            g < h /\ GateAt(published, gate, g) /\ GateAt(published, gate', h)

\* What a cycle carries on its way is no older than position i.
FetchedFrom(order, i) ==
    pc \in {"render", "land", "commit", "consume"} =>
        \E c \in 1..Len(order) : i <= c /\ st = order[c]

-----------------------------------------------------------------------------
(* On course, every step is a step of Courier or none                      *)

\* A green dashboard vouches for where the gate is.
LEMMA VouchedIsHeld ==
    ASSUME ToldApart, OnCourse
    PROVE  Vouched = 0 \/ (Vouched = Held(published, gate) /\ Green)
  <1>1. CASE ~(Green /\ Tells(lastHash))
    BY <1>1 DEF Vouched
  <1>2. CASE Green /\ Tells(lastHash)
    <2>1. /\ published \in Seq(Desired) /\ Distinct(published)
          /\ lastHash # None /\ lastHash \in Published
      BY <1>2 DEF OnCourse, TypeOK, OrderInv, HashInv, Green
    <2>2. PICK i \in 1..Len(published) : published[i] = lastHash
      BY <2>1 DEF Published
    <2>3. gate = Effective(lastHash)
      BY <1>2 DEF OnCourse
    <2>4. GateAt(published, gate, i) /\ i \in 0..Len(published)
      BY <1>2, <2>2, <2>3 DEF GateAt
    <2>5. Held(published, gate) = i
      BY <2>1, <2>4, HeldIsPlace
    <2>6. Position(published, lastHash) = i
      BY <2>1, <2>2, PositionIsPlace
    <2> QED
      BY <1>2, <2>5, <2>6 DEF Vouched
  <1> QED
    BY <1>1, <1>2

\* The same, after a step.
LEMMA VouchedIsHeldNext ==
    ASSUME ToldApart
    PROVE  OnCourse' =>
               (Vouched = 0 \/ (Vouched = Held(published, gate) /\ Green))'
  <1>1. OnCourse =>
            Vouched = 0 \/ (Vouched = Held(published, gate) /\ Green)
    BY VouchedIsHeld
  <1> QED
    BY <1>1, PTL

\* What neither publishes nor moves the gate claims or retracts.
LEMMA OthersClaim ==
    ASSUME ToldApart, OnCourse, OnCourse', UNCHANGED <<published, gate>>
    PROVE  [Promised!Next]_(Promised!vars)
  <1>1. Held(published, gate)' = Held(published, gate)
    BY DEF Held
  <1>2. \/ Vouched' = 0
        \/ Vouched' = Held(published, gate)
    BY <1>1, VouchedIsHeldNext
  <1>3. Vouched = 0 \/ Vouched = Held(published, gate)
    BY VouchedIsHeld
  <1> QED
    BY <1>1, <1>2, <1>3
    DEF Promised!Next, Promised!Claim, Promised!Retract, Promised!vars

\* What imports a file moves the gate forward, and not under a claim.
LEMMA ImportsDeliver ==
    ASSUME ToldApart, OnCourse, OnCourse', UNCHANGED published,
           Vouched' = Vouched, gate' # gate, MovesOn
    PROVE  Promised!Next
  <1>1. PICK g, h \in 0..Len(published) :
            g < h /\ GateAt(published, gate, g) /\ GateAt(published, gate', h)
    BY DEF MovesOn
  <1>2. published \in Seq(Desired) /\ Distinct(published)
    BY DEF OnCourse, TypeOK, OrderInv
  <1>3. Held(published, gate) = g /\ Held(published, gate') = h
    BY <1>1, <1>2, HeldIsPlace
  <1>4. h \in 1..Len(published) /\ Tells(published[h])
    BY <1>1, <1>2 DEF GateAt
  <1>5. Vouched = 0
    BY <1>1, <1>3, VouchedIsHeld, VouchedIsHeldNext
  <1> QED
    BY <1>1, <1>3, <1>4, <1>5 DEF Promised!Next, Promised!Deliver

\* Where the console publishes the gate stays, and what is claimed.
LEMMA PublishesAppend ==
    ASSUME ToldApart, OnCourse, OnCourse', Publish
    PROVE  Promised!Next
  <1>1. /\ cloud' \in Desired /\ cloud' \notin Published
        /\ published' = Append(published, cloud')
        /\ UNCHANGED <<gate, pc, ok, lastHash>>
    BY DEF Publish, ToldApart, gateVars
  <1>2. PICK g \in 0..Len(published) : GateAt(published, gate, g)
    BY DEF OnCourse
  <1>3. /\ published \in Seq(Desired) /\ Distinct(published)
        /\ published' \in Seq(Desired) /\ Distinct(published')
    BY DEF OnCourse, TypeOK, OrderInv
  <1>4. \A i \in 1..Len(published) : published[i] # cloud'
    BY <1>1, <1>3 DEF Published
  <1>5. GateAt(published', gate, g) /\ g \in 0..Len(published')
    BY <1>1, <1>2, <1>3, <1>4, AppendKeepsPlaces
  <1>6. Held(published, gate) = g /\ Held(published', gate') = g
    BY <1>1, <1>2, <1>3, <1>5, HeldIsPlace
  <1>7. Vouched' = Vouched
    <2>1. CASE ~(Green /\ Tells(lastHash))
      BY <1>1, <2>1 DEF Vouched, Green, Unlanded
    <2>2. CASE Green /\ Tells(lastHash)
      <3>1. lastHash \in Published /\ lastHash # None
        BY <2>2 DEF OnCourse, HashInv, Green
      <3>2. PICK i \in 1..Len(published) : published[i] = lastHash
        BY <1>3, <3>1 DEF Published
      <3>3. published'[i] = lastHash /\ i \in 1..Len(published')
        BY <1>1, <1>3, <1>4, <3>2, AppendKeepsPlaces
      <3>4. /\ Position(published, lastHash) = i
            /\ Position(published', lastHash) = i
        BY <1>3, <3>2, <3>3, PositionIsPlace
      <3> QED
        BY <1>1, <2>2, <3>4 DEF Vouched, Green, Unlanded
    <2> QED
      BY <2>1, <2>2
  <1> QED
    BY <1>1, <1>6, <1>7 DEF Promised!Next, Promised!Publish

LEMMA StepsAreCouriers ==
    ASSUME ToldApart, OnCourse, OnCourse', MovesOn, [Next]_vars
    PROVE  [Promised!Next]_(Promised!vars)
  <1>1. CASE Publish
    BY <1>1, PublishesAppend
  <1>2. CASE StragglerSends \/ Consume
    <2>1. /\ UNCHANGED <<published, ok, lastHash>>
          /\ UNCHANGED pc \/ (pc = "consume" /\ pc' = "report")
      BY <1>2 DEF StragglerSends, Consume, cloudVars, diskVars, cycleVars
    <2>2. Vouched' = Vouched
      <3>1. CASE UNCHANGED pc
        BY <2>1, <3>1 DEF Vouched, Green, Unlanded
      <3>2. CASE pc = "consume" /\ pc' = "report"
        BY <3>2 DEF Vouched, Green, Unlanded
      <3> QED
        BY <2>1, <3>1, <3>2
    <2> QED
      BY <2>1, <2>2, ImportsDeliver, OthersClaim
  <1>3. CASE ~Publish /\ ~StragglerSends /\ ~Consume
    <2>1. ~GateReads
      BY DEF GateReads, ToldApart
    <2>2. UNCHANGED <<published, gate>>
      BY <1>3, <2>1
      DEF Next, Cycle, Settle, ForceFullUpdate, Crash, TimerFires, TokenTaken,
          FetchFails, NotModified, Pull, RenderFails, Render, WriteFails, Land,
          Commit, Report, Finish, Panic, Fail, cloudVars, gateVars, vars
    <2> QED
      BY <2>2, OthersClaim
  <1> QED
    BY <1>1, <1>2, <1>3

LEMMA CourierStart == Init => Promised!Init
  <1> SUFFICES ASSUME Init PROVE Promised!Init
    OBVIOUS
  <1>1. published \in {<<s>> : s \in Desired} /\ gate = {} /\ ~Green
    BY DEF Init, Green
  <1> QED
    BY <1>1 DEF Promised!Init, Held, Vouched

-----------------------------------------------------------------------------
(* In full mode gate, file and cycle move along the order                  *)

\* Importing a file at a position moves the gate there, or nowhere.
LEMMA ImportMovesTo ==
    ASSUME NEW order \in Seq(Desired), NEW f \in File,
           NEW i \in 0..Len(order), FileAt(order, f, i),
           NEW rows, NEW g \in 0..Len(order), GateAt(order, rows, g)
    PROVE  \/ Import(f, rows) = rows
           \/ GateAt(order, Import(f, rows), i)
  <1>1. CASE f.format.mode = "full"
    <2>1. i # 0 /\ FullFormat(order[i].format) /\ f = Image(order[i])
      BY <1>1 DEF FileAt
    <2>2. order[i] \in State
      BY <2>1, DesiredStates
    <2>3. Import(f, rows) = Effective(order[i])
      BY <2>1, <2>2, ImageImport
    <2> QED
      BY <2>1, <2>3 DEF GateAt, Tells
  <1>2. CASE f.format.mode # "full"
    BY <1>2 DEF FileAt, Import
  <1> QED
    BY <1>1, <1>2

\* The gate is no further than the file, the file no further than the cycle.
Placed(g, f) ==
    /\ g \in 0..Len(published) /\ f \in 0..Len(published) /\ g <= f
    /\ GateAt(published, gate, g)
    /\ FileAt(published, file, f)
    /\ FetchedFrom(published, f)

PlaceInv == \E g, f \in 0..Len(published) : Placed(g, f)

CourierInv ==
    CarryInv /\ HashInv /\ GateInv /\ OrderInv /\ PlaceInv

\* What does not change the file, the gate or the order leaves them in place.
LEMMA PlaceStays ==
    ASSUME CourierInv, UNCHANGED <<published, gate, file>>,
           \/ pc' \notin {"render", "land", "commit", "consume"}
           \/ /\ pc \in {"render", "land", "commit", "consume"}
              /\ UNCHANGED st
    PROVE  PlaceInv'
  <1>1. PICK g, f \in 0..Len(published) : Placed(g, f)
    BY DEF CourierInv, PlaceInv
  <1>2. Placed(g, f)'
    BY <1>1 DEF Placed, FetchedFrom
  <1> QED
    BY <1>1, <1>2 DEF PlaceInv

\* The steps that may change where the gate is.
LEMMA ImportKeepsPlace ==
    ASSUME CourierInv, UNCHANGED <<published, file>>,
           gate' \in {gate, Import(file, gate)},
           \/ pc' \notin {"render", "land", "commit", "consume"}
           \/ UNCHANGED <<pc, st>>
    PROVE  PlaceInv' /\ MovesOn
  <1>1. PICK g, f \in 0..Len(published) : Placed(g, f)
    BY DEF CourierInv, PlaceInv
  <1>2. /\ published \in Seq(Desired) /\ file \in File
        /\ Distinct(published)
    BY DEF CourierInv, CarryInv, TypeOK, OrderInv
  <1>3. PICK h \in {g, f} : /\ GateAt(published, gate', h)
                            /\ gate' # gate => h = f
    <2>1. CASE gate' = gate
      BY <1>1, <2>1 DEF Placed
    <2>2. CASE gate' = Import(file, gate) /\ gate' # gate
      BY <1>1, <1>2, <2>2, ImportMovesTo DEF Placed
    <2> QED
      BY <2>1, <2>2
  <1>4. h \in 0..Len(published) /\ g <= h /\ h <= f
    BY <1>1, <1>2, <1>3 DEF Placed
  <1>5. Placed(h, f)'
    BY <1>1, <1>3, <1>4 DEF Placed, FetchedFrom
  <1>6. gate' # gate => g < h
    <2>1. h = g => gate' = gate
      BY <1>1, <1>3 DEF Placed, GateAt
    <2> QED
      BY <1>2, <1>4, <2>1
  <1> QED
    BY <1>1, <1>3, <1>4, <1>5, <1>6 DEF PlaceInv, MovesOn, Placed

\* Every step but Publish, a landing and an import leaves them in place.
LEMMA PlaceStep ==
    ASSUME FullSite
    PROVE  CourierInv /\ [Next]_vars => PlaceInv' /\ MovesOn
  <1> SUFFICES ASSUME CourierInv, [Next]_vars
               PROVE  PlaceInv' /\ MovesOn
    OBVIOUS
  <1>0. /\ TypeOK /\ CarryInv /\ OrderInv
        /\ published \in Seq(Desired) /\ Len(published) \in Nat
    BY DEF CourierInv, CarryInv, TypeOK
  <1>1. CASE Publish
    <2>1. /\ cloud' \in Desired /\ cloud' \notin Published
          /\ published' = Append(published, cloud')
      BY <1>1 DEF Publish, FullSite, ToldApart
    <2>2. \A i \in 1..Len(published) : published[i] # cloud'
      BY <1>0, <2>1 DEF Published
    <2>3. UNCHANGED <<gate, file, pc, st>>
      BY <1>1 DEF Publish, gateVars, diskVars, cycleVars
    <2>4. PICK g, f \in 0..Len(published) : Placed(g, f)
      BY DEF CourierInv, PlaceInv
    <2>5. /\ Len(published') = Len(published) + 1
          /\ \A i \in 1..Len(published) : published'[i] = published[i]
          /\ GateAt(published', gate, g) /\ FileAt(published', file, f)
      BY <1>0, <2>1, <2>2, <2>4, AppendKeepsPlaces DEF OrderInv, Placed
    <2>6. FetchedFrom(published, f)'
      BY <1>0, <2>3, <2>4, <2>5 DEF Placed, FetchedFrom
    <2>7. Placed(g, f)'
      BY <1>0, <2>3, <2>4, <2>5, <2>6 DEF Placed
    <2> QED
      BY <1>0, <2>3, <2>4, <2>5, <2>7 DEF PlaceInv, MovesOn
  <1>2. CASE Settle \/ ForceFullUpdate \/ UNCHANGED vars
    <2>1. UNCHANGED <<published, gate, file, pc, st>>
      BY <1>2 DEF Settle, ForceFullUpdate, vars, cloudVars, gateVars, diskVars,
                  cycleVars
    <2> QED
      BY <2>1, PlaceStays DEF MovesOn
  <1>3. CASE GateReads
    BY <1>3 DEF GateReads, FullSite, ToldApart
  <1>4. CASE StragglerSends
    <2>1. /\ UNCHANGED <<published, file, pc, st>>
          /\ gate' = Import(file, gate)
      BY <1>4 DEF StragglerSends, cloudVars, diskVars, cycleVars
    <2> QED
      BY <2>1, ImportKeepsPlace
  <1>5. CASE Crash \/ TimerFires \/ TokenTaken \/ FetchFails \/ NotModified
             \/ RenderFails \/ Render \/ WriteFails \/ Commit \/ Report
             \/ Finish \/ Panic
    <2>1. UNCHANGED <<published, gate, file>>
      BY <1>5
      DEF Crash, TimerFires, TokenTaken, FetchFails, NotModified, RenderFails,
          Render, WriteFails, Commit, Report, Finish, Panic, Fail, cloudVars,
          gateVars, diskVars
    <2>2. \/ pc' \notin {"render", "land", "commit", "consume"}
          \/ /\ pc \in {"render", "land", "commit", "consume"}
             /\ UNCHANGED st
      BY <1>5
      DEF Crash, TimerFires, TokenTaken, FetchFails, NotModified, RenderFails,
          Render, WriteFails, Commit, Report, Finish, Panic, Fail, cycleVars
    <2> QED
      BY <2>1, <2>2, PlaceStays DEF MovesOn
  <1>6. CASE Pull
    <2>1. UNCHANGED <<published, gate, file>> /\ st' = cloud
      BY <1>6 DEF Pull, cloudVars, gateVars, diskVars
    <2>2. PICK g, f \in 0..Len(published) : Placed(g, f)
      BY DEF CourierInv, PlaceInv
    <2>3. Len(published) \in 1..Len(published)
      BY <1>0 DEF OrderInv
    <2>4. FetchedFrom(published, f)'
      BY <1>0, <2>1, <2>2, <2>3 DEF FetchedFrom, OrderInv
    <2>5. Placed(g, f)'
      BY <2>1, <2>2, <2>4 DEF Placed
    <2> QED
      BY <2>1, <2>2, <2>5 DEF PlaceInv, MovesOn
  <1>7. CASE Land
    <2>1. /\ UNCHANGED <<published, gate, st>> /\ file' = data
          /\ pc = "land" /\ pc' = "commit"
      BY <1>7 DEF Land, cloudVars, gateVars, cycleVars
    <2>2. PICK g, f \in 0..Len(published) : Placed(g, f)
      BY DEF CourierInv, PlaceInv
    <2>3. PICK c \in 1..Len(published) : f <= c /\ st = published[c]
      BY <2>1, <2>2 DEF Placed, FetchedFrom
    <2>4. st \in Desired
      BY <1>0, <2>3
    <2>5. data = Image(st)
      BY <1>0, <2>1, <2>4 DEF CarryInv, Whole, FullSite, FullFormat
    <2>6. data.format = st.format
      BY <2>5 DEF Image, Rendered
    <2>7. FileAt(published, data, c)
      BY <2>3, <2>4, <2>5, <2>6 DEF FileAt, FullSite, FullFormat
    <2>8. g <= c
      BY <1>0, <2>2, <2>3 DEF Placed
    <2>9. Placed(g, c)'
      BY <1>0, <2>1, <2>2, <2>3, <2>7, <2>8 DEF Placed, FetchedFrom
    <2> QED
      BY <1>0, <2>1, <2>2, <2>3, <2>9 DEF PlaceInv, MovesOn
  <1>8. CASE Consume
    <2>1. UNCHANGED <<published, file>> /\ pc' = "report"
      BY <1>8 DEF Consume, cloudVars, diskVars
    <2>2. gate' \in {gate, Import(file, gate)}
      BY <1>8, ConsumeOutcome
    <2> QED
      BY <2>1, <2>2, ImportKeepsPlace
  <1> QED
    BY <1>1, <1>2, <1>3, <1>4, <1>5, <1>6, <1>7, <1>8 DEF Next, Cycle

LEMMA CourierInvInit == FullSite /\ Init => CourierInv
  <1> SUFFICES ASSUME FullSite, Init PROVE CourierInv
    OBVIOUS
  <1>1. CarryInv /\ HashInv /\ GateInv
    BY CarryInit, HashInit DEF Init, GateInv, GateMatches
  <1>2. Len(published) = 1 /\ published[1] = cloud /\ published # <<>>
    BY DEF Init
  <1>3. OrderInv
    BY <1>2 DEF OrderInv, Distinct
  <1>4. Placed(0, 0)
    BY <1>2 DEF Init, Placed, GateAt, FileAt, FetchedFrom, NoFile, NoFormat
  <1> QED
    BY <1>1, <1>2, <1>3, <1>4 DEF CourierInv, PlaceInv

LEMMA CourierInvStep ==
    ASSUME FullSite
    PROVE  CourierInv /\ [Next]_vars => CourierInv' /\ MovesOn
  <1> SUFFICES ASSUME CourierInv, [Next]_vars
               PROVE  CourierInv' /\ MovesOn
    OBVIOUS
  <1>1. (CarryInv /\ HashInv /\ GateInv)'
    BY CarryStep, HashStep, GateStep DEF CourierInv, FullSite, ToldApart
  <1>2. OrderInv' /\ PlaceInv' /\ MovesOn
    BY OrderStep, PlaceStep DEF CourierInv, CarryInv, FullSite
  <1> QED
    BY <1>1, <1>2 DEF CourierInv

LEMMA FullSiteIsOnCourse ==
    ASSUME FullSite
    PROVE  CourierInv => OnCourse
  <1> SUFFICES ASSUME CourierInv PROVE OnCourse
    OBVIOUS
  <1>1. \E g \in 0..Len(published) : GateAt(published, gate, g)
    BY DEF CourierInv, PlaceInv, Placed
  <1>2. ASSUME Green, Tells(lastHash)
        PROVE  gate = Effective(lastHash)
    <2>1. FullFormat(lastHash.format)
      BY <1>2 DEF Green, Tells, FullSite, FullFormat, DeltaFormat, CourierInv,
                  CarryInv, TypeOK
    <2> QED
      BY <1>2, <2>1 DEF Green, CourierInv, GateInv, GateMatches, FullSite,
                        ToldApart
  <1> QED
    BY <1>1, <1>2 DEF CourierInv, CarryInv, OnCourse

\* The agent implements Courier: through every failure, kill, panic and crash
\* the gate is moved forward along the published states, never under a green
\* dashboard, and green is only ever shown for where the gate is.
THEOREM DeliversHolds ==
    ASSUME FullSite
    PROVE  Spec => Delivers
  <1>1. Init => Promised!Init /\ CourierInv
    BY CourierStart, CourierInvInit
  <1>2. CourierInv /\ [Next]_vars => CourierInv' /\ MovesOn
    BY CourierInvStep
  <1>3. CourierInv => OnCourse
    BY FullSiteIsOnCourse
  <1>4. OnCourse /\ OnCourse' /\ MovesOn /\ [Next]_vars
            => [Promised!Next]_(Promised!vars)
    BY StepsAreCouriers DEF FullSite
  <1> QED
    BY <1>1, <1>2, <1>3, <1>4, PTL DEF Spec, Delivers, Promised!Spec

-----------------------------------------------------------------------------
(* In delta mode gate and cycle move along the order                       *)

\* The gate is no further than the cycle; the file in between only ever says
\* how to get from the one to the other.
ExactPlaced(g) ==
    /\ g \in 0..Len(published)
    /\ GateAt(published, gate, g)
    /\ FetchedFrom(published, g)

ExactCourse ==
    /\ CarryInv /\ HashInv /\ ExactInv /\ OrderInv
    /\ \E g \in 0..Len(published) : ExactPlaced(g)

\* Every step but Publish and an import leaves them in place.
LEMMA ExactPlaceStep ==
    ASSUME ExactSite
    PROVE  ExactCourse /\ [Next]_vars
              => (\E g \in 0..Len(published) : ExactPlaced(g))' /\ MovesOn
  <1> SUFFICES ASSUME ExactCourse, [Next]_vars
               PROVE  /\ (\E g \in 0..Len(published) : ExactPlaced(g))'
                      /\ MovesOn
    OBVIOUS
  <1>0. /\ TypeOK /\ OrderInv /\ AdmitsInv /\ AppliesFile /\ ~straggler
        /\ published \in Seq(Desired) /\ Len(published) \in Nat
        /\ SureSite /\ DeltaSite
    BY DEF ExactCourse, ExactInv, AdmitsInv, TypeOK, ExactSite, DeltaSite
  <1>1. PICK g \in 0..Len(published) : ExactPlaced(g)
    BY DEF ExactCourse
  <1>2. CASE Publish
    <2>1. /\ cloud' \in Desired /\ cloud' \notin Published
          /\ published' = Append(published, cloud')
      BY <1>2 DEF Publish, ExactSite, ToldApart
    <2>2. \A i \in 1..Len(published) : published[i] # cloud'
      BY <1>0, <2>1 DEF Published
    <2>3. UNCHANGED <<gate, pc, st>>
      BY <1>2 DEF Publish, gateVars, cycleVars
    <2>4. /\ Len(published') = Len(published) + 1
          /\ \A i \in 1..Len(published) : published'[i] = published[i]
          /\ GateAt(published', gate, g)
      BY <1>0, <1>1, <2>1, <2>2, AppendKeepsPlaces DEF OrderInv, ExactPlaced
    <2>5. FetchedFrom(published, g)'
      BY <1>0, <1>1, <2>3, <2>4 DEF ExactPlaced, FetchedFrom
    <2>6. ExactPlaced(g)'
      BY <1>0, <1>1, <2>3, <2>4, <2>5 DEF ExactPlaced
    <2> QED
      BY <1>0, <2>3, <2>4, <2>6 DEF MovesOn
  <1>3. CASE Pull
    <2>1. UNCHANGED <<published, gate>> /\ st' = cloud
      BY <1>3 DEF Pull, cloudVars, gateVars
    <2>2. Len(published) \in 1..Len(published)
      BY <1>0 DEF OrderInv
    <2>3. FetchedFrom(published, g)'
      BY <1>0, <1>1, <2>1, <2>2 DEF FetchedFrom, OrderInv
    <2>4. ExactPlaced(g)'
      BY <1>1, <2>1, <2>3 DEF ExactPlaced
    <2> QED
      BY <2>1, <2>4 DEF MovesOn
  <1>4. CASE Consume
    <2>1. /\ UNCHANGED published /\ pc = "consume" /\ pc' = "report"
      BY <1>4 DEF Consume, cloudVars
    <2>2. gate' = Import(data, gate)
      BY <1>0, <1>4, <2>1, SureSiteConsume DEF AppliesFile
    <2>3. gate' = Effective(st)
      BY <2>1, <2>2 DEF ExactCourse, ExactInv, Carrying
    <2>4. PICK c \in 1..Len(published) : g <= c /\ st = published[c]
      BY <1>1, <2>1 DEF ExactPlaced, FetchedFrom
    <2>5. Tells(st)
      <3>1. st \in Desired /\ st.format.mode # "stub"
        BY <1>0, <2>1 DEF TypeOK, AppliesFile, Carrying
      <3> QED
        BY <1>0, <3>1, DeltaSiteStates DEF Tells
    <2>6. GateAt(published, gate', c)
      BY <2>3, <2>4, <2>5 DEF GateAt
    <2>7. ExactPlaced(c)'
      BY <1>0, <2>1, <2>4, <2>6 DEF ExactPlaced, FetchedFrom
    <2>8. gate' # gate => g < c
      BY <1>0, <1>1, <2>4, <2>6 DEF ExactPlaced, GateAt
    <2>9. c \in 0..Len(published)
      BY <1>0
    <2> QED
      BY <1>0, <1>1, <2>1, <2>4, <2>6, <2>7, <2>8, <2>9
      DEF ExactPlaced, MovesOn
  <1>5. CASE Render \/ Land \/ Commit \/ Report
    <2>1. /\ UNCHANGED <<published, gate, st>>
          /\ \/ pc' \notin {"render", "land", "commit", "consume"}
             \/ pc \in {"render", "land", "commit", "consume"}
      BY <1>5 DEF Render, Land, Commit, Report, cloudVars, gateVars, cycleVars
    <2>2. ExactPlaced(g)'
      BY <1>1, <2>1 DEF ExactPlaced, FetchedFrom
    <2> QED
      BY <1>1, <2>1, <2>2 DEF MovesOn
  <1>6. CASE Quiet /\ ~Publish /\ ~Pull
    <2>1. /\ UNCHANGED <<published, gate>>
          /\ \/ pc' \notin {"render", "land", "commit", "consume"}
             \/ UNCHANGED <<pc, st>>
      BY <1>6
      DEF Quiet, Settle, ForceFullUpdate, TimerFires, TokenTaken, FetchFails,
          NotModified, RenderFails, WriteFails, Finish, Fail, vars, cloudVars,
          gateVars, cycleVars
    <2>2. ExactPlaced(g)'
      BY <1>1, <2>1 DEF ExactPlaced, FetchedFrom
    <2> QED
      BY <1>1, <2>1, <2>2 DEF MovesOn
  <1> QED
    BY <1>0, <1>2, <1>3, <1>4, <1>5, <1>6, SureSiteSteps

LEMMA ExactCourseInit == Init => ExactCourse
  <1> SUFFICES ASSUME Init PROVE ExactCourse
    OBVIOUS
  <1>1. CarryInv /\ HashInv /\ ExactInv
    BY CarryInit, HashInit, ExactInit
  <1>2. Len(published) = 1 /\ published[1] = cloud /\ published # <<>>
    BY DEF Init
  <1>3. OrderInv
    BY <1>2 DEF OrderInv, Distinct
  <1>4. ExactPlaced(0)
    BY <1>2 DEF Init, ExactPlaced, GateAt, FetchedFrom
  <1> QED
    BY <1>1, <1>2, <1>3, <1>4 DEF ExactCourse

LEMMA ExactCourseStep ==
    ASSUME ExactSite
    PROVE  ExactCourse /\ [Next]_vars => ExactCourse' /\ MovesOn
  <1> SUFFICES ASSUME ExactCourse, [Next]_vars
               PROVE  ExactCourse' /\ MovesOn
    OBVIOUS
  <1>1. (CarryInv /\ HashInv /\ ExactInv)'
    BY CarryStep, HashStep, ExactStep DEF ExactCourse, ExactSite, ToldApart
  <1>2. OrderInv'
    BY OrderStep DEF ExactCourse, CarryInv, ExactSite
  <1> QED
    BY <1>1, <1>2, ExactPlaceStep DEF ExactCourse

LEMMA ExactSiteIsOnCourse == ExactCourse => OnCourse
  BY DEF ExactCourse, ExactPlaced, ExactInv, CarryInv, OnCourse, Green, Unlanded

\* In delta mode too the agent implements Courier: chained diffs take the gate
\* from one published state to a later one, never to a mixture of two, never
\* back, and never under a green dashboard.
THEOREM DeliversByDeltas ==
    ASSUME ExactSite
    PROVE  Spec => Delivers
  <1>1. Init => Promised!Init /\ ExactCourse
    BY CourierStart, ExactCourseInit
  <1>2. ExactCourse /\ [Next]_vars => ExactCourse' /\ MovesOn
    BY ExactCourseStep
  <1>3. ExactCourse => OnCourse
    BY ExactSiteIsOnCourse
  <1>4. OnCourse /\ OnCourse' /\ MovesOn /\ [Next]_vars
            => [Promised!Next]_(Promised!vars)
    BY StepsAreCouriers DEF ExactSite
  <1> QED
    BY <1>1, <1>2, <1>3, <1>4, PTL DEF Spec, Delivers, Promised!Spec
=============================================================================
