---------------------------- MODULE SyncerCourier ----------------------------
(***************************************************************************)
(* The core loop as an implementation of Courier, where no state is        *)
(* published twice: then `published` is the order in which the states      *)
(* appeared.  The program itself forgets it.                               *)
(***************************************************************************)
EXTENDS Syncer

\* A gate can be told by a full file and by deltas that can say what they need
\* to, not by a trial of the test provider or a stub.
Tells(s) == FullFormat(s.format) \/ DeltaFormat(s.format)

\* The positions of an order whose rows a gate holds, and that of a state.
Holding(order, rows) ==
    {i \in DOMAIN order : Tells(order[i]) /\ Effective(order[i]) = rows}
Position(order, s) == CHOOSE i \in DOMAIN order : order[i] = s

\* What a gate holds, or a place out of reach if that is no state's rows.
Held(order, rows) ==
    CASE rows = {} -> 0
      [] rows # {} /\ Holding(order, rows) # {} ->
            CHOOSE i \in Holding(order, rows) : TRUE
      [] OTHER -> Len(order) + 1

\* A green dashboard vouches for the state it reports as applied.
Vouched == IF Green /\ Tells(lastHash) THEN Position(published, lastHash) ELSE 0

Promised == INSTANCE Courier WITH
    Wanted <- Desired,
    Gives <- Tells,
    order <- published,
    at <- Held(published, gate),
    claim <- Vouched

\* The agent implements Courier, through every failure, kill, panic and crash:
\* the gate never holds anything but a published state, never goes back to one
\* that was superseded, does not move under a green dashboard, and the dashboard
\* is green only for the state the gate holds.
Delivers == Promised!Spec
=============================================================================
