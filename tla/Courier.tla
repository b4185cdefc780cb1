------------------------------- MODULE Courier -------------------------------
(***************************************************************************)
(* What the agent promises those who look at a gate from outside, without  *)
(* cycles, files, hashes or exit codes: the console publishes one state    *)
(* after the other, the gate is moved along that order, and the dashboard  *)
(* may claim that the gate is where it is.                                 *)
(***************************************************************************)
EXTENDS Naturals, Sequences

CONSTANTS
    Wanted,     \* the states the console may publish
    Gives(_)    \* can a gate be told of this one?

VARIABLES
    order,      \* the states published so far
    at,         \* the position of the one the gate holds, 0 before the first
    claim       \* the position of the one a green dashboard stands for, or 0

vars == <<order, at, claim>>

Init ==
    /\ order \in {<<s>> : s \in Wanted}
    /\ at = 0
    /\ claim = 0

Publish ==
    /\ \E s \in Wanted : order' = Append(order, s)
    /\ UNCHANGED <<at, claim>>

\* The gate only ever moves forward, past states it never held if need be, and
\* never while somebody vouches for where it is.
Deliver ==
    /\ claim = 0
    /\ at' \in {i \in 1..Len(order) : i > at /\ Gives(order[i])}
    /\ UNCHANGED <<order, claim>>

\* Only what the gate holds is vouched for.
Claim ==
    /\ claim = 0
    /\ claim' = at
    /\ UNCHANGED <<order, at>>

Retract ==
    /\ claim' = 0
    /\ UNCHANGED <<order, at>>

Next == Publish \/ Deliver \/ Claim \/ Retract

Spec == Init /\ [][Next]_vars
=============================================================================
