----------------------------- MODULE DeltaChain -----------------------------
(***************************************************************************)
(* What the delta format promises while nothing goes wrong: every cycle    *)
(* renders, lands, commits the roster and is imported, as one step.  The   *)
(* format is any the console could have set up, and every cycle pulls any  *)
(* set of credentials; what can fall between the steps of a cycle is in    *)
(* module Syncer.                                                          *)
(***************************************************************************)
EXTENDS GateFormat

CONSTANT Formats   \* the delta formats a site may be set up with

ASSUME FormatsAssumption == Formats \subseteq {f \in Format : f.mode = "delta"}

VARIABLES
    format,    \* settings.format of the site, fixed
    roster,    \* last-roster.json
    gate,      \* the gate software's own table
    forces     \* somebody may force a full update at this site, fixed

vars == <<format, roster, gate, forces>>

Wanted(creds, n) == [creds |-> creds, nonce |-> n, format |-> format]

Init ==
    /\ format \in Formats
    /\ roster = EmptyRoster
    /\ gate = {}
    /\ forces \in BOOLEAN

\* One apply: render against the roster, import, remember.
Apply(s, fresh) ==
    /\ gate' = Import(Rendered(s, roster, fresh), gate)
    /\ roster' = Remembered(s)
    /\ UNCHANGED <<format, forces>>

\* A cycle under the nonce the roster remembers, or with nothing to forget.
Cycle ==
    \E creds \in SUBSET Row, n \in Nonces :
        /\ UniqueCodes(creds)
        /\ n = roster.nonce \/ roster.rows = {}
        /\ Apply(Wanted(creds, n), FALSE)

\* A cycle that re-emits: the local Force button, or a nonce the console moved.
ForcedCycle ==
    /\ forces
    /\ \E creds \in SUBSET Row, n \in Nonces, fresh \in BOOLEAN :
          /\ UniqueCodes(creds)
          /\ fresh \/ n # roster.nonce
          /\ Apply(Wanted(creds, n), fresh)

Next == Cycle \/ ForcedCycle

Spec == Init /\ [][Next]_vars

-----------------------------------------------------------------------------
(* Properties                                                              *)

TypeOK ==
    /\ format \in Formats
    /\ roster \in Roster
    /\ gate \subseteq Row
    /\ forces \in BOOLEAN

\* Diffs add up: under a format that can say what it needs, the gate holds
\* exactly what the roster remembers telling it, however long the chain of
\* adds, changes, suspensions, removals and re-adds, where nobody forces
\* (renderDelta, Render's effective set and the roster it leaves pending).
GateIsRoster == DeltaFormat(format) /\ ~forces => gate = roster.rows

\* With forced re-emits in the chain the gate still admits, and suspends,
\* everyone the roster says; what it may keep besides is a code whose removal
\* fell into a re-emit.
GateHasRoster == DeltaFormat(format) => roster.rows \subseteq gate
=============================================================================
