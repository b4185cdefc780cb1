------------------------------ MODULE MCSyncer ------------------------------
(***************************************************************************)
(* The desired states TLC's instances of Syncer draw on: two codes, one    *)
(* holder each, and formats of each kind.                                  *)
(***************************************************************************)
EXTENDS SyncerCourier, SyncerChain

CONSTANTS c1, c2, h1

Active(c) == [code |-> c, holder |-> h1, status |-> "active"]
Suspended(c) == [code |-> c, holder |-> h1, status |-> "suspended"]

\* A full format without a suspended line: absence is the lockout.
FullF == [mode |-> "full", has |-> {"line"}, changeSaysStatus |-> FALSE]

\* A delta format that suspends by a line of its own.
DeltaF == [mode |-> "delta", changeSaysStatus |-> FALSE,
           has |-> {"addedLine", "suspendedLine", "removedLine"}]

\* A delta format with a change line, which cannot suspend.
DeltaG == [mode |-> "delta", changeSaysStatus |-> TRUE,
           has |-> {"addedLine", "changedLine", "removedLine"}]

TestF == [mode |-> "test", has |-> {}, changeSaysStatus |-> FALSE]
StubF == [mode |-> "stub", has |-> {}, changeSaysStatus |-> FALSE]

Wants(f, n, rows) == [creds |-> rows, nonce |-> n, format |-> f]

MCCodes == {c1, c2}
MCHolders == {h1}
MCNonces == {0, 1}

\* One code revoked, one suspended, and a trial of the test provider.
FullStates ==
    {Wants(FullF, 0, {Active(c1), Active(c2)}),
     Wants(FullF, 0, {Active(c1), Suspended(c2)}),
     Wants(TestF, 0, {Active(c1)})}

DeltaStates ==
    {Wants(DeltaF, 0, {Active(c1)}),
     Wants(DeltaF, 0, {Suspended(c1), Active(c2)}),
     Wants(DeltaG, 0, {Active(c1), Active(c2)}),
     Wants(FullF, 0, {Active(c2)})}

\* Every delta state under one format, the last under the nonce of the
\* console's own force.
ForceStates ==
    {Wants(DeltaF, 0, {Active(c1), Active(c2)}),
     Wants(DeltaF, 0, {Suspended(c1), Active(c2)}),
     Wants(DeltaF, 0, {Active(c2)}),
     Wants(DeltaF, 1, {Active(c2)})}

\* A template, a trial of the test provider, and a switch to a provider that
\* is only a stub.
TrialStates ==
    {Wants(FullF, 0, {Active(c1)}), Wants(FullF, 0, {Active(c2)}),
     Wants(TestF, 0, {Active(c1)}), Wants(StubF, 0, {Active(c1)})}
=============================================================================
