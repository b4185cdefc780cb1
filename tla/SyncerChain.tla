----------------------------- MODULE SyncerChain -----------------------------
(***************************************************************************)
(* The core loop as an implementation of DeltaChain, at a site with one    *)
(* delta format: every cycle that commits its roster is one step of the    *)
(* chain, and every cycle that fails before that is none.                  *)
(***************************************************************************)
EXTENDS Syncer

\* Somebody may press Force, the console move its nonce, or the roster be
\* unreadable, which has the same effect.
Forces ==
    \/ {"press", "read"} \cap Env # {}
    \/ \E s, t \in Desired : s.nonce # t.nonce

\* What the gate has been or is about to be told: once the roster is committed
\* the import of the file is as good as done.
Told == IF pc = "consume" THEN Import(file, gate) ELSE gate

Chain == INSTANCE DeltaChain WITH
    Formats <- {s.format : s \in Desired},
    format <- cloud.format,
    gate <- Told,
    forces <- Forces

\* The agent implements DeltaChain: whatever is pressed, published or fails on
\* the way, gate and roster change together, by one whole render against the
\* roster and its import (apply's order of calls, Render and CommitApplied).
Chains == Chain!Spec
=============================================================================
