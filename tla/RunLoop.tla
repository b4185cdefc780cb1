------------------------------- MODULE RunLoop -------------------------------
(***************************************************************************)
(* One Run goroutine after the other (syncer.go) in one process, as those  *)
(* who start, stop and press it rely on it: a stop or a re-pair waits for  *)
(* the end of a cycle, only a death of the process cuts one off, and a     *)
(* force token is only ever taken together with the hash that would let    *)
(* the server answer "not modified".  Module Syncer shows the inside of a  *)
(* cycle, module Agent what goes on around the goroutine; both implement   *)
(* this one.                                                               *)
(***************************************************************************)
VARIABLES
    up,       \* the process runs
    run,      \* where its Run goroutine is, "done" when there is none
    applied,  \* it remembers the hash of a state it applied
    token     \* the force channel holds a token

vars == <<up, run, applied, token>>

Init ==
    /\ up \in BOOLEAN
    /\ run \in {"select", "done"} /\ (run = "select" => up)
    /\ applied = FALSE
    /\ token = FALSE

Launch ==
    /\ ~up
    /\ up' = TRUE
    /\ UNCHANGED <<run, applied, token>>

\* A new syncer, which `force` may have marked before its Run.
Start ==
    /\ up
    /\ run = "done"
    /\ run' = "select"
    /\ applied' = FALSE
    /\ token' \in BOOLEAN
    /\ UNCHANGED up

CycleByTimer ==
    /\ run = "select"
    /\ run' = "cycle"
    /\ UNCHANGED <<up, applied, token>>

CycleByToken ==
    /\ run = "select"
    /\ token
    /\ run' = "cycle"
    /\ applied' = FALSE
    /\ token' = FALSE
    /\ UNCHANGED up

\* A cycle that gets through remembers the hash, by its end at the latest.
Applies ==
    /\ run = "cycle"
    /\ applied' = TRUE
    /\ UNCHANGED <<up, run, token>>

CycleEnds ==
    /\ run = "cycle"
    /\ run' = "select"
    /\ applied' \in {applied, TRUE}
    /\ UNCHANGED <<up, token>>

Told ==
    /\ up
    /\ token' = TRUE
    /\ UNCHANGED <<up, run, applied>>

Returns ==
    /\ run = "select"
    /\ run' = "done"
    /\ UNCHANGED <<up, applied, token>>

\* The process dies, and may be up again, in its select, before anyone looks.
Dies ==
    /\ up
    /\ up' \in BOOLEAN
    /\ run' = IF up' THEN "select" ELSE "done"
    /\ applied' = FALSE
    /\ token' = FALSE

Next ==
    \/ Launch \/ Start \/ CycleByTimer \/ CycleByToken \/ Applies \/ CycleEnds
    \/ Told \/ Returns \/ Dies

Spec == Init /\ [][Next]_vars
=============================================================================
