---------------------------- MODULE JobLifecycle ----------------------------
(***************************************************************************)
(* What the playback queue promises a polling client about one job: it     *)
(* waits, it is processed by one upstream operation at most, it ends in    *)
(* exactly one of three verdicts, and a verdict that was once visible is   *)
(* never replaced by another one: it can only be forgotten.                *)
(*                                                                         *)
(* PlaybackQueue (the model of src/playback.rs) implements this            *)
(* specification; several jobs may move in one step because one prune pass *)
(* or one admin drain touches the whole job table.                         *)
(***************************************************************************)
CONSTANT Req            \* playback requests; a request owns at most one job

VARIABLE phase          \* phase[r]: the state of r's job, or "none"

Verdict == {"completed", "failed", "cancelled"}
Phase == {"none", "pending", "processing"} \cup Verdict

\* The moves the job of one request may make.
Moves == ({"none"} \X {"pending"})
           \cup ({"pending"} \X {"processing", "cancelled"})
           \cup ({"processing"} \X Verdict)
           \cup (Verdict \X {"none"})

Init == phase = [r \in Req |-> "none"]

Next == /\ phase' \in [Req -> Phase]
        /\ \A r \in Req : phase'[r] = phase[r] \/ <<phase[r], phase'[r]>> \in Moves

Spec == Init /\ [][Next]_phase
=============================================================================
