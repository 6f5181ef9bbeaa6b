------------------------------ MODULE PidWorker ------------------------------
(***************************************************************************)
(* What AgentLifecycle assumes of a profiler: the goroutine of a PID       *)
(* writes a profile, compresses it and announces the result, in this order *)
(* and each at most once, or fails on the way and announces nothing.  No   *)
(* tool, command or file here; ToolPipelines is shown to implement it.     *)
(***************************************************************************)

VARIABLES
    worker,     \* "running", "written", "compressed", "published", "failed"
    announced   \* the result event has been printed

workerVars == <<worker, announced>>

Init == worker = "running" /\ announced = FALSE

Write ==
    /\ worker = "running"
    /\ worker' = "written"
    /\ UNCHANGED announced

Compress ==
    /\ worker = "written"
    /\ worker' = "compressed"
    /\ UNCHANGED announced

Publish ==
    /\ worker = "compressed"
    /\ worker' = "published"
    /\ announced' = TRUE

Fail ==
    /\ worker \in {"running", "written", "compressed"}
    /\ worker' = "failed"
    /\ UNCHANGED announced

Spec == Init /\ [][Write \/ Compress \/ Publish \/ Fail]_workerVars
=============================================================================
