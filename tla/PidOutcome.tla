------------------------------ MODULE PidOutcome ------------------------------
(***************************************************************************)
(* What common.ProfilePIDs promises its callers (the doc comment and the   *)
(* tests of profiler/common/pids.go): PIDs publish one by one, then one    *)
(* step decides, from what was published and nothing else, and after it    *)
(* nothing is published any more.  No goroutine, slot or WaitGroup here.   *)
(***************************************************************************)
EXTENDS Naturals

VARIABLES
    n,          \* how many PIDs are profiled
    results,    \* the PIDs whose result has been published
    notice,     \* the PIDs reported as skipped
    ret         \* "pending", then "nil" or the error

outcomeVars == <<n, results, notice, ret>>

Targets == 1..n

Init ==
    /\ n \in Nat
    /\ results = {}
    /\ notice = {}
    /\ ret = "pending"

PublishOne(i) ==
    /\ ret = "pending"
    /\ results' = results \cup {i}
    /\ UNCHANGED <<n, notice, ret>>

\* At least one result: success, and the others are named as skipped.
Succeed ==
    /\ ret = "pending"
    /\ results # {}
    /\ ret' = "nil"
    /\ notice' = Targets \ results
    /\ UNCHANGED <<n, results>>

Fail ==
    /\ ret = "pending"
    /\ results = {}
    /\ ret' = IF n = 0 THEN "noPIDs" ELSE "failed"
    /\ UNCHANGED <<n, results, notice>>

Decide == Succeed \/ Fail

Next == Decide \/ \E i \in Targets : PublishOne(i)

Spec == Init /\ [][Next]_outcomeVars

\* With a decision that is not put off forever.
LiveSpec == Spec /\ WF_outcomeVars(Decide)
=============================================================================
