----------------------------- MODULE ProfilePIDs -----------------------------
(***************************************************************************)
(* common.ProfilePIDs (profiler/common/pids.go): the fan-out every         *)
(* multi-process profiler runs its Invoke on.  One goroutine per target    *)
(* PID, started one after the other, each storing its own error; a         *)
(* WaitGroup joins them and the caller turns the errors into one verdict.  *)
(*                                                                         *)
(* What a goroutine does for its PID (profile(pid)) is abstracted to its   *)
(* outcome: it publishes a result as its last action and returns nil, or   *)
(* it returns an error and has published nothing.                          *)
(***************************************************************************)
EXTENDS Naturals

CONSTANT MaxPIDs      \* bound on len(pids)

ASSUME MaxPIDsAssumption == MaxPIDs \in Nat

VARIABLES
    n,          \* len(pids); the PIDs are the indices 1..n
    pc,         \* the caller: "call", "launch", "wait", "collect", "returned"
    launched,   \* the last index handed to wg.Go
    worker,     \* per index: "none", "running", "published", "exited"
    wg,         \* the goroutines the WaitGroup still counts
    errs,       \* per index: the error slot, "nil" until a failure is stored
    results,    \* the indices whose result event has been printed
    notice,     \* the indices the notice event names, {} when none is printed
    ret         \* what the caller got: "pending", "nil", "failed", "noPIDs"

vars == <<n, pc, launched, worker, wg, errs, results, notice, ret>>

PID == 1..n

Index == 1..MaxPIDs

Callers == {"call", "launch", "wait", "collect", "returned"}

Workers == {"none", "running", "published", "exited"}

TypeOK ==
    /\ n \in 0..MaxPIDs
    /\ pc \in Callers
    /\ launched \in 0..MaxPIDs
    /\ worker \in [Index -> Workers]
    /\ wg \subseteq Index
    /\ errs \in [Index -> {"nil", "err"}]
    /\ results \subseteq Index
    /\ notice \subseteq Index
    /\ ret \in {"pending", "nil", "failed", "noPIDs"}

\* The state at the call, for k target PIDs: errs is freshly allocated.
Fresh(k) ==
    /\ n = k
    /\ pc = "call"
    /\ launched = 0
    /\ worker = [i \in Index |-> "none"]
    /\ wg = {}
    /\ errs = [i \in Index |-> "nil"]
    /\ results = {}
    /\ notice = {}
    /\ ret = "pending"

Init == \E k \in 0..MaxPIDs : Fresh(k)

-----------------------------------------------------------------------------
(* The caller.                                                             *)

\* Without a PID nothing would be published: an error at once.
RefuseEmpty ==
    /\ pc = "call"
    /\ n = 0
    /\ pc' = "returned"
    /\ ret' = "noPIDs"
    /\ UNCHANGED <<n, launched, worker, wg, errs, results, notice>>

Begin ==
    /\ pc = "call"
    /\ n > 0
    /\ pc' = "launch"
    /\ UNCHANGED <<n, launched, worker, wg, errs, results, notice, ret>>

\* Mutant: the goroutine counts itself once it runs, not before it starts.
LaunchUncounted ==
    /\ pc = "launch"
    /\ launched < n
    /\ launched' = launched + 1
    /\ worker' = [worker EXCEPT ![launched + 1] = "running"]
    /\ UNCHANGED <<n, pc, wg, errs, results, notice, ret>>

\* One turn of the loop: the delay between jobs, then wg.Go, which counts the
\* goroutine before it starts.
Launch ==
    /\ pc = "launch"
    /\ launched < n
    /\ launched' = launched + 1
    /\ worker' = [worker EXCEPT ![launched + 1] = "running"]
    /\ wg' = wg \cup {launched + 1}
    /\ UNCHANGED <<n, pc, errs, results, notice, ret>>

LoopEnds ==
    /\ pc = "launch"
    /\ launched = n
    /\ pc' = "wait"
    /\ UNCHANGED <<n, launched, worker, wg, errs, results, notice, ret>>

\* Mutant: the join returns as soon as one goroutine is done.
WaitForOne ==
    /\ pc = "wait"
    /\ \E i \in PID : i \notin wg
    /\ pc' = "collect"
    /\ UNCHANGED <<n, launched, worker, wg, errs, results, notice, ret>>

\* wg.Wait returns once no goroutine is counted.
Wait ==
    /\ pc = "wait"
    /\ wg = {}
    /\ pc' = "collect"
    /\ UNCHANGED <<n, launched, worker, wg, errs, results, notice, ret>>

Failed == {i \in PID : errs[i] # "nil"}

\* Mutants: any failure fails the call; every failure prints a notice.
VerdictOfAny(failed) == IF failed = {} THEN "nil" ELSE "failed"
SkippedAlways(failed) == failed

\* The failures decide the verdict; a partial failure prints a notice.
Verdict(failed) ==
    IF failed = {} THEN "nil" ELSE IF failed = PID THEN "failed" ELSE "nil"

Skipped(failed) == IF failed # PID THEN failed ELSE {}

Collect ==
    /\ pc = "collect"
    /\ pc' = "returned"
    /\ ret' = Verdict(Failed)
    /\ notice' = Skipped(Failed)
    /\ UNCHANGED <<n, launched, worker, wg, errs, results>>

Caller == RefuseEmpty \/ Begin \/ Launch \/ LoopEnds \/ Wait \/ Collect

-----------------------------------------------------------------------------
(* The goroutine of PID i.                                                 *)

\* profile(pid) prints its result event.
Publish(i) ==
    /\ worker[i] = "running"
    /\ worker' = [worker EXCEPT ![i] = "published"]
    /\ results' = results \cup {i}
    /\ UNCHANGED <<n, pc, launched, wg, errs, notice, ret>>

\* Mutant: the error is logged and dropped instead of stored.
ReturnDropsError(i) ==
    /\ worker[i] \in {"running", "published"}
    /\ worker' = [worker EXCEPT ![i] = "exited"]
    /\ UNCHANGED <<n, pc, launched, wg, errs, results, notice, ret>>

\* profile(pid) returns and its error, or nil, is stored in the slot of i.
Return(i) ==
    /\ worker[i] \in {"running", "published"}
    /\ worker' = [worker EXCEPT ![i] = "exited"]
    /\ errs' = [errs EXCEPT ![i] = IF worker[i] = "published" THEN "nil" ELSE "err"]
    /\ UNCHANGED <<n, pc, launched, wg, results, notice, ret>>

\* Mutant: Done is called on the success path only.
DoneIfPublished(i) ==
    /\ worker[i] = "exited"
    /\ i \in wg \cap results
    /\ wg' = wg \ {i}
    /\ UNCHANGED <<n, pc, launched, worker, errs, results, notice, ret>>

\* wg.Go calls Done after the function has returned.
Done(i) ==
    /\ worker[i] = "exited"
    /\ i \in wg
    /\ wg' = wg \ {i}
    /\ UNCHANGED <<n, pc, launched, worker, errs, results, notice, ret>>

Goroutine(i) == Publish(i) \/ Return(i) \/ Done(i)

Next == Caller \/ \E i \in PID : Goroutine(i)

Spec == Init /\ [][Next]_vars

(***************************************************************************)
(* Fairness: the Go scheduler runs every runnable goroutine, and every     *)
(* tool is started with a bounded duration, so profile(pid) returns.  A    *)
(* goroutine need not publish: Publish alone is not fair.                  *)
(***************************************************************************)
FairSpec ==
    /\ Spec
    /\ WF_vars(Caller)
    /\ \A i \in Index : WF_vars(i \in PID /\ (Return(i) \/ Done(i)))
-----------------------------------------------------------------------------
(* What makes the fan-out correct.                                         *)

(***************************************************************************)
(* The caller of ProfilePIDs gets nil exactly when at least one PID has    *)
(* published its result; it gets the error of all of them exactly when     *)
(* none has ("the run succeeds as long as at least one PID did").          *)
(***************************************************************************)
VerdictSound ==
    pc = "returned" =>
        /\ (ret = "nil") <=> (results # {})
        /\ (ret = "noPIDs") <=> (n = 0)

(***************************************************************************)
(* The notice of a partial failure names exactly the PIDs without a        *)
(* result, and there is none when all failed (the error names them then).  *)
(***************************************************************************)
NoticeNamesSkipped ==
    pc = "returned" => notice = IF results = {} THEN {} ELSE PID \ results

(***************************************************************************)
(* wg.Wait is a barrier: once ProfilePIDs has returned no goroutine of     *)
(* this call publishes a result or writes an error slot, so the slots are  *)
(* read without a race and the next iteration starts alone.                *)
(***************************************************************************)
NothingAfterReturn ==
    [][(pc \in {"collect", "returned"}) => results' = results /\ errs' = errs]_vars

(***************************************************************************)
(* The inductive invariant behind the two invariants above: the goroutines *)
(* that may still act are the ones wg counts, wg counts only launched      *)
(* ones, a slot is written by its own goroutine, and a goroutine that has  *)
(* returned either has published or has left its error.                    *)
(***************************************************************************)
Counted ==
    /\ wg \subseteq 1..launched
    /\ launched <= n
    /\ \A i \in Index : worker[i] = "none" <=> i > launched
    /\ \A i \in 1..launched : i \notin wg => worker[i] = "exited"

Slots ==
    /\ \A i \in Index : i \in results => worker[i] \in {"published", "exited"}
    /\ \A i \in Index : worker[i] = "published" => i \in results
    /\ \A i \in Index : errs[i] = "err" => worker[i] = "exited"
    /\ \A i \in Index : worker[i] = "exited" => (errs[i] = "err" <=> i \notin results)

Stages ==
    /\ pc = "call" => launched = 0
    /\ pc \in {"launch", "wait", "collect"} => n > 0
    /\ pc \in {"wait", "collect"} => launched = n
    /\ pc = "collect" => wg = {}
    /\ pc # "returned" => ret = "pending" /\ notice = {}
    /\ pc = "returned" => launched = n /\ wg = {} /\ ret # "pending"

IInv == TypeOK /\ Counted /\ Slots /\ Stages /\ VerdictSound /\ NoticeNamesSkipped

(***************************************************************************)
(* Every call returns, whatever the goroutines do, as long as each         *)
(* profile(pid) does.                                                      *)
(***************************************************************************)
Termination == <>(pc = "returned")

(***************************************************************************)
(* The fan-out implements its promise, PidOutcome: the errors it collects  *)
(* through the slots decide as the published results would, in one step,   *)
(* and that step is taken.                                                 *)
(***************************************************************************)
Outcome == INSTANCE PidOutcome

ImplementsOutcome == Outcome!LiveSpec
=============================================================================
