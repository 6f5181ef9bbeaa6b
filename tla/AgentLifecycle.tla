---------------------------- MODULE AgentLifecycle ----------------------------
(***************************************************************************)
(* The agent process: cmd/agent/main.go with profile.Run                   *)
(* (action/profile/profile.go) and the two ends of a result, the files a   *)
(* tool and the publisher leave in the tmp directory and the events on     *)
(* standard output.                                                        *)
(*                                                                         *)
(* Four goroutines share the process: main (runApp, then handleForEnding), *)
(* the SIGTERM handler, the goroutine that waits on the done channel and   *)
(* the grace timer.  Main and the SIGTERM handler both call CleanUp, while *)
(* the goroutines of Invoke may still be writing.  Invoke is the fan-out   *)
(* of ProfilePIDs, used here through what it is shown to implement,        *)
(* PidOutcome; what a goroutine does for its PID is what ToolPipelines is  *)
(* shown to implement, PidWorker, with the files it leaves.                *)
(***************************************************************************)
EXTENDS Integers, FiniteSets

CONSTANTS
    MaxPIDs,          \* bound on the target PIDs SetUp finds
    MaxIterations,    \* bound on the iterations a behaviour runs
    MaxFailures,      \* bound on the removals that fail
    Durations,        \* the values of --duration and --interval, in seconds
    CleanUpUsesJob    \* does this tool's CleanUp dereference the job?

ASSUME LifecycleAssumption ==
    /\ MaxPIDs \in Nat
    /\ MaxIterations \in Nat
    /\ MaxFailures \in Nat
    /\ Durations \subseteq Int
    /\ CleanUpUsesJob \in BOOLEAN

VARIABLES
    main,       \* where main is, see Mains
    p,          \* the globals p and profilingJob, as other goroutines see
    job,        \* them: "nil" or "set"
    targets,    \* len(targetPIDs), set by SetUp
    iteration,  \* job.Iteration
    iterations, \* the count Run computes before its loop
    worker,     \* per PID of the current Invoke, see Workers
    results,    \* the current Invoke as PidOutcome sees it
    notice,
    ret,
    files,      \* result files in the tmp directory: <<pid, iteration, kind>>
    stages,     \* the stage and error events printed
    announced,  \* the files named by result events
    term,       \* SIGTERM has been delivered
    sig,        \* where the SIGTERM handler is
    cleaner,    \* per caller of CleanUp: "idle", "list", "remove"
    listing,    \* per caller of CleanUp: the files RemoveAll still holds
    stuck,      \* per caller of CleanUp: the files it could not remove
    done,       \* the done channel: how many values are buffered
    fired,      \* the grace timer has fired
    exited      \* "no", "main" (main returned), "done" (os.Exit), "panic"

runVars == <<targets, iteration, iterations>>
invokeVars == <<worker, results, notice, ret>>
outVars == <<files, stages, announced>>
cleanVars == <<cleaner, listing, stuck>>
endVars == <<term, sig, done, fired, exited>>
vars == <<main, p, job, runVars, invokeVars, outVars, cleanVars, endVars>>

PID == 1..MaxPIDs
Cleaner == {"main", "sig"}
Kind == {"raw", "gz"}
File == PID \X (1..MaxIterations) \X Kind

Mains == {"newAction", "assign", "setUp", "loop", "invoke", "error", "ending",
          "cleanUp"}
Workers == {"running", "written", "compressed", "published", "failed"}
Sigs == {"wait", "call", "cleanUp", "notify", "end"}

TypeOK ==
    /\ main \in Mains
    /\ p \in {"nil", "set"} /\ job \in {"nil", "set"}
    /\ targets \in 0..MaxPIDs
    /\ iteration \in 0..MaxIterations
    /\ iterations \in Int /\ iterations <= MaxIterations + 1
    /\ worker \in [PID -> Workers]
    /\ results \subseteq PID /\ notice \subseteq PID
    /\ ret \in {"pending", "nil", "failed", "noPIDs"}
    /\ files \subseteq File /\ announced \subseteq File
    /\ stages \subseteq {"Started", "Ended", "Error"}
    /\ term \in BOOLEAN /\ fired \in BOOLEAN
    /\ sig \in Sigs
    /\ cleaner \in [Cleaner -> {"idle", "list", "remove"}]
    /\ listing \in [Cleaner -> SUBSET File] /\ stuck \in [Cleaner -> SUBSET File]
    /\ done \in 0..1
    /\ exited \in {"no", "main", "done", "panic"}

Init ==
    /\ main = "newAction"
    /\ p = "nil" /\ job = "nil"
    /\ targets = 0
    /\ iteration = 0
    /\ iterations = 0
    /\ worker = [i \in PID |-> "failed"]
    /\ results = {} /\ notice = {} /\ ret = "pending"
    /\ files = {} /\ announced = {} /\ stages = {}
    /\ term = FALSE /\ fired = FALSE
    /\ sig = "wait"
    /\ cleaner = [c \in Cleaner |-> "idle"]
    /\ listing = [c \in Cleaner |-> {}] /\ stuck = [c \in Cleaner |-> {}]
    /\ done = 0
    /\ exited = "no"

-----------------------------------------------------------------------------
(* runApp: NewAction, then the globals are assigned without a lock.        *)

\* A flag, a duration or an argument is refused: p and profilingJob stay nil.
NewActionFails ==
    /\ main = "newAction"
    /\ main' = "error"
    /\ UNCHANGED <<p, job, runVars, invokeVars, outVars, cleanVars, endVars>>

NewAction ==
    /\ main = "newAction"
    /\ main' = "assign"
    /\ UNCHANGED <<p, job, runVars, invokeVars, outVars, cleanVars, endVars>>

\* p, profilingJob, err = ...: two unsynchronized writes, in either order to
\* the SIGTERM handler.
AssignProfiler ==
    /\ main = "assign"
    /\ p = "nil"
    /\ p' = "set"
    /\ UNCHANGED <<main, job, runVars, invokeVars, outVars, cleanVars, endVars>>

AssignJob ==
    /\ main = "assign"
    /\ job = "nil"
    /\ job' = "set"
    /\ UNCHANGED <<main, p, runVars, invokeVars, outVars, cleanVars, endVars>>

-----------------------------------------------------------------------------
(* profile.Run.                                                            *)

\* Mutant: profilingJob is shadowed in runApp, the global stays nil.
RunStartsShadowed ==
    /\ main = "assign"
    /\ p = "set"
    /\ main' = "setUp"
    /\ stages' = stages \cup {"Started"}
    /\ UNCHANGED <<p, job, runVars, invokeVars, files, announced, cleanVars, endVars>>

RunStarts ==
    /\ main = "assign"
    /\ p = "set" /\ job = "set"
    /\ main' = "setUp"
    /\ stages' = stages \cup {"Started"}
    /\ UNCHANGED <<p, job, runVars, invokeVars, files, announced, cleanVars, endVars>>

SetUpFails ==
    /\ main = "setUp"
    /\ main' = "error"
    /\ UNCHANGED <<p, job, runVars, invokeVars, outVars, cleanVars, endVars>>

\* Counts beyond the bound are all the same to the model.
AtMostBound(k) == IF k > MaxIterations THEN MaxIterations + 1 ELSE k

\* The smallest int64, as the model has it.
Lowest == -(MaxIterations + 1)

(***************************************************************************)
(* int64(Duration.Seconds() / Interval.Seconds()) in whole seconds, for an *)
(* interval that is not longer than the duration; a quotient is truncated. *)
(* A positive duration over a zero interval is +Inf, which amd64 converts  *)
(* to the smallest int64 and arm64 to the largest (the images are built    *)
(* for both); 0/0 is NaN, the smallest and 0.                              *)
(***************************************************************************)
IterationsOf(d, i) ==
    CASE i > 0            -> {AtMostBound(d \div i)}
      [] i = 0 /\ d > 0   -> {Lowest, MaxIterations + 1}
      [] i = 0 /\ d <= 0  -> {Lowest, 0}
      [] i < 0 /\ d > 0   -> {-(d \div (-i))}
      [] i < 0 /\ d = i   -> {1}
      [] OTHER            -> {0}

\* The durations are read here only: any that NewAction accepts, with an
\* interval not longer than the duration.
SetUp ==
    /\ main = "setUp"
    /\ main' = "loop"
    /\ targets' \in 0..MaxPIDs
    /\ \E d, i \in Durations : i <= d /\ iterations' \in IterationsOf(d, i)
    /\ UNCHANGED <<p, job, iteration, invokeVars, outVars, cleanVars, endVars>>

\* Mutant: what the PIDs published is collected over all iterations.
NextIterationKeepsResults ==
    /\ main = "loop"
    /\ iteration < iterations /\ iteration < MaxIterations
    /\ main' = "invoke"
    /\ iteration' = iteration + 1
    /\ worker' = [i \in PID |-> IF i <= targets THEN "running" ELSE "failed"]
    /\ notice' = {} /\ ret' = "pending"
    /\ UNCHANGED <<p, job, targets, iterations, results, outVars, cleanVars, endVars>>

\* job.Iteration is set and Invoke called; past MaxIterations the model stops.
NextIteration ==
    /\ main = "loop"
    /\ iteration < iterations /\ iteration < MaxIterations
    /\ main' = "invoke"
    /\ iteration' = iteration + 1
    /\ worker' = [i \in PID |-> IF i <= targets THEN "running" ELSE "failed"]
    /\ results' = {} /\ notice' = {} /\ ret' = "pending"
    /\ UNCHANGED <<p, job, targets, iterations, outVars, cleanVars, endVars>>

RunEnds ==
    /\ main = "loop"
    /\ iteration >= iterations
    /\ main' = "ending"
    /\ stages' = stages \cup {"Ended"}
    /\ UNCHANGED <<p, job, runVars, invokeVars, files, announced, cleanVars, endVars>>

\* Mutant: a failed Invoke is logged and the loop goes on.
InvokeErrorIgnored ==
    /\ main = "invoke"
    /\ ret # "pending"
    /\ main' = "loop"
    /\ UNCHANGED <<p, job, runVars, invokeVars, outVars, cleanVars, endVars>>

\* Mutant: Ended is printed on every return of Run, as a defer would.
InvokeErrorPrintsEnded ==
    /\ main = "invoke"
    /\ ret # "pending"
    /\ main' = IF ret = "nil" THEN "loop" ELSE "error"
    /\ stages' = IF ret = "nil" THEN stages ELSE stages \cup {"Ended"}
    /\ UNCHANGED <<p, job, runVars, invokeVars, files, announced, cleanVars, endVars>>

InvokeReturns ==
    /\ main = "invoke"
    /\ ret # "pending"
    /\ main' = IF ret = "nil" THEN "loop" ELSE "error"
    /\ UNCHANGED <<p, job, runVars, invokeVars, outVars, cleanVars, endVars>>

-----------------------------------------------------------------------------
(* The goroutines of Invoke: a tool writes its file, the publisher opens   *)
(* it, compresses it to a second file and prints the result event.         *)

Outcome == INSTANCE PidOutcome WITH n <- targets

Raw(i) == <<i, iteration, "raw">>

Writes(i) ==
    /\ worker[i] = "running"
    /\ worker' = [worker EXCEPT ![i] = "written"]
    /\ files' = files \cup {Raw(i)}
    /\ UNCHANGED <<main, p, job, runVars, results, notice, ret, stages, announced,
                   cleanVars, endVars>>

\* os.Create and Encode; os.Open fails when a CleanUp has removed the file.
Compresses(i) ==
    /\ worker[i] = "written"
    /\ Raw(i) \in files
    /\ worker' = [worker EXCEPT ![i] = "compressed"]
    /\ files' = files \cup {<<i, iteration, "gz">>}
    /\ UNCHANGED <<main, p, job, runVars, results, notice, ret, stages, announced,
                   cleanVars, endVars>>

Publishes(i) ==
    /\ worker[i] = "compressed"
    /\ worker' = [worker EXCEPT ![i] = "published"]
    /\ announced' = announced \cup {<<i, iteration, "gz">>}
    /\ Outcome!PublishOne(i)
    /\ UNCHANGED <<main, p, job, runVars, files, stages, cleanVars, endVars>>

\* The tool, the conversion or the publisher fails; what it wrote stays.
Fails(i) ==
    /\ worker[i] \in {"running", "written", "compressed"}
    /\ worker' = [worker EXCEPT ![i] = "failed"]
    /\ UNCHANGED <<main, p, job, runVars, results, notice, ret, outVars, cleanVars,
                   endVars>>

\* Mutant: Invoke returns without waiting for the goroutines it started.
JoinsEarly ==
    /\ main = "invoke"
    /\ Outcome!Decide
    /\ UNCHANGED <<main, p, job, runVars, worker, outVars, cleanVars, endVars>>

\* ProfilePIDs joins its goroutines and decides.
Joins ==
    /\ main = "invoke"
    /\ \A i \in PID : worker[i] \in {"published", "failed"}
    /\ Outcome!Decide
    /\ UNCHANGED <<main, p, job, runVars, worker, outVars, cleanVars, endVars>>

-----------------------------------------------------------------------------
(* CleanUp: file.RemoveAll lists the result files and removes them one by  *)
(* one, in the order of filepath.Glob; one that is gone already is         *)
(* skipped, one that cannot be removed is warned about and stays.          *)

List(c) ==
    /\ cleaner[c] = "list"
    /\ listing' = [listing EXCEPT ![c] = files]
    /\ cleaner' = [cleaner EXCEPT ![c] = "remove"]
    /\ UNCHANGED <<main, p, job, runVars, invokeVars, outVars, stuck, endVars>>

\* Glob sorts its matches: by PID, then iteration, the compressed file last.
NotAfter(f, g) ==
    \/ f[1] < g[1]
    \/ f[1] = g[1] /\ f[2] < g[2]
    \/ f[1] = g[1] /\ f[2] = g[2] /\ (f[3] = "raw" \/ g[3] = "gz")

IsNext(c, f) ==
    /\ cleaner[c] = "remove"
    /\ \A g \in listing[c] : NotAfter(f, g)

Remove(c) ==
    \E f \in listing[c] :
        /\ IsNext(c, f)
        /\ listing' = [listing EXCEPT ![c] = @ \ {f}]
        /\ files' = files \ {f}
        /\ UNCHANGED <<main, p, job, runVars, invokeVars, stages, announced, cleaner, stuck,
                       endVars>>

\* The error of os.Remove is logged and the loop goes on.
RemoveFails(c) ==
    \E f \in listing[c] \cap files :
        /\ IsNext(c, f)
        /\ Cardinality(stuck["main"]) + Cardinality(stuck["sig"]) < MaxFailures
        /\ listing' = [listing EXCEPT ![c] = @ \ {f}]
        /\ stuck' = [stuck EXCEPT ![c] = @ \cup {f}]
        /\ UNCHANGED <<main, p, job, runVars, invokeVars, outVars, cleaner, endVars>>

Removed(c) == cleaner[c] = "remove" /\ listing[c] = {}

-----------------------------------------------------------------------------
(* main after runApp: the error event, then handleForEnding.               *)

\* Mutant: a failed run cleans up at once, before the client has the results.
ErrorCleansUp ==
    /\ main = "error"
    /\ main' = "cleanUp"
    /\ cleaner' = [cleaner EXCEPT !["main"] = "list"]
    /\ stages' = stages \cup {"Error"}
    /\ UNCHANGED <<p, job, runVars, invokeVars, files, announced, listing, stuck, endVars>>

LogsError ==
    /\ main = "error"
    /\ main' = "ending"
    /\ stages' = stages \cup {"Error"}
    /\ UNCHANGED <<p, job, runVars, invokeVars, files, announced, cleanVars, endVars>>

\* Mutant: the grace period is counted for a successful run only.
TimerFiresOnSuccess ==
    /\ main = "ending"
    /\ ~fired
    /\ "Ended" \in stages
    /\ fired' = TRUE
    /\ UNCHANGED <<main, p, job, runVars, invokeVars, outVars, cleanVars, term, sig,
                   done, exited>>

TimerFires ==
    /\ main = "ending"
    /\ ~fired
    /\ fired' = TRUE
    /\ UNCHANGED <<main, p, job, runVars, invokeVars, outVars, cleanVars, term, sig,
                   done, exited>>

\* Mutant: the grace period ends the agent without a CleanUp.
GraceExitsAtOnce ==
    /\ main = "ending"
    /\ fired
    /\ exited' = "main"
    /\ UNCHANGED <<main, p, job, runVars, invokeVars, outVars, cleanVars, term, sig,
                   done, fired>>

GraceOver ==
    /\ main = "ending"
    /\ fired
    /\ IF p = "set"
         THEN /\ main' = "cleanUp"
              /\ cleaner' = [cleaner EXCEPT !["main"] = "list"]
              /\ UNCHANGED exited
         ELSE /\ exited' = "main"
              /\ UNCHANGED <<main, cleaner>>
    /\ UNCHANGED <<p, job, runVars, invokeVars, outVars, listing, stuck, term, sig, done, fired>>

MainReturns ==
    /\ main = "cleanUp"
    /\ Removed("main")
    /\ exited' = "main"
    /\ UNCHANGED <<main, p, job, runVars, invokeVars, outVars, cleanVars, term, sig,
                   done, fired>>

-----------------------------------------------------------------------------
(* The SIGTERM handler, which takes one signal, and the done channel.      *)

SigTerm ==
    /\ ~term
    /\ term' = TRUE
    /\ UNCHANGED <<main, p, job, runVars, invokeVars, outVars, cleanVars, sig, done,
                   fired, exited>>

SigReceives ==
    /\ sig = "wait"
    /\ term
    /\ sig' = IF p = "set" THEN "call" ELSE "notify"
    /\ UNCHANGED <<main, p, job, runVars, invokeVars, outVars, cleanVars, term, done,
                   fired, exited>>

\* p.CleanUp(profilingJob), with the job as the handler sees it.
SigCleansUp ==
    /\ sig = "call"
    /\ IF job = "nil" /\ CleanUpUsesJob
         THEN /\ exited' = "panic"
              /\ UNCHANGED <<sig, cleaner>>
         ELSE /\ sig' = "cleanUp"
              /\ cleaner' = [cleaner EXCEPT !["sig"] = "list"]
              /\ UNCHANGED exited
    /\ UNCHANGED <<main, p, job, runVars, invokeVars, outVars, listing, stuck, term, done, fired>>

SigCleaned ==
    /\ sig = "cleanUp"
    /\ Removed("sig")
    /\ sig' = "notify"
    /\ UNCHANGED <<main, p, job, runVars, invokeVars, outVars, cleanVars, term, done,
                   fired, exited>>

\* Mutant: the handler notifies only when there was something to clean.
SigNotifiesIfCleaned ==
    /\ sig = "notify"
    /\ cleaner["sig"] # "idle"
    /\ done < 1
    /\ sig' = "end"
    /\ done' = done + 1
    /\ UNCHANGED <<main, p, job, runVars, invokeVars, outVars, cleanVars, term, fired,
                   exited>>

\* done <- true blocks while the buffer of one is full.
SigNotifies ==
    /\ sig = "notify"
    /\ done < 1
    /\ sig' = "end"
    /\ done' = done + 1
    /\ UNCHANGED <<main, p, job, runVars, invokeVars, outVars, cleanVars, term, fired,
                   exited>>

DoneExits ==
    /\ done > 0
    /\ done' = done - 1
    /\ exited' = "done"
    /\ UNCHANGED <<main, p, job, runVars, invokeVars, outVars, cleanVars, term, sig,
                   fired>>

-----------------------------------------------------------------------------
(* The process: no goroutine takes a step once it has exited.              *)

Alive == exited = "no"

RunSteps ==
    \/ NewActionFails \/ NewAction \/ AssignProfiler \/ AssignJob
    \/ RunStarts \/ SetUpFails \/ SetUp \/ NextIteration \/ RunEnds \/ InvokeReturns
    \/ \E i \in PID : Writes(i) \/ Compresses(i) \/ Publishes(i) \/ Fails(i)
    \/ Joins

CleanSteps(c) == List(c) \/ Remove(c) \/ RemoveFails(c)

EndSteps == LogsError \/ GraceOver \/ MainReturns \/ CleanSteps("main")

SigSteps ==
    SigReceives \/ SigCleansUp \/ SigCleaned \/ SigNotifies \/ CleanSteps("sig")

Next ==
    /\ Alive
    /\ RunSteps \/ EndSteps \/ TimerFires \/ SigTerm \/ SigSteps \/ DoneExits

Spec == Init /\ [][Next]_vars

(***************************************************************************)
(* Fairness: the Go scheduler preempts the goroutines that spin on select, *)
(* so each of the ending goroutines runs, and the timer fires.  Nothing    *)
(* makes a tool come back, so the steps of the run itself are not fair,    *)
(* and nothing makes a SIGTERM come.                                       *)
(***************************************************************************)
FairSpec ==
    /\ Spec
    /\ WF_vars(Alive /\ EndSteps)
    /\ WF_vars(Alive /\ TimerFires)
    /\ WF_vars(Alive /\ SigSteps)
    /\ WF_vars(Alive /\ DoneExits)

-----------------------------------------------------------------------------
(* What makes the agent's life correct.                                    *)

(***************************************************************************)
(* The client has its grace period: a file named by a result event is      *)
(* there, until a SIGTERM is delivered or the grace period is over.        *)
(***************************************************************************)
AnnouncedFilesStay == term \/ fired \/ announced \subseteq files

(***************************************************************************)
(* The stream of events closes: after the Ended stage or the error event,  *)
(* no further result is announced and no second closing event printed.     *)
(***************************************************************************)
Closed == stages \cap {"Ended", "Error"} # {}

EventStreamCloses ==
    [][Closed => stages' = stages /\ announced' = announced]_vars

(***************************************************************************)
(* Run prints Ended only when every iteration it counted announced at      *)
(* least one result: a failed Invoke ends the run with an error instead.   *)
(***************************************************************************)
EndedHasEveryIteration ==
    "Ended" \in stages =>
        \A k \in 1..iterations : \E i \in PID : <<i, k, "gz">> \in announced

(***************************************************************************)
(* The agent that ends on its own, after the grace period, leaves no       *)
(* result file behind but those it could not remove itself, even if a      *)
(* SIGTERM's CleanUp runs at the same time.                                *)
(***************************************************************************)
GraceExitIsClean == exited = "main" => files \subseteq stuck["main"]

(***************************************************************************)
(* The CleanUp of a profiler whose job is not yet visible panics only      *)
(* before the run has started: then there is no stage event, no file and   *)
(* no profile that the client or the target would keep.                    *)
(***************************************************************************)
PanicLosesNothing == exited = "panic" => stages = {} /\ files = {}

(***************************************************************************)
(* A SIGTERM within the grace period leaves no result file behind either,  *)
(* but those the handler could not remove: by then no goroutine of Invoke  *)
(* writes any more, so its CleanUp, alone or beside main's, sees every     *)
(* file.  (One that comes during the run may miss the files written after  *)
(* its listing.)                                                           *)
(***************************************************************************)
SigTermInGraceIsClean ==
    [](main = "ending" /\ ~term => [](exited = "done" => files \subseteq stuck["sig"]))

(***************************************************************************)
(* A SIGTERM ends the process whatever main is doing, a hung tool          *)
(* included.                                                               *)
(***************************************************************************)
SigTermEnds == term ~> ~Alive

(***************************************************************************)
(* Once the run is over, in success or in error, the grace timer ends the  *)
(* process without any signal.                                             *)
(***************************************************************************)
EndingEnds == (main \in {"error", "ending"}) ~> ~Alive

-----------------------------------------------------------------------------
(* The inductive invariant: why the invariants above hold.                 *)

Active == {"running", "written", "compressed"}
Over == {"ending", "cleanUp"}

\* The globals are assigned together but for the window of the assignment,
\* and before it, or without it, there is nothing to lose.
Assigned ==
    /\ main = "newAction" => p = "nil" /\ job = "nil"
    /\ main \in {"setUp", "loop", "invoke"} => p = "set"
    /\ p # job => main = "assign"
    /\ main \in {"newAction", "assign", "setUp"} \/ p = "nil" =>
          iteration = 0 /\ files = {} /\ announced = {}
    /\ main \in {"newAction", "assign"} => stages = {}
    /\ exited = "panic" => main = "assign"

\* A goroutine of Invoke lives only while main waits for it, and the results
\* are its published PIDs.
Joined ==
    /\ \A i \in PID : worker[i] \in Active => main = "invoke" /\ ret = "pending"
    /\ results = {i \in PID : worker[i] = "published"}
    /\ ret = "nil" => results # {}
    /\ main = "invoke" => iteration > 0

\* Every iteration that is behind has announced a result.
HasResult(k) == \E i \in PID : <<i, k, "gz">> \in announced

Progress ==
    /\ \A i \in results : <<i, iteration, "gz">> \in announced
    /\ main = "loop" => \A k \in 1..iteration : HasResult(k)
    /\ main = "invoke" => \A k \in 1..(iteration - 1) : HasResult(k)
    /\ EndedHasEveryIteration

\* Closing events, timer, signal handler and the two CleanUps keep their order.
Ending ==
    /\ Closed \/ fired => main \in Over
    /\ cleaner["main"] # "idle" <=> main = "cleanUp"
    /\ main = "cleanUp" => fired
    /\ sig # "wait" => term
    /\ sig = "call" => p = "set"
    /\ cleaner["sig"] # "idle" => sig \in {"cleanUp", "notify", "end"}
    /\ done > 0 \/ exited = "done" => sig = "end"

\* Without a CleanUp a compressed file stays until its result is announced,
\* and afterwards.
Kept ==
    /\ ~term => \A i \in PID :
          worker[i] = "compressed" => <<i, iteration, "gz">> \in files
    /\ AnnouncedFilesStay

\* No file appears once main's CleanUp has made its listing.
Swept ==
    /\ cleaner["main"] = "remove" => files \subseteq listing["main"] \cup stuck["main"]
    /\ exited = "main" => main \in Over /\ files \subseteq stuck["main"]

(***************************************************************************)
(* The inductive invariant of the agent.  At its heart, no goroutine of    *)
(* Invoke outlives Invoke (Joined): that is what closes the stream of      *)
(* events and lets the listing of a late CleanUp be complete (Swept).      *)
(***************************************************************************)
IInv ==
    /\ TypeOK /\ Assigned /\ Joined /\ Progress /\ Ending /\ Kept /\ Swept

-----------------------------------------------------------------------------
(***************************************************************************)
(* What a comment of the code says, and the code does not do.              *)
(***************************************************************************)

\* "succeeding here would end the run without a result": an Ended run has
\* announced a result.
EndedHasResult == "Ended" \in stages => announced # {}
=============================================================================
