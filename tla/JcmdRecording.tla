---------------------------- MODULE JcmdRecording ----------------------------
(***************************************************************************)
(* profiler/jvm/jcmd.go for the outputs that record (jfr and raw): the     *)
(* goroutine of a PID starts a JFR recording in the target JVM and waits   *)
(* for its watcher, which polls JFR.check; CleanUp, called by the SIGTERM  *)
(* handler or by main after the grace period, sends every PID on the       *)
(* package's channel recordingPIDs, stops the recordings, removes the      *)
(* files and closes the channel.  One iteration of the run is modelled.    *)
(*                                                                         *)
(* The target JVM is external: a recording runs until its duration is over *)
(* or JFR.stop, and jcmd may fail.  Its time.Sleep calls are left to the   *)
(* interleaving.                                                           *)
(***************************************************************************)
EXTENDS Naturals, Sequences

CONSTANT N      \* len(targetPIDs)

ASSUME NAssumption == N \in Nat

VARIABLES
    output,     \* job.OutputType: "jfr" or "raw"
    main,       \* "setUp", "run", "ending", "cleanUp", "end"
    made,       \* recordingPIDs has been made (it is nil before SetUp)
    chan,       \* the values buffered in recordingPIDs, of capacity N
    closed,     \* recordingPIDs is closed
    worker,     \* per PID: "idle", "recording", "publish", "published", "failed"
    watcher,    \* per PID: "none", "select", "check", "gone"
    broken,     \* the PIDs for which JFR.check itself has failed
    rec,        \* per PID, the JVM's recording, see Recordings
    content,    \* per PID: what the published file holds, "none" before
    cleanUp,    \* per caller of CleanUp, see CleanUps
    sent,       \* per caller of CleanUp: how many PIDs it has sent
    term,       \* SIGTERM has been delivered
    exited      \* "no", "main", "done", "panic"

PID == 1..N
Cleaner == {"main", "sig"}

\* unstopped: still running after a JFR.stop that failed.
Recordings == {"none", "running", "unstopped", "ended", "stopped"}

CleanUps == {"idle", "send", "stop", "remove", "close", "removeOnly", "finished"}

workVars == <<worker, watcher, broken, rec, content>>
chanVars == <<made, chan, closed>>
cleanVars == <<cleanUp, sent>>
vars == <<output, main, chanVars, workVars, cleanVars, term, exited>>

TypeOK ==
    /\ output \in {"jfr", "raw"}
    /\ main \in {"setUp", "run", "ending", "cleanUp", "end"}
    /\ made \in BOOLEAN /\ closed \in BOOLEAN
    /\ chan \in Seq(PID)
    /\ worker \in [PID -> {"idle", "recording", "publish", "published", "failed"}]
    /\ watcher \in [PID -> {"none", "select", "check", "gone"}]
    /\ broken \subseteq PID
    /\ rec \in [PID -> Recordings]
    /\ content \in [PID -> Recordings]
    /\ cleanUp \in [Cleaner -> CleanUps]
    /\ sent \in [Cleaner -> 0..N]
    /\ term \in BOOLEAN
    /\ exited \in {"no", "main", "done", "panic"}

Init ==
    /\ output \in {"jfr", "raw"}
    /\ main = "setUp"
    /\ made = FALSE /\ closed = FALSE /\ chan = <<>>
    /\ worker = [i \in PID |-> "idle"]
    /\ watcher = [i \in PID |-> "none"]
    /\ broken = {}
    /\ rec = [i \in PID |-> "none"]
    /\ content = [i \in PID |-> "none"]
    /\ cleanUp = [c \in Cleaner |-> "idle"]
    /\ sent = [c \in Cleaner |-> 0]
    /\ term = FALSE
    /\ exited = "no"

-----------------------------------------------------------------------------
(* SetUp, and Invoke's goroutine of PID i.                                 *)

\* Without target filesystem, link, PIDs or settings file there is no run;
\* the channel may have been made by then.
SetUpFails ==
    /\ main = "setUp"
    /\ main' = "ending"
    /\ made' \in BOOLEAN
    /\ UNCHANGED <<output, chan, closed, workVars, cleanVars, term, exited>>

SetUp ==
    /\ main = "setUp"
    /\ main' = "run"
    /\ made' = TRUE
    /\ UNCHANGED <<output, chan, closed, workVars, cleanVars, term, exited>>

\* jcmd JFR.start succeeds; handleJcmdRecording starts the watcher.
Start(i) ==
    /\ main = "run"
    /\ worker[i] = "idle"
    /\ rec' = [rec EXCEPT ![i] = "running"]
    /\ worker' = [worker EXCEPT ![i] = "recording"]
    /\ watcher' = [watcher EXCEPT ![i] = "select"]
    /\ UNCHANGED <<output, main, chanVars, broken, content, cleanVars, term, exited>>

StartFails(i) ==
    /\ main = "run"
    /\ worker[i] = "idle"
    /\ worker' = [worker EXCEPT ![i] = "failed"]
    /\ UNCHANGED <<output, main, chanVars, watcher, broken, rec, content, cleanVars,
                   term, exited>>

\* publisher.Do on the recording, or on its summary for raw, as it is now.
Publish(i) ==
    /\ worker[i] = "publish"
    /\ worker' = [worker EXCEPT ![i] = "published"]
    /\ content' = [content EXCEPT ![i] = rec[i]]
    /\ UNCHANGED <<output, main, chanVars, watcher, broken, rec, cleanVars, term, exited>>

\* The summary, the open of a removed file or the compression fails.
PublishFails(i) ==
    /\ worker[i] = "publish"
    /\ worker' = [worker EXCEPT ![i] = "failed"]
    /\ UNCHANGED <<output, main, chanVars, watcher, broken, rec, content, cleanVars,
                   term, exited>>

\* ProfilePIDs has joined its goroutines; the grace period begins.
RunReturns ==
    /\ main = "run"
    /\ \A i \in PID : worker[i] \in {"published", "failed"}
    /\ main' = "ending"
    /\ UNCHANGED <<output, chanVars, workVars, cleanVars, term, exited>>

Running(i) == rec[i] \in {"running", "unstopped"}

\* The JVM: the duration of the recording is over and its file written.
RecordingEnds(i) ==
    /\ Running(i)
    /\ rec' = [rec EXCEPT ![i] = "ended"]
    /\ UNCHANGED <<output, main, chanVars, worker, watcher, broken, content, cleanVars,
                   term, exited>>

-----------------------------------------------------------------------------
(* The watcher of PID i.  A receive that is ready goes before the default; *)
(* on the closed channel it yields "" for ever and changes nothing.        *)

\* Its own PID: the watcher leaves, and done is never sent.
SeesStop(i) ==
    /\ watcher[i] = "select"
    /\ chan # <<>> /\ Head(chan) = i
    /\ chan' = Tail(chan)
    /\ watcher' = [watcher EXCEPT ![i] = "gone"]
    /\ UNCHANGED <<output, main, made, closed, worker, broken, rec, content, cleanVars,
                   term, exited>>

\* Another PID: the value is lost for the watcher it was meant for.
DropsOther(i) ==
    /\ watcher[i] = "select"
    /\ chan # <<>> /\ Head(chan) # i
    /\ chan' = Tail(chan)
    /\ UNCHANGED <<output, main, made, closed, workVars, cleanVars, term, exited>>

Checks(i) ==
    /\ watcher[i] = "select"
    /\ chan = <<>> /\ ~closed
    /\ watcher' = [watcher EXCEPT ![i] = "check"]
    /\ UNCHANGED <<output, main, chanVars, worker, broken, rec, content, cleanVars, term,
                   exited>>

\* JFR.check fails, or the recording is not running: done <- true.
Signals(i) ==
    /\ watcher' = [watcher EXCEPT ![i] = "gone"]
    /\ worker' = [worker EXCEPT ![i] = "publish"]

CheckFails(i) ==
    /\ watcher[i] = "check"
    /\ Signals(i)
    /\ broken' = broken \cup {i}
    /\ UNCHANGED <<output, main, chanVars, rec, content, cleanVars, term, exited>>

\* Mutant: a recording that still runs is taken for one that is over.
CheckMisreads(i) ==
    /\ watcher[i] = "check"
    /\ Signals(i)
    /\ UNCHANGED <<output, main, chanVars, broken, rec, content, cleanVars, term, exited>>

\* Mutant: the watcher leaves without telling the goroutine that waits.
CheckOverSilent(i) ==
    /\ watcher[i] = "check"
    /\ ~Running(i)
    /\ watcher' = [watcher EXCEPT ![i] = "gone"]
    /\ UNCHANGED <<output, main, chanVars, worker, broken, rec, content, cleanVars, term,
                   exited>>

CheckOver(i) ==
    /\ watcher[i] = "check"
    /\ ~Running(i)
    /\ Signals(i)
    /\ UNCHANGED <<output, main, chanVars, broken, rec, content, cleanVars, term, exited>>

CheckRunning(i) ==
    /\ watcher[i] = "check"
    /\ Running(i)
    /\ watcher' = [watcher EXCEPT ![i] = "select"]
    /\ UNCHANGED <<output, main, chanVars, worker, broken, rec, content, cleanVars, term,
                   exited>>

Watch(i) ==
    \/ SeesStop(i) \/ DropsOther(i) \/ Checks(i)
    \/ CheckFails(i) \/ CheckOver(i) \/ CheckRunning(i)

-----------------------------------------------------------------------------
(* CleanUp, as caller c runs it.                                           *)

EntersLoop == made /\ output = "jfr"

AfterSends(k) == IF k < N THEN "send" ELSE "remove"

Begin(c) ==
    /\ cleanUp[c] = "idle"
    /\ cleanUp' = [cleanUp EXCEPT ![c] = IF EntersLoop THEN AfterSends(0) ELSE "removeOnly"]

\* Mutant: the channel is closed at the first PID, not when CleanUp returns.
SendCloses(c) ==
    /\ cleanUp[c] = "send"
    /\ ~closed
    /\ Len(chan) < N
    /\ chan' = Append(chan, sent[c] + 1)
    /\ closed' = TRUE
    /\ sent' = [sent EXCEPT ![c] = @ + 1]
    /\ cleanUp' = [cleanUp EXCEPT ![c] = "stop"]
    /\ UNCHANGED <<output, main, made, workVars, term, exited>>

\* Mutant: the PID is sent twice, for the watcher and for its goroutine.
SendTwice(c) ==
    /\ cleanUp[c] = "send"
    /\ ~closed
    /\ Len(chan) < N
    /\ chan' = chan \o <<sent[c] + 1, sent[c] + 1>>
    /\ sent' = [sent EXCEPT ![c] = @ + 1]
    /\ cleanUp' = [cleanUp EXCEPT ![c] = "stop"]
    /\ UNCHANGED <<output, main, made, closed, workVars, term, exited>>

\* recordingPIDs <- pid blocks while N values are buffered.
Send(c) ==
    /\ cleanUp[c] = "send"
    /\ ~closed
    /\ Len(chan) < N
    /\ chan' = Append(chan, sent[c] + 1)
    /\ sent' = [sent EXCEPT ![c] = @ + 1]
    /\ cleanUp' = [cleanUp EXCEPT ![c] = "stop"]
    /\ UNCHANGED <<output, main, made, closed, workVars, term, exited>>

SendPanics(c) ==
    /\ cleanUp[c] = "send"
    /\ closed
    /\ exited' = "panic"
    /\ UNCHANGED <<output, main, chanVars, workVars, cleanVars, term>>

\* Mutant: only the first recording is stopped.
StopFirst(c) ==
    /\ cleanUp[c] = "stop"
    /\ \E s \in {"stopped", "unstopped"} :
         rec' = [rec EXCEPT ![sent[c]] = IF Running(sent[c]) /\ sent[c] = 1 THEN s ELSE @]
    /\ cleanUp' = [cleanUp EXCEPT ![c] = AfterSends(sent[c])]
    /\ UNCHANGED <<output, main, chanVars, worker, watcher, broken, content, sent, term,
                   exited>>

\* jcmd JFR.stop for the PID just sent; its failure is only logged.
Stop(c) ==
    /\ cleanUp[c] = "stop"
    /\ \E s \in {"stopped", "unstopped"} :
         rec' = [rec EXCEPT ![sent[c]] = IF Running(sent[c]) THEN s ELSE @]
    /\ cleanUp' = [cleanUp EXCEPT ![c] = AfterSends(sent[c])]
    /\ UNCHANGED <<output, main, chanVars, worker, watcher, broken, content, sent, term,
                   exited>>

\* file.RemoveAll, then the deferred close if the loop was entered.
RemoveFiles(c) ==
    /\ cleanUp[c] \in {"remove", "removeOnly"}
    /\ cleanUp' = [cleanUp EXCEPT ![c] = IF @ = "remove" THEN "close" ELSE "finished"]
    /\ UNCHANGED <<output, main, chanVars, workVars, sent, term, exited>>

Close(c) ==
    /\ cleanUp[c] = "close"
    /\ ~closed
    /\ closed' = TRUE
    /\ cleanUp' = [cleanUp EXCEPT ![c] = "finished"]
    /\ UNCHANGED <<output, main, made, chan, workVars, sent, term, exited>>

ClosePanics(c) ==
    /\ cleanUp[c] = "close"
    /\ closed
    /\ exited' = "panic"
    /\ UNCHANGED <<output, main, chanVars, workVars, cleanVars, term>>

CleanUpSteps(c) ==
    Send(c) \/ SendPanics(c) \/ Stop(c) \/ RemoveFiles(c) \/ Close(c) \/ ClosePanics(c)

-----------------------------------------------------------------------------
(* The two callers of CleanUp.                                             *)

\* The grace period is over.
GraceOver ==
    /\ main = "ending"
    /\ main' = "cleanUp"
    /\ Begin("main")
    /\ UNCHANGED <<output, chanVars, workVars, sent, term, exited>>

MainReturns ==
    /\ main = "cleanUp"
    /\ cleanUp["main"] = "finished"
    /\ main' = "end"
    /\ exited' = "main"
    /\ UNCHANGED <<output, chanVars, workVars, cleanVars, term>>

SigTerm ==
    /\ ~term
    /\ term' = TRUE
    /\ UNCHANGED <<output, main, chanVars, workVars, cleanVars, exited>>

SigCleansUp ==
    /\ term
    /\ Begin("sig")
    /\ UNCHANGED <<output, main, chanVars, workVars, sent, term, exited>>

\* Mutant: the handler joins the goroutines of Invoke before it exits.
SigExitsAfterJoin ==
    /\ cleanUp["sig"] = "finished"
    /\ \A i \in PID : worker[i] \in {"published", "failed"}
    /\ exited' = "done"
    /\ UNCHANGED <<output, main, chanVars, workVars, cleanVars, term>>

\* done <- true, and the done goroutine exits.
SigExits ==
    /\ cleanUp["sig"] = "finished"
    /\ exited' = "done"
    /\ UNCHANGED <<output, main, chanVars, workVars, cleanVars, term>>

Alive == exited = "no"

MainSteps == SetUpFails \/ SetUp \/ RunReturns \/ GraceOver \/ MainReturns \/ CleanUpSteps("main")

SigSteps == SigCleansUp \/ SigExits \/ CleanUpSteps("sig")

Next ==
    /\ Alive
    /\ \/ MainSteps
       \/ SigTerm
       \/ SigSteps
       \/ \E i \in PID :
            \/ Start(i) \/ StartFails(i) \/ Publish(i) \/ PublishFails(i)
            \/ RecordingEnds(i)
            \/ Watch(i)

Spec == Init /\ [][Next]_vars

(***************************************************************************)
(* Fairness: every goroutine runs when it can, jcmd returns, and the JVM   *)
(* ends a recording when its duration is over.  A SIGTERM need not come.   *)
(***************************************************************************)
FairSpec ==
    /\ Spec
    /\ WF_vars(Alive /\ MainSteps)
    /\ WF_vars(Alive /\ SigSteps)
    /\ \A i \in PID :
         /\ WF_vars(Alive /\ (Start(i) \/ StartFails(i)))
         /\ WF_vars(Alive /\ (Publish(i) \/ PublishFails(i)))
         /\ WF_vars(Alive /\ RecordingEnds(i))
         /\ WF_vars(Alive /\ Watch(i))

-----------------------------------------------------------------------------
(* What makes recording and cleaning up correct.                           *)

Begun(c) == cleanUp[c] # "idle"

(***************************************************************************)
(* A CleanUp that runs alone never blocks on the channel and never panics: *)
(* the buffer of len(targetPIDs) is enough whether the watchers receive or *)
(* have long gone, and the channel is still open.                          *)
(***************************************************************************)
SoleCleanUpIsFree ==
    ~(Begun("main") /\ Begun("sig")) =>
        \A c \in Cleaner :
            /\ cleanUp[c] = "send" => Len(chan) < N /\ ~closed
            /\ cleanUp[c] = "close" => ~closed

(***************************************************************************)
(* The invariant behind it, inductive with the types: the channel never    *)
(* holds more values than the two CleanUps have sent, a CleanUp has a PID  *)
(* left whenever it is about to send, and a closed channel has a finished  *)
(* CleanUp.                                                                *)
(***************************************************************************)
Backlog ==
    /\ Len(chan) <= sent["main"] + sent["sig"]
    /\ \A c \in Cleaner : cleanUp[c] = "idle" => sent[c] = 0
    /\ \A c \in Cleaner : cleanUp[c] = "send" => sent[c] < N
    /\ \A c \in Cleaner : cleanUp[c] = "stop" => sent[c] > 0
    /\ closed => \E c \in Cleaner : cleanUp[c] = "finished"

ChannelInv == TypeOK /\ Backlog

(***************************************************************************)
(* What is published is the whole recording, unless JFR.check failed for   *)
(* this PID or a SIGTERM came.                                             *)
(***************************************************************************)
PublishesWholeRecordings ==
    \A i \in PID : content[i] # "none" /\ content[i] # "ended" => i \in broken \/ term

(***************************************************************************)
(* The agent that ends after its grace period leaves no recording running  *)
(* in the target JVM, even one whose JFR.check failed, for jfr, but one    *)
(* whose JFR.stop fails; for raw, CleanUp stops nothing and a recording    *)
(* whose JFR.check failed may be left.                                     *)
(***************************************************************************)
GraceExitStopsRecordings ==
    exited = "main" =>
        \A i \in PID : rec[i] = "running" => output = "raw" /\ i \in broken

(***************************************************************************)
(* Why these two hold.  Goroutines record and publish only while main runs *)
(* Invoke, and only a SIGTERM's CleanUp overlaps with that: without one, a *)
(* recording that is not running has ended.                                *)
(***************************************************************************)
InRun ==
    /\ main = "setUp" => ~made
    /\ main = "run" => made
    /\ ~made => \A i \in PID : worker[i] = "idle"
    /\ main # "run" => \A i \in PID : worker[i] \notin {"recording", "publish"}
    /\ Begun("main") => main \in {"cleanUp", "end"}
    /\ Begun("sig") => term
    /\ exited = "main" => cleanUp["main"] = "finished"

Recorded ==
    \A i \in PID :
        /\ watcher[i] \in {"select", "check"} => worker[i] = "recording"
        /\ worker[i] = "idle" => rec[i] = "none"
        /\ worker[i] = "recording" => rec[i] # "none"
        /\ rec[i] \in {"stopped", "unstopped"} => term \/ main \in {"cleanUp", "end"}
        /\ worker[i] = "publish" => rec[i] = "ended" \/ i \in broken \/ term
        /\ worker[i] \in {"publish", "published", "failed"} =>
              rec[i] # "running" \/ i \in broken

\* main's CleanUp leaves no recording running behind the PID it is at.
StoppedBehind ==
    /\ cleanUp["main"] = "removeOnly" => ~EntersLoop
    /\ cleanUp["main"] = "send" => \A i \in PID : i <= sent["main"] => rec[i] # "running"
    /\ cleanUp["main"] = "stop" => \A i \in PID : i < sent["main"] => rec[i] # "running"
    /\ EntersLoop /\ cleanUp["main"] \in {"remove", "close", "finished"} =>
          \A i \in PID : rec[i] # "running"

(***************************************************************************)
(* The inductive invariant: the channel, the recordings and main's CleanUp.*)
(***************************************************************************)
IInv == ChannelInv /\ InRun /\ Recorded /\ StoppedBehind /\ PublishesWholeRecordings

(***************************************************************************)
(* Without a SIGTERM the run is joined and the agent ends by itself: no    *)
(* goroutine waits for a watcher that has left.                            *)
(***************************************************************************)
EndsWithoutSigTerm == []~term => <>(exited = "main")

(***************************************************************************)
(* A SIGTERM during the run ends the agent although it leaves goroutines   *)
(* waiting on done for ever, as long as main is not cleaning up too.       *)
(***************************************************************************)
SigTermEndsAlone == []~Begun("main") => (term ~> ~Alive)

(***************************************************************************)
(* What the code says of itself, and does not do.                          *)
(***************************************************************************)

\* "Passed this time, the agent will be auto-deleted."
AutoDeleted == Begun("main") ~> ~Alive

\* "Stopping is detected. Ignoring jcmd recording for PID": a recording that
\* CleanUp stopped is not published, unless its JFR.check failed.
StoppedIsIgnored == \A i \in PID : content[i] = "stopped" => i \in broken
=============================================================================
