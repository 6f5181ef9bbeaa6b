------------------------- MODULE JcmdRecordingProofs -------------------------
(***************************************************************************)
(* Proofs about the jcmd profiler, for any number of target PIDs.  First   *)
(* CleanUp's use of the channel recordingPIDs, with an invariant of its    *)
(* own: a CleanUp that runs alone neither blocks nor panics.  Then the     *)
(* recordings: without a SIGTERM what is published is whole, and main's    *)
(* CleanUp leaves no recording running.                                    *)
(***************************************************************************)
EXTENDS JcmdRecording, TLAPS

\* The empty channel, nothing sent.
LEMMA InitChannel == Init => ChannelInv
<1> SUFFICES ASSUME Init PROVE ChannelInv
  OBVIOUS
<1> USE NAssumption
<1>0. /\ chan \in Seq(PID)
      /\ sent \in [Cleaner -> 0..N]
      /\ cleanUp \in [Cleaner -> CleanUps]
  BY DEF Init, CleanUps
<1>1. TypeOK
  BY <1>0 DEF Init, TypeOK, Recordings
<1>2. Backlog
  BY DEF Init, Backlog, Cleaner
<1>q. QED
  BY <1>1, <1>2 DEF ChannelInv

(***************************************************************************)
(* The steps of SetUp, of the goroutines of Invoke and of the JVM leave    *)
(* the channel and the CleanUps alone.                                     *)
(***************************************************************************)
LEMMA WorkPreservesChannel ==
  ASSUME ChannelInv,
         \/ SetUpFails \/ SetUp \/ RunReturns \/ MainReturns \/ SigTerm \/ SigExits
         \/ \E i \in PID :
              \/ Start(i) \/ StartFails(i) \/ Publish(i) \/ PublishFails(i)
              \/ RecordingEnds(i)
              \/ Checks(i) \/ CheckFails(i) \/ CheckOver(i) \/ CheckRunning(i)
  PROVE  ChannelInv'
<1>0. TypeOK /\ Backlog
  BY DEF ChannelInv
<1>1. CASE SetUpFails \/ SetUp \/ RunReturns \/ MainReturns \/ SigTerm \/ SigExits
  <2>1. TypeOK'
    BY <1>0, <1>1 DEF TypeOK, SetUpFails, SetUp, RunReturns, MainReturns, SigTerm,
                      SigExits, chanVars, workVars, cleanVars, PID
  <2>2. Backlog'
    BY <1>0, <1>1 DEF Backlog, SetUpFails, SetUp, RunReturns, MainReturns, SigTerm,
                      SigExits, chanVars, cleanVars
  <2>q. QED
    BY <2>1, <2>2 DEF ChannelInv
<1>2. ASSUME NEW i \in PID,
             \/ Start(i) \/ StartFails(i) \/ Publish(i) \/ PublishFails(i)
             \/ RecordingEnds(i)
             \/ Checks(i) \/ CheckFails(i) \/ CheckOver(i) \/ CheckRunning(i)
      PROVE  ChannelInv'
  <2>1. CASE Start(i) \/ StartFails(i) \/ RecordingEnds(i)
    <3>1. TypeOK'
      BY <1>0, <2>1 DEF TypeOK, Recordings, Start, StartFails, RecordingEnds, chanVars, cleanVars, PID
    <3>2. Backlog'
      BY <1>0, <2>1 DEF Backlog, Start, StartFails, RecordingEnds, chanVars, cleanVars
    <3>q. QED
      BY <3>1, <3>2 DEF ChannelInv
  <2>2. CASE Publish(i) \/ PublishFails(i)
    <3>1. TypeOK'
      BY <1>0, <2>2 DEF TypeOK, Recordings, Publish, PublishFails, chanVars, cleanVars, PID
    <3>2. Backlog'
      BY <1>0, <2>2 DEF Backlog, Publish, PublishFails, chanVars, cleanVars
    <3>q. QED
      BY <3>1, <3>2 DEF ChannelInv
  <2>3. CASE Checks(i) \/ CheckFails(i) \/ CheckOver(i) \/ CheckRunning(i)
    <3>1. TypeOK'
      <4>1. /\ watcher' \in [PID -> {"none", "select", "check", "gone"}]
            /\ worker' \in [PID -> {"idle", "recording", "publish", "published", "failed"}]
            /\ broken' \subseteq PID
        BY <1>0, <2>3 DEF TypeOK, Checks, CheckFails, CheckOver, CheckRunning, Signals
      <4>q. QED
        BY <1>0, <2>3, <4>1 DEF TypeOK, Checks, CheckFails, CheckOver, CheckRunning,
                                chanVars, cleanVars, PID
    <3>2. Backlog'
      BY <1>0, <2>3 DEF Backlog, Checks, CheckFails, CheckOver, CheckRunning, Signals,
                        chanVars, cleanVars
    <3>q. QED
      BY <3>1, <3>2 DEF ChannelInv
  <2>q. QED
    BY <1>2, <2>1, <2>2, <2>3
<1>q. QED
  BY <1>1, <1>2

\* A watcher that receives only makes room in the channel.
LEMMA ReceivePreservesChannel ==
  ASSUME ChannelInv, NEW i \in PID, SeesStop(i) \/ DropsOther(i)
  PROVE  ChannelInv'
<1> USE NAssumption
<1>1. chan \in Seq(PID) /\ chan # <<>> /\ chan' = Tail(chan)
  BY DEF ChannelInv, TypeOK, SeesStop, DropsOther
<1>2. chan' \in Seq(PID) /\ Len(chan') = Len(chan) - 1 /\ Len(chan) \in Nat
  BY <1>1
<1>3. TypeOK'
  BY <1>2 DEF ChannelInv, TypeOK, SeesStop, DropsOther, workVars, cleanVars, PID
<1>4. Backlog'
  BY <1>2 DEF ChannelInv, TypeOK, Backlog, SeesStop, DropsOther, cleanVars, Cleaner
<1>q. QED
  BY <1>3, <1>4 DEF ChannelInv

(***************************************************************************)
(* The steps of CleanUp: a send adds one value and counts one PID; Stop    *)
(* goes on to the next PID only while one is left.                         *)
(***************************************************************************)
LEMMA CleanUpPreservesChannel ==
  ASSUME ChannelInv, NEW c \in Cleaner,
         CleanUpSteps(c) \/ GraceOver \/ SigCleansUp
  PROVE  ChannelInv'
<1> USE NAssumption
<1>0. TypeOK /\ Backlog
  BY DEF ChannelInv
<1>1. CASE Send(c)
  <2>1. chan \in Seq(PID) /\ Len(chan) \in Nat /\ sent[c] + 1 \in PID /\ sent[c] \in 0..N
    BY <1>0, <1>1 DEF TypeOK, Backlog, Send, PID
  <2>2. chan' \in Seq(PID) /\ Len(chan') = Len(chan) + 1
    BY <1>1, <2>1 DEF Send
  <2>3. /\ sent' \in [Cleaner -> 0..N]
        /\ sent' = [sent EXCEPT ![c] = sent[c] + 1]
        /\ sent'[c] = sent[c] + 1
    BY <1>0, <1>1, <2>1 DEF TypeOK, Send, PID
  <2>4. TypeOK'
    BY <1>0, <1>1, <2>2, <2>3 DEF TypeOK, Send, workVars, CleanUps, PID
  <2>5. sent'["main"] + sent'["sig"] = sent["main"] + sent["sig"] + 1
    BY <1>0, <2>3 DEF TypeOK, Cleaner
  <2>6. Len(chan') <= sent'["main"] + sent'["sig"]
    BY <1>0, <2>1, <2>2, <2>5 DEF Backlog, TypeOK, Cleaner
  <2>7. \A d \in Cleaner :
          /\ cleanUp'[d] = "idle" => sent'[d] = 0
          /\ cleanUp'[d] = "send" => sent'[d] < N
          /\ cleanUp'[d] = "stop" => sent'[d] > 0
    BY <1>0, <1>1, <2>1, <2>3 DEF Backlog, TypeOK, Send
  <2>8. closed' => \E d \in Cleaner : cleanUp'[d] = "finished"
    BY <1>1 DEF Send
  <2>q. QED
    BY <2>4, <2>6, <2>7, <2>8 DEF ChannelInv, Backlog
<1>2. CASE Stop(c)
  <2>1. sent[c] \in PID /\ AfterSends(sent[c]) \in CleanUps
    BY <1>0, <1>2 DEF TypeOK, Backlog, Stop, AfterSends, CleanUps, PID
  <2>2. TypeOK'
    <3>1. PICK s \in {"stopped", "unstopped"} :
            rec' = [rec EXCEPT ![sent[c]] = IF Running(sent[c]) THEN s ELSE @]
      BY <1>2 DEF Stop
    <3>2. rec' \in [PID -> Recordings]
      BY <1>0, <3>1 DEF TypeOK, Recordings
    <3>q. QED
      BY <1>0, <1>2, <2>1, <3>2 DEF TypeOK, Stop, chanVars
  <2>3. Backlog'
    BY <1>0, <1>2, <2>1 DEF TypeOK, Backlog, Stop, AfterSends, chanVars, Cleaner, PID
  <2>q. QED
    BY <2>2, <2>3 DEF ChannelInv
<1>3. CASE RemoveFiles(c)
  <2>1. TypeOK'
    BY <1>0, <1>3 DEF TypeOK, RemoveFiles, chanVars, workVars, CleanUps, PID
  <2>2. Backlog'
    BY <1>0, <1>3 DEF TypeOK, Backlog, RemoveFiles, chanVars, Cleaner
  <2>q. QED
    BY <2>1, <2>2 DEF ChannelInv
<1>4. CASE Close(c)
  <2>1. TypeOK'
    BY <1>0, <1>4 DEF TypeOK, Close, workVars, CleanUps, PID
  <2>2. Backlog'
    BY <1>0, <1>4 DEF TypeOK, Backlog, Close, Cleaner
  <2>q. QED
    BY <2>1, <2>2 DEF ChannelInv
<1>5. CASE SendPanics(c) \/ ClosePanics(c)
  BY <1>0, <1>5 DEF ChannelInv, TypeOK, Backlog, SendPanics, ClosePanics, chanVars, workVars,
                    cleanVars, PID
<1>6. ASSUME NEW d \in Cleaner, Begin(d),
             UNCHANGED <<output, chanVars, workVars, sent, term, exited>>,
             main' \in {"setUp", "run", "ending", "cleanUp", "end"}
      PROVE  ChannelInv'
  <2>1. /\ cleanUp[d] = "idle" /\ sent[d] = 0
        /\ cleanUp' = [cleanUp EXCEPT ![d] = cleanUp'[d]]
        /\ cleanUp'[d] \in {"send", "remove", "removeOnly"}
        /\ cleanUp'[d] = "send" => 0 < N
    BY <1>0, <1>6 DEF TypeOK, Backlog, Begin, AfterSends
  <2>2. TypeOK'
    BY <1>0, <1>6, <2>1 DEF TypeOK, chanVars, workVars, CleanUps, PID
  <2>3. Backlog'
    BY <1>0, <1>6, <2>1 DEF TypeOK, Backlog, chanVars, Cleaner
  <2>q. QED
    BY <2>2, <2>3 DEF ChannelInv
<1>7. CASE GraceOver
  BY <1>6, <1>7 DEF GraceOver, Cleaner
<1>8. CASE SigCleansUp
  BY <1>0, <1>6, <1>8 DEF SigCleansUp, Cleaner, TypeOK
<1>q. QED
  BY <1>1, <1>2, <1>3, <1>4, <1>5, <1>7, <1>8 DEF CleanUpSteps

\* Every step of the specification is one of the three kinds above.
LEMMA NextChannel == ChannelInv /\ [Next]_vars => ChannelInv'
<1> SUFFICES ASSUME ChannelInv, [Next]_vars PROVE ChannelInv'
  OBVIOUS
<1>1. CASE MainSteps
  BY <1>1, WorkPreservesChannel, CleanUpPreservesChannel DEF MainSteps, Cleaner
<1>2. CASE SigTerm
  BY <1>2, WorkPreservesChannel
<1>3. CASE SigSteps
  BY <1>3, WorkPreservesChannel, CleanUpPreservesChannel DEF SigSteps, Cleaner
<1>4. ASSUME NEW i \in PID,
             \/ Start(i) \/ StartFails(i) \/ Publish(i) \/ PublishFails(i)
             \/ RecordingEnds(i)
             \/ Watch(i)
      PROVE  ChannelInv'
  BY <1>4, WorkPreservesChannel, ReceivePreservesChannel DEF Watch
<1>5. CASE UNCHANGED vars
  BY <1>5 DEF ChannelInv, TypeOK, Backlog, vars, chanVars, workVars, cleanVars, PID
<1>q. QED
  BY <1>1, <1>2, <1>3, <1>4, <1>5 DEF Next

(***************************************************************************)
(* The invariant of the channel, in every reachable state.                 *)
(***************************************************************************)
LEMMA ChannelHolds == Spec => []ChannelInv
BY InitChannel, NextChannel, PTL DEF Spec

(***************************************************************************)
(* A buffer of len(targetPIDs) is enough for one CleanUp, whatever the     *)
(* watchers do: alone, it neither blocks on a send nor panics.             *)
(***************************************************************************)
THEOREM SoleCleanUpNeverBlocks == Spec => []SoleCleanUpIsFree
<1>1. ChannelInv => SoleCleanUpIsFree
  <2> SUFFICES ASSUME ChannelInv, ~(Begun("main") /\ Begun("sig")), NEW c \in Cleaner
               PROVE  /\ cleanUp[c] = "send" => Len(chan) < N /\ ~closed
                      /\ cleanUp[c] = "close" => ~closed
    BY DEF SoleCleanUpIsFree
  <2> USE NAssumption
  <2>1. PICK d \in Cleaner : d # c
    BY DEF Cleaner
  <2>2. SUFFICES ASSUME cleanUp[c] # "idle"
                 PROVE  /\ cleanUp[c] = "send" => Len(chan) < N /\ ~closed
                        /\ cleanUp[c] = "close" => ~closed
    OBVIOUS
  <2>3. cleanUp[d] = "idle" /\ sent[d] = 0
    BY <2>1, <2>2 DEF Begun, Cleaner, ChannelInv, Backlog
  <2>4. Len(chan) <= sent[c]
    BY <2>1, <2>3 DEF ChannelInv, TypeOK, Backlog, Cleaner
  <2>5. closed => cleanUp[c] = "finished"
    BY <2>1, <2>3 DEF ChannelInv, Backlog, Cleaner
  <2>6. Len(chan) \in Nat /\ sent[c] \in Nat
    BY DEF ChannelInv, TypeOK
  <2>q. QED
    BY <2>4, <2>5, <2>6 DEF ChannelInv, Backlog
<1>q. QED
  BY <1>1, ChannelHolds, PTL

-----------------------------------------------------------------------------
(* The recordings.                                                         *)

\* SetUp, and a goroutine that starts its recording.
LEMMA StartPreservesRecordings ==
  ASSUME IInv, Alive, NEW i \in PID, Start(i) \/ StartFails(i)
  PROVE  (InRun /\ Recorded /\ StoppedBehind /\ PublishesWholeRecordings)'
<1> USE NAssumption DEF chanVars, workVars, cleanVars
<1>0. TypeOK /\ Backlog /\ InRun /\ Recorded /\ StoppedBehind /\ PublishesWholeRecordings
  BY DEF IInv, ChannelInv
<1>1. CASE Start(i)
  <2>1. InRun'
    BY <1>0, <1>1 DEF InRun, Begun, Start, TypeOK, Alive
  <2>2. Recorded'
    BY <1>0, <1>1 DEF Recorded, Start, TypeOK, Alive
  <2>3. StoppedBehind'
    BY <1>0, <1>1 DEF StoppedBehind, EntersLoop, Start, TypeOK, Alive, InRun, Begun,
                    Cleaner
  <2>4. PublishesWholeRecordings'
    BY <1>0, <1>1 DEF PublishesWholeRecordings, Start
  <2>q. QED
    BY <2>1, <2>2, <2>3, <2>4
<1>2. CASE StartFails(i)
  <2>1. InRun'
    BY <1>0, <1>2 DEF InRun, Begun, StartFails, TypeOK, Alive
  <2>2. Recorded'
    BY <1>0, <1>2 DEF Recorded, StartFails, TypeOK, Alive
  <2>3. StoppedBehind' /\ PublishesWholeRecordings'
    BY <1>0, <1>2 DEF StoppedBehind, EntersLoop, PublishesWholeRecordings, StartFails
  <2>q. QED
    BY <2>1, <2>2, <2>3
<1>q. QED
  BY <1>1, <1>2

\* What is published without a SIGTERM has ended, or its JFR.check failed.
LEMMA PublishPreservesRecordings ==
  ASSUME IInv, Alive, NEW i \in PID, Publish(i) \/ PublishFails(i) \/ RecordingEnds(i)
  PROVE  (InRun /\ Recorded /\ StoppedBehind /\ PublishesWholeRecordings)'
<1> USE NAssumption DEF chanVars, workVars, cleanVars
<1>0. TypeOK /\ Backlog /\ InRun /\ Recorded /\ StoppedBehind /\ PublishesWholeRecordings
  BY DEF IInv, ChannelInv
<1>1. CASE Publish(i)
  <2>1. InRun'
    BY <1>0, <1>1 DEF InRun, Begun, Publish, TypeOK, Alive
  <2>2. Recorded'
    BY <1>0, <1>1 DEF Recorded, Publish, TypeOK, Alive
  <2>3. PublishesWholeRecordings'
    BY <1>0, <1>1 DEF PublishesWholeRecordings, Publish, TypeOK, Alive, Recorded
  <2>4. StoppedBehind'
    BY <1>0, <1>1 DEF StoppedBehind, EntersLoop, Publish
  <2>q. QED
    BY <2>1, <2>2, <2>3, <2>4
<1>2. CASE PublishFails(i)
  <2>1. InRun'
    BY <1>0, <1>2 DEF InRun, Begun, PublishFails, TypeOK, Alive
  <2>2. Recorded'
    BY <1>0, <1>2 DEF Recorded, PublishFails, TypeOK, Alive
  <2>3. StoppedBehind' /\ PublishesWholeRecordings'
    BY <1>0, <1>2 DEF StoppedBehind, EntersLoop, PublishesWholeRecordings,
                    PublishFails
  <2>q. QED
    BY <2>1, <2>2, <2>3
<1>3. CASE RecordingEnds(i)
  <2>1. Recorded'
    BY <1>0, <1>3 DEF Recorded, RecordingEnds, Running, TypeOK, Alive
  <2>2. StoppedBehind'
    BY <1>0, <1>3 DEF StoppedBehind, EntersLoop, RecordingEnds, Running, TypeOK, Alive
  <2>3. InRun' /\ PublishesWholeRecordings'
    BY <1>0, <1>3 DEF InRun, Begun, PublishesWholeRecordings, RecordingEnds, Running
  <2>q. QED
    BY <2>1, <2>2, <2>3
<1>q. QED
  BY <1>1, <1>2, <1>3

(***************************************************************************)
(* The watcher: it hands a recording over that is not running or whose     *)
(* check failed; one not running has ended, or a CleanUp stopped it, and   *)
(* during the run that can only be a SIGTERM's.                            *)
(***************************************************************************)
LEMMA WatchPreservesRecordings ==
  ASSUME IInv, Alive, NEW i \in PID, SeesStop(i) \/ DropsOther(i) \/ Checks(i) \/
         CheckRunning(i) \/ CheckFails(i) \/ CheckOver(i)
  PROVE  (InRun /\ Recorded /\ StoppedBehind /\ PublishesWholeRecordings)'
<1> USE NAssumption DEF chanVars, workVars, cleanVars
<1>0. TypeOK /\ Backlog /\ InRun /\ Recorded /\ StoppedBehind /\ PublishesWholeRecordings
  BY DEF IInv, ChannelInv
<1>1. CASE SeesStop(i)
  <2>1. Recorded'
    BY <1>0, <1>1 DEF Recorded, SeesStop, TypeOK, Alive
  <2>2. InRun' /\ StoppedBehind' /\ PublishesWholeRecordings'
    BY <1>0, <1>1 DEF InRun, Begun, StoppedBehind, EntersLoop,
                    PublishesWholeRecordings, SeesStop
  <2>q. QED
    BY <2>1, <2>2
<1>2. CASE DropsOther(i) \/ Checks(i) \/ CheckRunning(i)
  <2>1. Recorded'
    BY <1>0, <1>2 DEF Recorded, DropsOther, Checks, CheckRunning, Running, TypeOK,
                    Alive
  <2>2. InRun' /\ StoppedBehind' /\ PublishesWholeRecordings'
    BY <1>0, <1>2 DEF InRun, Begun, StoppedBehind, EntersLoop,
                    PublishesWholeRecordings, DropsOther, Checks, CheckRunning,
                    Running
  <2>q. QED
    BY <2>1, <2>2
<1>3. CASE CheckFails(i)
  <2>1. InRun'
    BY <1>0, <1>3 DEF InRun, Begun, CheckFails, Signals, TypeOK, Alive, Recorded
  <2>2. Recorded'
    BY <1>0, <1>3 DEF Recorded, CheckFails, Signals, TypeOK, Alive
  <2>3. PublishesWholeRecordings'
    BY <1>0, <1>3 DEF PublishesWholeRecordings, CheckFails, Signals, TypeOK, Alive
  <2>4. StoppedBehind'
    BY <1>0, <1>3 DEF StoppedBehind, EntersLoop, CheckFails, Signals
  <2>q. QED
    BY <2>1, <2>2, <2>3, <2>4
<1>4. CASE CheckOver(i)
  <2>1. InRun'
    BY <1>0, <1>4 DEF InRun, Begun, CheckOver, Signals, Running, TypeOK, Alive,
                    Recorded
  <2>2. Recorded'
    BY <1>0, <1>4 DEF Recorded, CheckOver, Signals, Running, TypeOK, Alive, InRun,
                    Recordings
  <2>3. StoppedBehind' /\ PublishesWholeRecordings'
    BY <1>0, <1>4 DEF StoppedBehind, EntersLoop, PublishesWholeRecordings, CheckOver,
                    Signals, Running
  <2>q. QED
    BY <2>1, <2>2, <2>3
<1>q. QED
  BY <1>1, <1>2, <1>3, <1>4

\* main and the signal: the run is left only when its goroutines are through.
LEMMA MainPreservesRecordings ==
  ASSUME IInv, Alive, SetUpFails \/ SetUp \/ RunReturns \/ GraceOver \/ MainReturns \/
         SigTerm \/ SigCleansUp \/ SigExits
  PROVE  (InRun /\ Recorded /\ StoppedBehind /\ PublishesWholeRecordings)'
<1> USE NAssumption DEF chanVars, workVars, cleanVars
<1>0. TypeOK /\ Backlog /\ InRun /\ Recorded /\ StoppedBehind /\ PublishesWholeRecordings
  BY DEF IInv, ChannelInv
<1>1. CASE SetUpFails \/ SetUp
  <2>1. InRun'
    BY <1>0, <1>1 DEF InRun, Begun, SetUpFails, SetUp, TypeOK, Alive
  <2>2. Recorded'
    BY <1>0, <1>1 DEF Recorded, SetUpFails, SetUp, TypeOK, Alive
  <2>3. StoppedBehind'
    BY <1>0, <1>1 DEF StoppedBehind, EntersLoop, SetUpFails, SetUp, TypeOK, Alive,
                    InRun, Begun, Cleaner
  <2>4. PublishesWholeRecordings'
    BY <1>0, <1>1 DEF PublishesWholeRecordings, SetUpFails, SetUp
  <2>q. QED
    BY <2>1, <2>2, <2>3, <2>4
<1>2. CASE RunReturns
  <2>1. InRun'
    BY <1>0, <1>2 DEF InRun, Begun, RunReturns, TypeOK, Alive
  <2>2. Recorded'
    BY <1>0, <1>2 DEF Recorded, RunReturns, TypeOK, Alive
  <2>3. StoppedBehind' /\ PublishesWholeRecordings'
    BY <1>0, <1>2 DEF StoppedBehind, EntersLoop, PublishesWholeRecordings, RunReturns
  <2>q. QED
    BY <2>1, <2>2, <2>3
<1>3. CASE GraceOver
  <2>1. InRun'
    BY <1>0, <1>3 DEF InRun, Begun, GraceOver, Begin, AfterSends, TypeOK, Alive,
                    Cleaner
  <2>2. Recorded'
    BY <1>0, <1>3 DEF Recorded, GraceOver, Begin, AfterSends, TypeOK, Alive
  <2>3. StoppedBehind'
    BY <1>0, <1>3 DEF StoppedBehind, EntersLoop, GraceOver, Begin, AfterSends, TypeOK,
                    Alive, Backlog, Cleaner, PID
  <2>4. PublishesWholeRecordings'
    BY <1>0, <1>3 DEF PublishesWholeRecordings, GraceOver, Begin, AfterSends
  <2>q. QED
    BY <2>1, <2>2, <2>3, <2>4
<1>4. CASE MainReturns
  <2>1. InRun'
    BY <1>0, <1>4 DEF InRun, Begun, MainReturns, TypeOK, Alive
  <2>2. Recorded'
    BY <1>0, <1>4 DEF Recorded, MainReturns, TypeOK, Alive
  <2>3. StoppedBehind' /\ PublishesWholeRecordings'
    BY <1>0, <1>4 DEF StoppedBehind, EntersLoop, PublishesWholeRecordings, MainReturns
  <2>q. QED
    BY <2>1, <2>2, <2>3
<1>5. CASE SigTerm
  <2>1. InRun'
    BY <1>0, <1>5 DEF InRun, Begun, SigTerm, TypeOK, Alive
  <2>2. Recorded'
    BY <1>0, <1>5 DEF Recorded, SigTerm, TypeOK, Alive
  <2>3. PublishesWholeRecordings'
    BY <1>0, <1>5 DEF PublishesWholeRecordings, SigTerm, TypeOK, Alive
  <2>4. StoppedBehind'
    BY <1>0, <1>5 DEF StoppedBehind, EntersLoop, SigTerm
  <2>q. QED
    BY <2>1, <2>2, <2>3, <2>4
<1>6. CASE SigCleansUp
  <2>1. InRun'
    BY <1>0, <1>6 DEF InRun, Begun, SigCleansUp, Begin, AfterSends, TypeOK, Alive,
                    Cleaner
  <2>2. StoppedBehind'
    BY <1>0, <1>6 DEF StoppedBehind, EntersLoop, SigCleansUp, Begin, AfterSends,
                    TypeOK, Alive, Cleaner
  <2>3. Recorded' /\ PublishesWholeRecordings'
    BY <1>0, <1>6 DEF Recorded, PublishesWholeRecordings, SigCleansUp, Begin,
                    AfterSends
  <2>q. QED
    BY <2>1, <2>2, <2>3
<1>7. CASE SigExits
  <2>1. InRun'
    BY <1>0, <1>7 DEF InRun, Begun, SigExits, TypeOK, Alive
  <2>2. Recorded' /\ StoppedBehind' /\ PublishesWholeRecordings'
    BY <1>0, <1>7 DEF Recorded, StoppedBehind, EntersLoop, PublishesWholeRecordings,
                    SigExits
  <2>q. QED
    BY <2>1, <2>2
<1>q. QED
  BY <1>1, <1>2, <1>3, <1>4, <1>5, <1>6, <1>7

(***************************************************************************)
(* CleanUp stops the recording of the PID it has just sent.                *)
(***************************************************************************)
LEMMA CleanUpPreservesRecordings ==
  ASSUME IInv, Alive, NEW c \in Cleaner, Send(c) \/ SendPanics(c) \/ ClosePanics(c) \/
         Stop(c) \/ RemoveFiles(c) \/ Close(c)
  PROVE  (InRun /\ Recorded /\ StoppedBehind /\ PublishesWholeRecordings)'
<1> USE NAssumption DEF chanVars, workVars, cleanVars
<1>0. TypeOK /\ Backlog /\ InRun /\ Recorded /\ StoppedBehind /\ PublishesWholeRecordings
  BY DEF IInv, ChannelInv
<1>1. CASE Send(c)
  <2>1. InRun'
    BY <1>0, <1>1 DEF InRun, Begun, Send, TypeOK, Alive, Cleaner
  <2>2. StoppedBehind'
    BY <1>0, <1>1 DEF StoppedBehind, EntersLoop, Send, TypeOK, Alive, Cleaner, PID
  <2>3. Recorded' /\ PublishesWholeRecordings'
    BY <1>0, <1>1 DEF Recorded, PublishesWholeRecordings, Send
  <2>q. QED
    BY <2>1, <2>2, <2>3
<1>2. CASE SendPanics(c) \/ ClosePanics(c)
  <2>1. InRun'
    BY <1>0, <1>2 DEF InRun, Begun, SendPanics, ClosePanics, TypeOK, Alive
  <2>2. Recorded' /\ StoppedBehind' /\ PublishesWholeRecordings'
    BY <1>0, <1>2 DEF Recorded, StoppedBehind, EntersLoop, PublishesWholeRecordings,
                    SendPanics, ClosePanics
  <2>q. QED
    BY <2>1, <2>2
<1>3. CASE Stop(c)
  <2>1. InRun'
    BY <1>0, <1>3 DEF InRun, Begun, Stop, Running, AfterSends, TypeOK, Alive, Cleaner
  <2>2. Recorded'
    BY <1>0, <1>3 DEF Recorded, Stop, Running, AfterSends, TypeOK, Alive, InRun,
                    Begun, Cleaner
  <2>3. StoppedBehind'
    BY <1>0, <1>3 DEF StoppedBehind, EntersLoop, Stop, Running, AfterSends, TypeOK,
                    Alive, Cleaner, PID
  <2>4. PublishesWholeRecordings'
    BY <1>0, <1>3 DEF PublishesWholeRecordings, Stop, Running, AfterSends
  <2>q. QED
    BY <2>1, <2>2, <2>3, <2>4
<1>4. CASE RemoveFiles(c)
  <2>1. InRun'
    BY <1>0, <1>4 DEF InRun, Begun, RemoveFiles, TypeOK, Alive, Cleaner
  <2>2. StoppedBehind'
    BY <1>0, <1>4 DEF StoppedBehind, EntersLoop, RemoveFiles, TypeOK, Alive, Cleaner
  <2>3. Recorded' /\ PublishesWholeRecordings'
    BY <1>0, <1>4 DEF Recorded, PublishesWholeRecordings, RemoveFiles
  <2>q. QED
    BY <2>1, <2>2, <2>3
<1>5. CASE Close(c)
  <2>1. InRun'
    BY <1>0, <1>5 DEF InRun, Begun, Close, TypeOK, Alive, Cleaner
  <2>2. StoppedBehind'
    BY <1>0, <1>5 DEF StoppedBehind, EntersLoop, Close, TypeOK, Alive, Cleaner
  <2>3. Recorded' /\ PublishesWholeRecordings'
    BY <1>0, <1>5 DEF Recorded, PublishesWholeRecordings, Close
  <2>q. QED
    BY <2>1, <2>2, <2>3
<1>q. QED
  BY <1>1, <1>2, <1>3, <1>4, <1>5
\* The first state: nothing is recorded or sent.
LEMMA InitIInv == Init => IInv
<1> SUFFICES ASSUME Init PROVE IInv
  OBVIOUS
<1>1. InRun /\ Recorded
  BY DEF Init, InRun, Recorded, Begun, Cleaner
<1>2. StoppedBehind /\ PublishesWholeRecordings
  BY DEF Init, StoppedBehind, PublishesWholeRecordings, Cleaner
<1>q. QED
  BY <1>1, <1>2, InitChannel DEF IInv

\* One step per group of actions.
LEMMA NextIInv == IInv /\ [Next]_vars => IInv'
<1> SUFFICES ASSUME IInv, [Next]_vars
             PROVE  (InRun /\ Recorded /\ StoppedBehind /\ PublishesWholeRecordings)'
  BY NextChannel DEF IInv
<1>1. CASE Next
  <2>1. CASE MainSteps \/ SigTerm \/ SigSteps
    BY <1>1, <2>1, MainPreservesRecordings, CleanUpPreservesRecordings
    DEF Next, MainSteps, SigSteps, CleanUpSteps, Cleaner
  <2>2. ASSUME NEW i \in PID,
               \/ Start(i) \/ StartFails(i) \/ Publish(i) \/ PublishFails(i)
               \/ RecordingEnds(i)
               \/ Watch(i)
        PROVE  (InRun /\ Recorded /\ StoppedBehind /\ PublishesWholeRecordings)'
    BY <1>1, <2>2, StartPreservesRecordings, PublishPreservesRecordings,
       WatchPreservesRecordings DEF Next, Watch
  <2>q. QED
    BY <1>1, <2>1, <2>2 DEF Next
<1>2. CASE UNCHANGED vars
  BY <1>2 DEF IInv, InRun, Begun, Recorded, StoppedBehind, EntersLoop,
              PublishesWholeRecordings, vars, chanVars, workVars, cleanVars
<1>q. QED
  BY <1>1, <1>2

(***************************************************************************)
(* The inductive invariant holds in every reachable state, for any number  *)
(* of target PIDs.                                                         *)
(***************************************************************************)
THEOREM InvariantHolds == Spec => []IInv
BY InitIInv, NextIInv, PTL DEF Spec

(***************************************************************************)
(* Without a SIGTERM, and but for a failed JFR.check, the watcher hands    *)
(* over only recordings that have ended: what is published is whole.       *)
(***************************************************************************)
THEOREM RecordingsAreWhole == Spec => []PublishesWholeRecordings
<1>1. IInv => PublishesWholeRecordings
  BY DEF IInv
<1>q. QED
  BY <1>1, InvariantHolds, PTL

(***************************************************************************)
(* After main's CleanUp no recording runs in the target JVM that a         *)
(* JFR.stop would have ended, but the ones of raw whose check failed.      *)
(***************************************************************************)
THEOREM GraceExitStops == Spec => []GraceExitStopsRecordings
<1>1. IInv => GraceExitStopsRecordings
  <2> SUFFICES ASSUME IInv, exited = "main", NEW i \in PID, rec[i] = "running"
               PROVE  output = "raw" /\ i \in broken
    BY DEF GraceExitStopsRecordings
  <2>1. TypeOK /\ InRun /\ Recorded /\ StoppedBehind
    BY DEF IInv, ChannelInv
  <2>2. cleanUp["main"] = "finished" /\ main \in {"cleanUp", "end"}
    BY <2>1 DEF InRun, Begun
  <2>3. made /\ worker[i] \in {"published", "failed"}
    BY <2>1, <2>2 DEF InRun, Recorded, TypeOK
  <2>4. output # "jfr"
    BY <2>1, <2>2, <2>3 DEF StoppedBehind, EntersLoop
  <2>q. QED
    BY <2>1, <2>3, <2>4 DEF TypeOK, Recorded
<1>q. QED
  BY <1>1, InvariantHolds, PTL
=============================================================================
