------------------------- MODULE AgentLifecycleProofs -------------------------
(***************************************************************************)
(* Proofs about the agent process, for any number of target PIDs, any      *)
(* number of iterations and any durations: the inductive invariant IInv,   *)
(* the invariants of the agent that follow from it, that its stream of     *)
(* events closes, and that a SIGTERM in the grace period cleans up.        *)
(***************************************************************************)
EXTENDS AgentLifecycle, TLAPS

\* The initial states: no job, no file, nothing printed.
LEMMA InitIInv == Init => IInv
<1> SUFFICES ASSUME Init PROVE IInv
  OBVIOUS
<1> USE LifecycleAssumption
<1>0. /\ worker \in [PID -> Workers]
      /\ cleaner \in [Cleaner -> {"idle", "list", "remove"}]
      /\ listing \in [Cleaner -> SUBSET File] /\ stuck \in [Cleaner -> SUBSET File]
  BY DEF Init, Workers
<1>1. TypeOK
  <2>1. term \in BOOLEAN /\ fired \in BOOLEAN
    BY DEF Init
  <2>2. /\ targets \in 0..MaxPIDs
        /\ iteration \in 0..MaxIterations
        /\ iterations \in Int /\ iterations <= MaxIterations + 1
        /\ done \in 0..1
    BY DEF Init
  <2>q. QED
    BY <1>0, <2>1, <2>2 DEF Init, TypeOK, Mains, Sigs
<1>2. Assigned /\ Kept /\ Swept
  BY DEF Init, Assigned, Kept, AnnouncedFilesStay, Swept, Cleaner
<1>3. Joined /\ Progress
  BY DEF Init, Joined, Active, Progress, EndedHasEveryIteration
<1>4. Ending
  BY DEF Init, Ending, Closed, Cleaner
<1>q. QED
  BY <1>1, <1>2, <1>3, <1>4 DEF IInv

\* The count of Run is one the model's iterations can hold.
LEMMA IterationsOfType ==
  ASSUME NEW d \in Durations, NEW i \in Durations, NEW k \in IterationsOf(d, i)
  PROVE  k \in Int /\ k <= MaxIterations + 1
<1> USE LifecycleAssumption
<1>1. d \in Int /\ i \in Int
  OBVIOUS
<1>2. CASE i > 0
  <2>1. d \div i \in Int
    BY <1>1, <1>2, Z3
  <2>q. QED
    BY <1>2, <2>1 DEF IterationsOf, AtMostBound
<1>3. CASE i = 0
  BY <1>1, <1>3 DEF IterationsOf, Lowest
<1>4. CASE i < 0
  <2>1. d > 0 => d \div (-i) \in Int /\ d \div (-i) >= 0
    BY <1>1, <1>4, Z3
  <2>2. k = 0 \/ (k = 1 /\ d <= 0 /\ d = i) \/ (d > 0 /\ k = -(d \div (-i)))
    BY <1>1, <1>4 DEF IterationsOf
  <2>q. QED
    BY <2>1, <2>2
<1>q. QED
  BY <1>1, <1>2, <1>3, <1>4

(***************************************************************************)
(* Until SetUp there is neither a goroutine nor a file, and the globals    *)
(* differ only between their two assignments.                              *)
(***************************************************************************)
LEMMA StartPreservesIInv ==
  ASSUME IInv, Alive, NewActionFails \/ NewAction \/ AssignProfiler \/ AssignJob \/
         RunStarts \/ SetUpFails
  PROVE  IInv'
<1> USE LifecycleAssumption DEF runVars, invokeVars, outVars, cleanVars, endVars
<1>0. TypeOK /\ Assigned /\ Joined /\ Progress /\ Ending /\ Kept /\ Swept
  BY DEF IInv
<1>1. CASE NewActionFails \/ NewAction
  <2>1. TypeOK'
    <3>1. CASE NewActionFails
      BY <1>0, <3>1 DEF TypeOK, NewActionFails, Mains
    <3>2. CASE NewAction
      BY <1>0, <3>2 DEF TypeOK, NewAction, Mains
    <3>q. QED
      BY <1>1, <3>1, <3>2
  <2>2. Assigned'
    BY <1>0, <1>1 DEF Assigned, NewActionFails, NewAction, TypeOK, Alive
  <2>3. Joined'
    BY <1>0, <1>1 DEF Joined, Active, NewActionFails, NewAction, TypeOK, Alive
  <2>4. Progress'
    BY <1>0, <1>1 DEF Progress, HasResult, EndedHasEveryIteration, NewActionFails,
                    NewAction, TypeOK, Alive
  <2>5. Ending'
    BY <1>0, <1>1 DEF Ending, Over, Closed, NewActionFails, NewAction, TypeOK, Alive
  <2>6. Swept'
    BY <1>0, <1>1 DEF Swept, Over, NewActionFails, NewAction, TypeOK, Alive
  <2>7. Kept'
    BY <1>0, <1>1 DEF Kept, AnnouncedFilesStay, NewActionFails, NewAction
  <2>q. QED
    BY <2>1, <2>2, <2>3, <2>4, <2>5, <2>6, <2>7 DEF IInv
<1>2. CASE AssignProfiler \/ AssignJob
  <2>1. TypeOK'
    <3>1. CASE AssignProfiler
      BY <1>0, <3>1 DEF TypeOK, AssignProfiler, Mains
    <3>2. CASE AssignJob
      BY <1>0, <3>2 DEF TypeOK, AssignJob, Mains
    <3>q. QED
      BY <1>2, <3>1, <3>2
  <2>2. Assigned'
    BY <1>0, <1>2 DEF Assigned, AssignProfiler, AssignJob, TypeOK, Alive
  <2>3. Ending'
    BY <1>0, <1>2 DEF Ending, Over, Closed, AssignProfiler, AssignJob, TypeOK, Alive
  <2>4. Joined' /\ Progress' /\ Kept' /\ Swept'
    BY <1>0, <1>2 DEF Joined, Active, Progress, HasResult, EndedHasEveryIteration,
                    Kept, AnnouncedFilesStay, Swept, Over, AssignProfiler, AssignJob
  <2>q. QED
    BY <2>1, <2>2, <2>3, <2>4 DEF IInv
<1>3. CASE RunStarts \/ SetUpFails
  <2>1. TypeOK'
    <3>1. CASE RunStarts
      BY <1>0, <3>1 DEF TypeOK, RunStarts, Mains
    <3>2. CASE SetUpFails
      BY <1>0, <3>2 DEF TypeOK, SetUpFails, Mains
    <3>q. QED
      BY <1>3, <3>1, <3>2
  <2>2. Assigned'
    BY <1>0, <1>3 DEF Assigned, RunStarts, SetUpFails, TypeOK, Alive
  <2>3. Joined'
    BY <1>0, <1>3 DEF Joined, Active, RunStarts, SetUpFails, TypeOK, Alive
  <2>4. Progress'
    BY <1>0, <1>3 DEF Progress, HasResult, EndedHasEveryIteration, RunStarts,
                    SetUpFails, TypeOK, Alive
  <2>5. Ending'
    BY <1>0, <1>3 DEF Ending, Over, Closed, RunStarts, SetUpFails, TypeOK, Alive
  <2>6. Swept'
    BY <1>0, <1>3 DEF Swept, Over, RunStarts, SetUpFails, TypeOK, Alive
  <2>7. Kept'
    BY <1>0, <1>3 DEF Kept, AnnouncedFilesStay, RunStarts, SetUpFails
  <2>q. QED
    BY <2>1, <2>2, <2>3, <2>4, <2>5, <2>6, <2>7 DEF IInv
<1>q. QED
  BY <1>1, <1>2, <1>3

(***************************************************************************)
(* The loop of Run: Joins lets Invoke return once no goroutine is left; an *)
(* iteration is left behind only with ret = "nil", and then a published    *)
(* PID of that iteration is its announced result.                          *)
(***************************************************************************)
LEMMA RunPreservesIInv ==
  ASSUME IInv, Alive, SetUp \/ NextIteration \/ Joins \/ InvokeReturns \/ RunEnds
  PROVE  IInv'
<1> USE LifecycleAssumption DEF runVars, invokeVars, outVars, cleanVars, endVars
<1>0. TypeOK /\ Assigned /\ Joined /\ Progress /\ Ending /\ Kept /\ Swept
  BY DEF IInv
<1>1. CASE SetUp
  <2>1. TypeOK'
    <3>1. iterations' \in Int /\ iterations' <= MaxIterations + 1
      BY <1>1, IterationsOfType DEF SetUp
    <3>q. QED
      BY <1>0, <1>1, <3>1 DEF TypeOK, SetUp, Mains
  <2>2. Assigned'
    BY <1>0, <1>1 DEF Assigned, SetUp, TypeOK, Alive
  <2>3. Joined'
    BY <1>0, <1>1 DEF Joined, Active, SetUp, TypeOK, Alive
  <2>4. Progress'
    <3>1. iteration = 0 /\ "Ended" \notin stages
      BY <1>0, <1>1 DEF SetUp, Assigned, Ending, Over, Closed
    <3>q. QED
      BY <1>0, <1>1, <3>1 DEF Progress, EndedHasEveryIteration, SetUp
  <2>5. Ending'
    BY <1>0, <1>1 DEF Ending, Over, Closed, SetUp, TypeOK, Alive
  <2>6. Swept'
    BY <1>0, <1>1 DEF Swept, Over, SetUp, TypeOK, Alive
  <2>7. Kept'
    BY <1>0, <1>1 DEF Kept, AnnouncedFilesStay, SetUp
  <2>q. QED
    BY <2>1, <2>2, <2>3, <2>4, <2>5, <2>6, <2>7 DEF IInv
<1>2. CASE NextIteration
  <2>1. TypeOK'
    BY <1>0, <1>2 DEF TypeOK, NextIteration, Mains, Workers, Sigs
  <2>2. Assigned'
    BY <1>0, <1>2 DEF Assigned, NextIteration, TypeOK, Alive
  <2>3. Joined'
    BY <1>0, <1>2 DEF Joined, Active, NextIteration, TypeOK, Alive
  <2>4. Progress'
    <3>1. iteration \in Nat /\ \A k \in 1..iteration : HasResult(k)
      BY <1>0, <1>2 DEF Progress, NextIteration, TypeOK
    <3>2. "Ended" \notin stages
      BY <1>0, <1>2 DEF NextIteration, Ending, Over, Closed
    <3>q. QED
      BY <1>2, <3>1, <3>2 DEF Progress, HasResult, EndedHasEveryIteration, NextIteration
  <2>5. Ending'
    BY <1>0, <1>2 DEF Ending, Over, Closed, NextIteration, TypeOK, Alive
  <2>6. Kept'
    BY <1>0, <1>2 DEF Kept, AnnouncedFilesStay, NextIteration, TypeOK, Alive
  <2>7. Swept'
    BY <1>0, <1>2 DEF Swept, Over, NextIteration, TypeOK, Alive
  <2>q. QED
    BY <2>1, <2>2, <2>3, <2>4, <2>5, <2>6, <2>7 DEF IInv
<1>3. CASE Joins
  <2>1. TypeOK'
    <3>1. Outcome!Succeed \/ Outcome!Fail
      BY <1>3 DEF Joins, Outcome!Decide
    <3>2. results' = results /\ targets' = targets
      BY <3>1 DEF Outcome!Succeed, Outcome!Fail
    <3>3. ret' \in {"pending", "nil", "failed", "noPIDs"}
      BY <3>1 DEF Outcome!Succeed, Outcome!Fail
    <3>4. notice' \subseteq PID
      <4>1. Outcome!Targets \subseteq PID
        BY <1>0 DEF TypeOK, Outcome!Targets, PID
      <4>q. QED
        BY <1>0, <3>1, <4>1 DEF TypeOK, Outcome!Succeed, Outcome!Fail
    <3>q. QED
      BY <1>0, <1>3, <3>2, <3>3, <3>4 DEF TypeOK, Joins
  <2>2. Joined'
    BY <1>0, <1>3 DEF Joined, Active, Joins, Outcome!Decide, Outcome!Succeed,
                    Outcome!Fail, TypeOK, Alive
  <2>3. Assigned' /\ Progress' /\ Ending' /\ Kept' /\ Swept'
    BY <1>0, <1>3 DEF Assigned, Progress, HasResult, EndedHasEveryIteration, Ending,
                    Over, Closed, Kept, AnnouncedFilesStay, Swept, Joins,
                    Outcome!Decide, Outcome!Succeed, Outcome!Fail
  <2>q. QED
    BY <2>1, <2>2, <2>3 DEF IInv
<1>4. CASE InvokeReturns
  <2>1. TypeOK'
    BY <1>0, <1>4 DEF TypeOK, InvokeReturns, Mains, Workers, Sigs
  <2>2. Assigned'
    BY <1>0, <1>4 DEF Assigned, InvokeReturns, TypeOK, Alive
  <2>3. Joined'
    BY <1>0, <1>4 DEF Joined, Active, InvokeReturns, TypeOK, Alive
  <2>4. Progress'
    <3>1. "Ended" \notin stages
      BY <1>0, <1>4 DEF InvokeReturns, Ending, Over, Closed
    <3>2. ASSUME ret = "nil" PROVE \A k \in 1..iteration : HasResult(k)
      <4>1. HasResult(iteration)
        BY <1>0, <3>2 DEF Joined, Progress, HasResult
      <4>q. QED
        BY <1>0, <1>4, <4>1 DEF TypeOK, Progress, InvokeReturns
    <3>q. QED
      BY <1>0, <1>4, <3>1, <3>2 DEF Progress, HasResult, EndedHasEveryIteration, InvokeReturns
  <2>5. Ending'
    BY <1>0, <1>4 DEF Ending, Over, Closed, InvokeReturns, TypeOK, Alive
  <2>6. Swept'
    BY <1>0, <1>4 DEF Swept, Over, InvokeReturns, TypeOK, Alive
  <2>7. Kept'
    BY <1>0, <1>4 DEF Kept, AnnouncedFilesStay, InvokeReturns
  <2>q. QED
    BY <2>1, <2>2, <2>3, <2>4, <2>5, <2>6, <2>7 DEF IInv
<1>5. CASE RunEnds
  <2>1. TypeOK'
    BY <1>0, <1>5 DEF TypeOK, RunEnds, Mains, Workers, Sigs
  <2>2. Assigned'
    BY <1>0, <1>5 DEF Assigned, RunEnds, TypeOK, Alive
  <2>3. Joined'
    BY <1>0, <1>5 DEF Joined, Active, RunEnds, TypeOK, Alive
  <2>4. Progress'
    <3>1. /\ iteration \in Nat /\ iterations \in Int /\ iterations <= iteration
          /\ \A k \in 1..iteration : HasResult(k)
      BY <1>0, <1>5 DEF Progress, RunEnds, TypeOK
    <3>2. \A k \in 1..iterations : HasResult(k)
      BY <3>1
    <3>q. QED
      BY <1>0, <1>5, <3>2 DEF Progress, HasResult, EndedHasEveryIteration, RunEnds
  <2>5. Ending'
    BY <1>0, <1>5 DEF Ending, Over, Closed, RunEnds, TypeOK, Alive
  <2>6. Swept'
    BY <1>0, <1>5 DEF Swept, Over, RunEnds, TypeOK, Alive
  <2>7. Kept'
    BY <1>0, <1>5 DEF Kept, AnnouncedFilesStay, RunEnds
  <2>q. QED
    BY <2>1, <2>2, <2>3, <2>4, <2>5, <2>6, <2>7 DEF IInv
<1>q. QED
  BY <1>1, <1>2, <1>3, <1>4, <1>5

(***************************************************************************)
(* The goroutines of Invoke: main waits for them, so its CleanUp cannot    *)
(* have listed the files yet.                                              *)
(***************************************************************************)
LEMMA WorkPreservesIInv ==
  ASSUME IInv, Alive, NEW i \in PID, Writes(i) \/ Compresses(i) \/ Publishes(i) \/
         Fails(i)
  PROVE  IInv'
<1> USE LifecycleAssumption DEF runVars, invokeVars, outVars, cleanVars, endVars
<1>0. TypeOK /\ Assigned /\ Joined /\ Progress /\ Ending /\ Kept /\ Swept
  BY DEF IInv
<1>1. CASE Writes(i)
  <2>1. TypeOK'
    <3>1. iteration \in 1..MaxIterations
      BY <1>0, <1>1 DEF TypeOK, Joined, Active, Writes
    <3>2. Raw(i) \in File
      BY <3>1 DEF Raw, File, Kind
    <3>3. worker' \in [PID -> Workers] /\ files' \subseteq File
      BY <1>0, <1>1, <3>2 DEF TypeOK, Writes, Workers
    <3>q. QED
      BY <1>0, <1>1, <3>3 DEF TypeOK, Writes
  <2>2. Assigned'
    BY <1>0, <1>1 DEF Assigned, Writes, TypeOK, Alive, Joined, Active
  <2>3. Joined'
    BY <1>0, <1>1 DEF Joined, Active, Writes, TypeOK, Alive
  <2>4. Kept'
    BY <1>0, <1>1 DEF Kept, AnnouncedFilesStay, Writes, TypeOK, Alive
  <2>5. Swept'
    BY <1>0, <1>1 DEF Swept, Over, Writes, TypeOK, Alive, Joined, Active, Ending,
                    Cleaner
  <2>6. Progress' /\ Ending'
    BY <1>0, <1>1 DEF Progress, HasResult, EndedHasEveryIteration, Ending, Over,
                    Closed, Writes
  <2>q. QED
    BY <2>1, <2>2, <2>3, <2>4, <2>5, <2>6 DEF IInv
<1>2. CASE Compresses(i)
  <2>1. TypeOK'
    <3>1. iteration \in 1..MaxIterations
      BY <1>0, <1>2 DEF TypeOK, Joined, Active, Compresses
    <3>2. <<i, iteration, "gz">> \in File
      BY <3>1 DEF File, Kind
    <3>3. worker' \in [PID -> Workers] /\ files' \subseteq File
      BY <1>0, <1>2, <3>2 DEF TypeOK, Compresses, Workers
    <3>q. QED
      BY <1>0, <1>2, <3>3 DEF TypeOK, Compresses
  <2>2. Assigned'
    BY <1>0, <1>2 DEF Assigned, Compresses, TypeOK, Alive
  <2>3. Joined'
    BY <1>0, <1>2 DEF Joined, Active, Compresses, TypeOK, Alive
  <2>4. Kept'
    BY <1>0, <1>2 DEF Kept, AnnouncedFilesStay, Compresses, TypeOK, Alive
  <2>5. Swept'
    BY <1>0, <1>2 DEF Swept, Over, Compresses, TypeOK, Alive, Joined, Active, Ending,
                    Cleaner
  <2>6. Progress' /\ Ending'
    BY <1>0, <1>2 DEF Progress, HasResult, EndedHasEveryIteration, Ending, Over,
                    Closed, Compresses
  <2>q. QED
    BY <2>1, <2>2, <2>3, <2>4, <2>5, <2>6 DEF IInv
<1>3. CASE Publishes(i)
  <2>1. TypeOK'
    <3>1. iteration \in 1..MaxIterations
      BY <1>0, <1>3 DEF TypeOK, Joined, Active, Publishes
    <3>2. <<i, iteration, "gz">> \in File
      BY <3>1 DEF File, Kind
    <3>3. /\ worker' \in [PID -> Workers] /\ announced' \subseteq File
          /\ results' \subseteq PID
      BY <1>0, <1>3, <3>2 DEF TypeOK, Publishes, Workers, Outcome!PublishOne
    <3>q. QED
      BY <1>0, <1>3, <3>3 DEF TypeOK, Publishes, Outcome!PublishOne
  <2>2. Assigned'
    BY <1>0, <1>3 DEF Assigned, Publishes, Outcome!PublishOne, TypeOK, Alive, Joined,
                    Active
  <2>3. Joined'
    BY <1>0, <1>3 DEF Joined, Active, Publishes, Outcome!PublishOne, TypeOK, Alive
  <2>4. Progress'
    BY <1>0, <1>3 DEF Progress, HasResult, EndedHasEveryIteration, Publishes,
                    Outcome!PublishOne, TypeOK, Alive
  <2>5. Kept'
    BY <1>0, <1>3 DEF Kept, AnnouncedFilesStay, Publishes, Outcome!PublishOne, TypeOK,
                    Alive
  <2>6. Ending' /\ Swept'
    BY <1>0, <1>3 DEF Ending, Over, Closed, Swept, Publishes, Outcome!PublishOne
  <2>q. QED
    BY <2>1, <2>2, <2>3, <2>4, <2>5, <2>6 DEF IInv
<1>4. CASE Fails(i)
  <2>1. TypeOK'
    BY <1>0, <1>4 DEF TypeOK, Fails, Mains, Workers, Sigs
  <2>2. Joined'
    BY <1>0, <1>4 DEF Joined, Active, Fails, TypeOK, Alive
  <2>3. Kept'
    BY <1>0, <1>4 DEF Kept, AnnouncedFilesStay, Fails, TypeOK, Alive
  <2>4. Assigned' /\ Progress' /\ Ending' /\ Swept'
    BY <1>0, <1>4 DEF Assigned, Progress, HasResult, EndedHasEveryIteration, Ending,
                    Over, Closed, Swept, Fails
  <2>q. QED
    BY <2>1, <2>2, <2>3, <2>4 DEF IInv
<1>q. QED
  BY <1>1, <1>2, <1>3, <1>4

(***************************************************************************)
(* CleanUp: what it removes was its to remove, since a SIGTERM has come or *)
(* the grace period is over; the other caller's removals only help it, and *)
(* what it cannot remove it remembers.                                     *)
(***************************************************************************)
LEMMA CleanPreservesIInv ==
  ASSUME IInv, Alive, NEW c \in Cleaner, List(c) \/ Remove(c) \/ RemoveFails(c)
  PROVE  IInv'
<1> USE LifecycleAssumption DEF runVars, invokeVars, outVars, cleanVars, endVars
<1>0. TypeOK /\ Assigned /\ Joined /\ Progress /\ Ending /\ Kept /\ Swept
  BY DEF IInv
<1>1. CASE List(c)
  <2>1. TypeOK'
    BY <1>0, <1>1 DEF TypeOK, List, Mains, Workers, Sigs
  <2>2. Ending'
    BY <1>0, <1>1 DEF Ending, Over, Closed, List, TypeOK, Alive
  <2>3. Swept'
    BY <1>0, <1>1 DEF Swept, Over, List, TypeOK, Alive
  <2>4. Assigned' /\ Joined' /\ Progress' /\ Kept'
    BY <1>0, <1>1 DEF Assigned, Joined, Active, Progress, HasResult,
                    EndedHasEveryIteration, Kept, AnnouncedFilesStay, List
  <2>q. QED
    BY <2>1, <2>2, <2>3, <2>4 DEF IInv
<1>2. CASE Remove(c)
  <2>1. TypeOK'
    BY <1>0, <1>2 DEF TypeOK, Remove, Mains, Workers, Sigs
  <2>2. Assigned'
    BY <1>0, <1>2 DEF Assigned, Remove, TypeOK, Alive
  <2>3. Kept'
    <3>1. term \/ fired
      BY <1>0, <1>2 DEF Remove, IsNext, Ending, Cleaner
    <3>2. (fired => \A j \in PID : worker[j] # "compressed") /\ fired' = fired /\ term' = term
      BY <1>0, <1>2 DEF Remove, IsNext, Ending, Joined, Active, Over
    <3>q. QED
      BY <1>0, <1>2, <3>1, <3>2 DEF Kept, AnnouncedFilesStay, Remove, TypeOK
  <2>4. Swept'
    BY <1>0, <1>2 DEF Swept, Over, Remove, TypeOK, Alive
  <2>5. Joined' /\ Progress' /\ Ending'
    BY <1>0, <1>2 DEF Joined, Active, Progress, HasResult, EndedHasEveryIteration,
                    Ending, Over, Closed, Remove
  <2>q. QED
    BY <2>1, <2>2, <2>3, <2>4, <2>5 DEF IInv
<1>3. CASE RemoveFails(c)
  <2>1. TypeOK'
    BY <1>0, <1>3 DEF TypeOK, RemoveFails, Mains, Workers, Sigs
  <2>2. Swept'
    BY <1>0, <1>3 DEF Swept, Over, RemoveFails, TypeOK, Alive
  <2>3. Assigned' /\ Joined' /\ Progress' /\ Ending' /\ Kept'
    BY <1>0, <1>3 DEF Assigned, Joined, Active, Progress, HasResult, EndedHasEveryIteration,
                    Ending, Over, Closed, Kept, AnnouncedFilesStay, RemoveFails
  <2>q. QED
    BY <2>1, <2>2, <2>3 DEF IInv
<1>q. QED
  BY <1>1, <1>2, <1>3

\* main after runApp, and the grace timer.
LEMMA EndPreservesIInv ==
  ASSUME IInv, Alive, LogsError \/ TimerFires \/ GraceOver \/ MainReturns
  PROVE  IInv'
<1> USE LifecycleAssumption DEF runVars, invokeVars, outVars, cleanVars, endVars
<1>0. TypeOK /\ Assigned /\ Joined /\ Progress /\ Ending /\ Kept /\ Swept
  BY DEF IInv
<1>1. CASE LogsError
  <2>1. TypeOK'
    BY <1>0, <1>1 DEF TypeOK, LogsError, Mains, Workers, Sigs
  <2>2. Assigned'
    BY <1>0, <1>1 DEF Assigned, LogsError, TypeOK, Alive
  <2>3. Joined'
    BY <1>0, <1>1 DEF Joined, Active, LogsError, TypeOK, Alive
  <2>4. Progress'
    BY <1>0, <1>1 DEF Progress, HasResult, EndedHasEveryIteration, LogsError, TypeOK,
                    Alive
  <2>5. Ending'
    BY <1>0, <1>1 DEF Ending, Over, Closed, LogsError, TypeOK, Alive
  <2>6. Swept'
    BY <1>0, <1>1 DEF Swept, Over, LogsError, TypeOK, Alive
  <2>7. Kept'
    BY <1>0, <1>1 DEF Kept, AnnouncedFilesStay, LogsError
  <2>q. QED
    BY <2>1, <2>2, <2>3, <2>4, <2>5, <2>6, <2>7 DEF IInv
<1>2. CASE TimerFires
  <2>1. TypeOK'
    BY <1>0, <1>2 DEF TypeOK, TimerFires, Mains, Workers, Sigs
  <2>2. Ending'
    BY <1>0, <1>2 DEF Ending, Over, Closed, TimerFires, TypeOK, Alive
  <2>3. Kept'
    BY <1>0, <1>2 DEF Kept, AnnouncedFilesStay, TimerFires, TypeOK, Alive
  <2>4. Assigned' /\ Joined' /\ Progress' /\ Swept'
    BY <1>0, <1>2 DEF Assigned, Joined, Active, Progress, HasResult,
                    EndedHasEveryIteration, Swept, Over, TimerFires
  <2>q. QED
    BY <2>1, <2>2, <2>3, <2>4 DEF IInv
<1>3. CASE GraceOver
  <2>1. TypeOK'
    BY <1>0, <1>3 DEF TypeOK, GraceOver, Mains, Workers, Sigs
  <2>2. Assigned'
    BY <1>0, <1>3 DEF Assigned, GraceOver, TypeOK, Alive
  <2>3. Joined'
    BY <1>0, <1>3 DEF Joined, Active, GraceOver, TypeOK, Alive
  <2>4. Progress'
    BY <1>0, <1>3 DEF Progress, HasResult, EndedHasEveryIteration, GraceOver, TypeOK,
                    Alive
  <2>5. Ending'
    BY <1>0, <1>3 DEF Ending, Over, Closed, GraceOver, TypeOK, Alive, Cleaner
  <2>6. Swept'
    BY <1>0, <1>3 DEF Swept, Over, GraceOver, TypeOK, Alive, Ending, Assigned, Cleaner
  <2>7. Kept'
    BY <1>0, <1>3 DEF Kept, AnnouncedFilesStay, GraceOver
  <2>q. QED
    BY <2>1, <2>2, <2>3, <2>4, <2>5, <2>6, <2>7 DEF IInv
<1>4. CASE MainReturns
  <2>1. TypeOK'
    BY <1>0, <1>4 DEF TypeOK, MainReturns, Removed, Mains, Workers, Sigs
  <2>2. Assigned'
    BY <1>0, <1>4 DEF Assigned, MainReturns, Removed, TypeOK, Alive
  <2>3. Ending'
    BY <1>0, <1>4 DEF Ending, Over, Closed, MainReturns, Removed, TypeOK, Alive
  <2>4. Swept'
    BY <1>0, <1>4 DEF Swept, Over, MainReturns, Removed, TypeOK, Alive
  <2>5. Joined' /\ Progress' /\ Kept'
    BY <1>0, <1>4 DEF Joined, Active, Progress, HasResult, EndedHasEveryIteration,
                    Kept, AnnouncedFilesStay, MainReturns, Removed
  <2>q. QED
    BY <2>1, <2>2, <2>3, <2>4, <2>5 DEF IInv
<1>q. QED
  BY <1>1, <1>2, <1>3, <1>4

\* The SIGTERM handler and the goroutine that waits on the done channel.
LEMMA SigPreservesIInv ==
  ASSUME IInv, Alive, SigTerm \/ SigReceives \/ SigCleansUp \/ SigCleaned \/
         SigNotifies \/ DoneExits
  PROVE  IInv'
<1> USE LifecycleAssumption DEF runVars, invokeVars, outVars, cleanVars, endVars
<1>0. TypeOK /\ Assigned /\ Joined /\ Progress /\ Ending /\ Kept /\ Swept
  BY DEF IInv
<1>1. CASE SigTerm
  <2>1. TypeOK'
    BY <1>0, <1>1 DEF TypeOK, SigTerm, Mains, Workers, Sigs
  <2>2. Ending'
    BY <1>0, <1>1 DEF Ending, Over, Closed, SigTerm, TypeOK, Alive
  <2>3. Kept'
    BY <1>0, <1>1 DEF Kept, AnnouncedFilesStay, SigTerm, TypeOK, Alive
  <2>4. Assigned' /\ Joined' /\ Progress' /\ Swept'
    BY <1>0, <1>1 DEF Assigned, Joined, Active, Progress, HasResult,
                    EndedHasEveryIteration, Swept, Over, SigTerm
  <2>q. QED
    BY <2>1, <2>2, <2>3, <2>4 DEF IInv
<1>2. CASE SigReceives
  <2>1. TypeOK'
    BY <1>0, <1>2 DEF TypeOK, SigReceives, Mains, Workers, Sigs
  <2>2. Ending'
    BY <1>0, <1>2 DEF Ending, Over, Closed, SigReceives, TypeOK, Alive
  <2>3. Assigned' /\ Joined' /\ Progress' /\ Kept' /\ Swept'
    BY <1>0, <1>2 DEF Assigned, Joined, Active, Progress, HasResult,
                    EndedHasEveryIteration, Kept, AnnouncedFilesStay, Swept, Over,
                    SigReceives
  <2>q. QED
    BY <2>1, <2>2, <2>3 DEF IInv
<1>3. CASE SigCleansUp
  <2>1. TypeOK'
    BY <1>0, <1>3 DEF TypeOK, SigCleansUp, Mains, Workers, Sigs
  <2>2. Assigned'
    BY <1>0, <1>3 DEF Assigned, SigCleansUp, TypeOK, Alive, Ending
  <2>3. Ending'
    BY <1>0, <1>3 DEF Ending, Over, Closed, SigCleansUp, TypeOK, Alive, Cleaner
  <2>4. Swept'
    BY <1>0, <1>3 DEF Swept, Over, SigCleansUp, TypeOK, Alive, Cleaner
  <2>5. Joined' /\ Progress' /\ Kept'
    BY <1>0, <1>3 DEF Joined, Active, Progress, HasResult, EndedHasEveryIteration,
                    Kept, AnnouncedFilesStay, SigCleansUp
  <2>q. QED
    BY <2>1, <2>2, <2>3, <2>4, <2>5 DEF IInv
<1>4. CASE SigCleaned
  <2>1. TypeOK'
    BY <1>0, <1>4 DEF TypeOK, SigCleaned, Removed, Mains, Workers, Sigs
  <2>2. Ending'
    BY <1>0, <1>4 DEF Ending, Over, Closed, SigCleaned, Removed, TypeOK, Alive
  <2>3. Assigned' /\ Joined' /\ Progress' /\ Kept' /\ Swept'
    BY <1>0, <1>4 DEF Assigned, Joined, Active, Progress, HasResult,
                    EndedHasEveryIteration, Kept, AnnouncedFilesStay, Swept, Over,
                    SigCleaned, Removed
  <2>q. QED
    BY <2>1, <2>2, <2>3 DEF IInv
<1>5. CASE SigNotifies
  <2>1. TypeOK'
    BY <1>0, <1>5 DEF TypeOK, SigNotifies, Mains, Workers, Sigs
  <2>2. Ending'
    BY <1>0, <1>5 DEF Ending, Over, Closed, SigNotifies, TypeOK, Alive
  <2>3. Assigned' /\ Joined' /\ Progress' /\ Kept' /\ Swept'
    BY <1>0, <1>5 DEF Assigned, Joined, Active, Progress, HasResult,
                    EndedHasEveryIteration, Kept, AnnouncedFilesStay, Swept, Over,
                    SigNotifies
  <2>q. QED
    BY <2>1, <2>2, <2>3 DEF IInv
<1>6. CASE DoneExits
  <2>1. TypeOK'
    BY <1>0, <1>6 DEF TypeOK, DoneExits, Mains, Workers, Sigs
  <2>2. Assigned'
    BY <1>0, <1>6 DEF Assigned, DoneExits, TypeOK, Alive
  <2>3. Ending'
    BY <1>0, <1>6 DEF Ending, Over, Closed, DoneExits, TypeOK, Alive
  <2>4. Swept'
    BY <1>0, <1>6 DEF Swept, Over, DoneExits, TypeOK, Alive
  <2>5. Joined' /\ Progress' /\ Kept'
    BY <1>0, <1>6 DEF Joined, Active, Progress, HasResult, EndedHasEveryIteration,
                    Kept, AnnouncedFilesStay, DoneExits
  <2>q. QED
    BY <2>1, <2>2, <2>3, <2>4, <2>5 DEF IInv
<1>q. QED
  BY <1>1, <1>2, <1>3, <1>4, <1>5, <1>6
\* One step per group of actions.
LEMMA NextIInv == IInv /\ [Next]_vars => IInv'
<1> SUFFICES ASSUME IInv, [Next]_vars PROVE IInv'
  OBVIOUS
<1>1. CASE Next
  <2>1. CASE RunSteps
    BY <1>1, <2>1, StartPreservesIInv, RunPreservesIInv, WorkPreservesIInv DEF Next, RunSteps
  <2>2. CASE EndSteps \/ TimerFires
    BY <1>1, <2>2, EndPreservesIInv, CleanPreservesIInv DEF Next, EndSteps, CleanSteps, Cleaner
  <2>3. CASE SigTerm \/ SigSteps \/ DoneExits
    BY <1>1, <2>3, SigPreservesIInv, CleanPreservesIInv DEF Next, SigSteps, CleanSteps, Cleaner
  <2>q. QED
    BY <1>1, <2>1, <2>2, <2>3 DEF Next
<1>2. CASE UNCHANGED vars
  <2> USE <1>2 DEF vars, runVars, invokeVars, outVars, cleanVars, endVars
  <2>1. TypeOK' /\ Assigned' /\ Swept'
    BY DEF IInv, TypeOK, Assigned, Swept
  <2>2. Joined' /\ Progress'
    BY DEF IInv, Joined, Progress, HasResult, EndedHasEveryIteration
  <2>3. Ending' /\ Kept'
    BY DEF IInv, Ending, Closed, Kept, AnnouncedFilesStay
  <2>q. QED
    BY <2>1, <2>2, <2>3 DEF IInv
<1>q. QED
  BY <1>1, <1>2

-----------------------------------------------------------------------------

(***************************************************************************)
(* The inductive invariant holds for any number of PIDs and iterations and *)
(* for any durations.                                                      *)
(***************************************************************************)
THEOREM InvariantHolds == Spec => []IInv
BY InitIInv, NextIInv, PTL DEF Spec

(***************************************************************************)
(* The client has its grace period: a result file that was announced is in *)
(* the tmp directory until a SIGTERM or the timer.                         *)
(***************************************************************************)
THEOREM FilesStay == Spec => []AnnouncedFilesStay
<1>1. IInv => AnnouncedFilesStay
  BY DEF IInv, Kept
<1>q. QED
  BY <1>1, InvariantHolds, PTL

(***************************************************************************)
(* Ended is printed only after a result of each iteration of the run.      *)
(***************************************************************************)
THEOREM EndedIsComplete == Spec => []EndedHasEveryIteration
<1>1. IInv => EndedHasEveryIteration
  BY DEF IInv, Progress
<1>q. QED
  BY <1>1, InvariantHolds, PTL

(***************************************************************************)
(* An agent that ends by its timer leaves no result file but those it      *)
(* could not remove, whatever the SIGTERM handler's CleanUp does beside    *)
(* main's.                                                                 *)
(***************************************************************************)
THEOREM GraceExitCleans == Spec => []GraceExitIsClean
<1>1. IInv => GraceExitIsClean
  BY DEF IInv, Swept, GraceExitIsClean
<1>q. QED
  BY <1>1, InvariantHolds, PTL

(***************************************************************************)
(* The panic on the unassigned job strikes only before the run has begun.  *)
(***************************************************************************)
THEOREM PanicIsHarmless == Spec => []PanicLosesNothing
<1>1. IInv => PanicLosesNothing
  BY DEF IInv, Assigned, PanicLosesNothing
<1>q. QED
  BY <1>1, InvariantHolds, PTL

(***************************************************************************)
(* After the Ended stage or the error event nothing more is printed.       *)
(***************************************************************************)
THEOREM StreamCloses == Spec => EventStreamCloses
<1>1. ASSUME IInv, Next, Closed PROVE stages' = stages /\ announced' = announced
  <2>1. main \in Over /\ \A i \in PID : worker[i] \notin Active
    BY <1>1 DEF IInv, Ending, Joined, Over
  <2> USE DEF outVars
  <2>2. CASE RunSteps
    BY <2>1, <2>2 DEF RunSteps, NewActionFails, NewAction, AssignProfiler, AssignJob,
         RunStarts, SetUpFails, SetUp, NextIteration, RunEnds, InvokeReturns,
         Writes, Compresses, Publishes, Fails, Joins, Over, Active
  <2>3. CASE EndSteps \/ TimerFires
    BY <2>1, <2>3 DEF EndSteps, CleanSteps, LogsError, GraceOver, MainReturns, TimerFires,
         List, Remove, RemoveFails, Over
  <2>4. CASE SigTerm \/ SigSteps \/ DoneExits
    BY <2>4 DEF SigTerm, SigSteps, CleanSteps, SigReceives, SigCleansUp, SigCleaned,
         SigNotifies, DoneExits, List, Remove, RemoveFails
  <2>q. QED
    BY <1>1, <2>2, <2>3, <2>4 DEF Next
<1>2. IInv /\ [Next]_vars => [Closed => stages' = stages /\ announced' = announced]_vars
  BY <1>1
<1>q. QED
  BY <1>2, InvariantHolds, PTL DEF Spec, EventStreamCloses

-----------------------------------------------------------------------------
(* A SIGTERM in the grace period.                                          *)

(***************************************************************************)
(* What the handler's CleanUp may rely on once the run is over: no file is *)
(* added any more, so its listing stays complete, and when it is through   *)
(* no file is left but those it could not remove.                          *)
(***************************************************************************)
GraceSwept ==
    /\ main \in Over
    /\ cleaner["sig"] = "remove" => files \subseteq listing["sig"] \cup stuck["sig"]
    /\ sig \in {"notify", "end"} => files \subseteq stuck["sig"]

(***************************************************************************)
(* Every step keeps it: the files only shrink, and both CleanUps remove    *)
(* what they listed.                                                       *)
(***************************************************************************)
LEMMA NextGraceSwept == IInv /\ GraceSwept /\ [Next]_vars => GraceSwept'
<1> SUFFICES ASSUME IInv, GraceSwept, [Next]_vars PROVE GraceSwept'
  OBVIOUS
<1> USE DEF outVars, cleanVars, endVars
<1>0. main \in Over /\ \A i \in PID : worker[i] \notin Active
  BY DEF GraceSwept, IInv, Joined, Over
<1>1. CASE RunSteps
  BY <1>0, <1>1 DEF GraceSwept, RunSteps, NewActionFails, NewAction, AssignProfiler, AssignJob,
       RunStarts, SetUpFails, SetUp, NextIteration, RunEnds, InvokeReturns,
       Writes, Compresses, Publishes, Fails, Joins, Over, Active
<1>2. CASE LogsError \/ GraceOver \/ MainReturns \/ TimerFires \/ SigTerm \/ DoneExits
  BY <1>0, <1>2 DEF GraceSwept, LogsError, GraceOver, MainReturns, TimerFires, SigTerm,
       DoneExits, Over, IInv, TypeOK, Cleaner
<1>3. ASSUME NEW c \in Cleaner, List(c) PROVE GraceSwept'
  BY <1>3 DEF GraceSwept, List, IInv, TypeOK, Cleaner
<1>4. ASSUME NEW c \in Cleaner, Remove(c) PROVE GraceSwept'
  BY <1>4 DEF GraceSwept, Remove, IInv, TypeOK, Cleaner
<1>4a. ASSUME NEW c \in Cleaner, RemoveFails(c) PROVE GraceSwept'
  BY <1>4a DEF GraceSwept, RemoveFails, IInv, TypeOK, Cleaner
<1>5. CASE SigReceives
  BY <1>5 DEF GraceSwept, SigReceives, IInv, TypeOK, Assigned
<1>6. CASE SigCleansUp
  BY <1>6 DEF GraceSwept, SigCleansUp, IInv, TypeOK, Cleaner
<1>7. CASE SigCleaned \/ SigNotifies
  BY <1>7 DEF GraceSwept, SigCleaned, SigNotifies, Removed, IInv, TypeOK
<1>8. CASE UNCHANGED vars
  BY <1>8 DEF GraceSwept, vars
<1>q. QED
  BY <1>1, <1>2, <1>3, <1>4, <1>5, <1>6, <1>4a, <1>7, <1>8
  DEF Next, EndSteps, SigSteps, CleanSteps, Cleaner

(***************************************************************************)
(* A SIGTERM that comes after the run has ended or failed leaves no file   *)
(* but those the handler could not remove: before it the handler has not   *)
(* begun, so GraceSwept holds, and it stays.                               *)
(***************************************************************************)
THEOREM SigTermInGraceCleans == Spec => SigTermInGraceIsClean
<1>1. IInv => (main = "ending" /\ ~term => GraceSwept)
  BY DEF IInv, Ending, GraceSwept, Over, TypeOK, Cleaner
<1>2. IInv /\ GraceSwept => (exited = "done" => files \subseteq stuck["sig"])
  BY DEF IInv, Ending, GraceSwept
<1>q. QED
  BY <1>1, <1>2, NextGraceSwept, InvariantHolds, PTL DEF Spec, SigTermInGraceIsClean
=============================================================================
