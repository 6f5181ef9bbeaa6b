-------------------------- MODULE ProfilePIDsProofs --------------------------
(***************************************************************************)
(* Proofs about the fan-out of ProfilePIDs, for any number of PIDs: the    *)
(* inductive invariant IInv, the verdict, the notice, the barrier, and     *)
(* that the fan-out implements PidOutcome.                                 *)
(***************************************************************************)
EXTENDS ProfilePIDs, TLAPS

\* The initial states: a fresh call for any number of PIDs up to MaxPIDs.
LEMMA InitIInv == Init => IInv
<1>1. SUFFICES ASSUME NEW k \in 0..MaxPIDs, Fresh(k) PROVE IInv
  BY DEF Init
<1>2. TypeOK
  BY <1>1, MaxPIDsAssumption DEF Fresh, TypeOK, Callers, Workers, Index
<1>3. Counted
  BY <1>1, MaxPIDsAssumption DEF Fresh, Counted, Index
<1>4. Slots
  BY <1>1 DEF Fresh, Slots
<1>5. Stages /\ VerdictSound /\ NoticeNamesSkipped
  BY <1>1 DEF Fresh, Stages, VerdictSound, NoticeNamesSkipped
<1>q. QED
  BY <1>2, <1>3, <1>4, <1>5 DEF IInv

\* The PIDs of the call are indices of the slots.
LEMMA PIDInIndex == TypeOK => PID \subseteq Index
BY MaxPIDsAssumption DEF TypeOK, PID, Index

(***************************************************************************)
(* When the join is over, every goroutine has exited, so the failed slots  *)
(* are exactly the PIDs without a result.  This is the step that makes the *)
(* verdict, computed from the slots, one about the published results.      *)
(***************************************************************************)
LEMMA FailedIsUnpublished ==
  IInv /\ pc = "collect" => Failed = PID \ results /\ results \subseteq PID
<1> SUFFICES ASSUME IInv, pc = "collect"
             PROVE  Failed = PID \ results /\ results \subseteq PID
  OBVIOUS
<1>1. n \in Nat /\ launched = n /\ wg = {} /\ PID \subseteq Index
  BY PIDInIndex, MaxPIDsAssumption DEF IInv, Stages, TypeOK
<1>2. \A i \in PID : worker[i] = "exited"
  BY <1>1 DEF IInv, Counted, PID
<1>3. \A i \in PID : errs[i] # "nil" <=> i \notin results
  BY <1>1, <1>2 DEF IInv, Slots, TypeOK
<1>4. Failed = PID \ results
  BY <1>3 DEF Failed
<1>5. results \subseteq PID
  <2>1. SUFFICES ASSUME NEW i \in results PROVE i \in PID
    OBVIOUS
  <2>2. i \in Index /\ worker[i] # "none"
    BY DEF IInv, TypeOK, Slots
  <2>q. QED
    BY <1>1, <2>2, MaxPIDsAssumption DEF IInv, Counted, PID, Index
<1>q. QED
  BY <1>4, <1>5

\* One step per action; under it, one per part of the invariant it touches.
LEMMA NextIInv == IInv /\ [Next]_vars => IInv'
<1> SUFFICES ASSUME IInv, [Next]_vars PROVE IInv'
  OBVIOUS
<1> USE MaxPIDsAssumption
<1>0. TypeOK /\ Counted /\ Slots /\ Stages /\ VerdictSound /\ NoticeNamesSkipped
  BY DEF IInv
<1>1. CASE RefuseEmpty
  <2>1. TypeOK'
    BY <1>0, <1>1 DEF RefuseEmpty, TypeOK, Callers
  <2>2. Counted' /\ Slots'
    BY <1>0, <1>1 DEF RefuseEmpty, Counted, Slots, Index
  <2>3. results = {}
    <3>1. \A i \in Index : worker[i] = "none"
      BY <1>0, <1>1 DEF RefuseEmpty, Counted, Stages, Index, TypeOK
    <3>q. QED
      BY <1>0, <3>1 DEF Slots, TypeOK
  <2>4. wg = {} /\ notice = {} /\ launched = 0
    BY <1>0, <1>1 DEF RefuseEmpty, Counted, Stages, TypeOK
  <2>5. Stages' /\ VerdictSound' /\ NoticeNamesSkipped'
    BY <1>1, <2>3, <2>4 DEF RefuseEmpty, Stages, VerdictSound, NoticeNamesSkipped
  <2>q. QED
    BY <2>1, <2>2, <2>5 DEF IInv
<1>2. CASE Begin
  <2>1. TypeOK'
    BY <1>0, <1>2 DEF Begin, TypeOK, Callers
  <2>2. Counted' /\ Slots'
    BY <1>0, <1>2 DEF Begin, Counted, Slots, Index
  <2>3. Stages' /\ VerdictSound' /\ NoticeNamesSkipped'
    BY <1>0, <1>2 DEF Begin, Stages, VerdictSound, NoticeNamesSkipped
  <2>q. QED
    BY <2>1, <2>2, <2>3 DEF IInv
<1>3. CASE Launch
  <2>0. launched + 1 \in Index /\ worker[launched + 1] = "none"
    BY <1>0, <1>3 DEF Launch, TypeOK, Counted, Index
  <2>1. TypeOK'
    BY <1>0, <1>3, <2>0 DEF Launch, TypeOK, Workers, Index
  <2>2. Counted'
    BY <1>0, <1>3, <2>0 DEF Launch, TypeOK, Counted, Index
  <2>3. Slots'
    BY <1>0, <1>3, <2>0 DEF Launch, TypeOK, Slots, Index
  <2>4. Stages' /\ VerdictSound' /\ NoticeNamesSkipped'
    BY <1>0, <1>3 DEF Launch, Stages, VerdictSound, NoticeNamesSkipped
  <2>q. QED
    BY <2>1, <2>2, <2>3, <2>4 DEF IInv
<1>4. CASE LoopEnds
  <2>1. TypeOK'
    BY <1>0, <1>4 DEF LoopEnds, TypeOK, Callers
  <2>2. Counted' /\ Slots'
    BY <1>0, <1>4 DEF LoopEnds, Counted, Slots, Index
  <2>3. Stages' /\ VerdictSound' /\ NoticeNamesSkipped'
    BY <1>0, <1>4 DEF LoopEnds, Stages, VerdictSound, NoticeNamesSkipped
  <2>q. QED
    BY <2>1, <2>2, <2>3 DEF IInv
<1>5. CASE Wait
  <2>1. TypeOK'
    BY <1>0, <1>5 DEF Wait, TypeOK, Callers
  <2>2. Counted' /\ Slots'
    BY <1>0, <1>5 DEF Wait, Counted, Slots, Index
  <2>3. Stages' /\ VerdictSound' /\ NoticeNamesSkipped'
    BY <1>0, <1>5 DEF Wait, Stages, VerdictSound, NoticeNamesSkipped
  <2>q. QED
    BY <2>1, <2>2, <2>3 DEF IInv
<1>6. CASE Collect
  <2>0. Failed = PID \ results /\ results \subseteq PID /\ PID \subseteq Index
    BY <1>0, <1>6, FailedIsUnpublished, PIDInIndex DEF Collect, IInv
  <2>1. n \in Nat /\ n > 0 /\ PID # {}
    BY <1>0, <1>6 DEF Collect, Stages, TypeOK, PID
  <2>2. ret' = "nil" \/ ret' = "failed"
    BY <1>6 DEF Collect, Verdict
  <2>3. ret' = "nil" <=> results # {}
    BY <1>6, <2>0, <2>1 DEF Collect, Verdict
  <2>4. notice' = IF results = {} THEN {} ELSE PID \ results
    BY <1>6, <2>0, <2>1 DEF Collect, Skipped
  <2>5. TypeOK'
    BY <1>0, <1>6, <2>0, <2>2, <2>4 DEF Collect, TypeOK, Callers
  <2>6. Counted' /\ Slots'
    BY <1>0, <1>6 DEF Collect, Counted, Slots, Index
  <2>7. Stages'
    BY <1>0, <1>6, <2>2 DEF Collect, Stages
  <2>8. VerdictSound' /\ NoticeNamesSkipped'
    BY <1>6, <2>1, <2>2, <2>3, <2>4 DEF Collect, VerdictSound, NoticeNamesSkipped, PID
  <2>q. QED
    BY <2>5, <2>6, <2>7, <2>8 DEF IInv
<1>7. ASSUME NEW i \in PID, Publish(i) PROVE IInv'
  <2>0. i \in Index /\ i <= launched /\ i \in wg
    BY <1>0, <1>7, PIDInIndex DEF Publish, TypeOK, Counted, Index
  <2>1. TypeOK'
    BY <1>0, <1>7, <2>0 DEF Publish, TypeOK, Workers
  <2>2. Counted'
    BY <1>0, <1>7, <2>0 DEF Publish, TypeOK, Counted, Index
  <2>3. Slots'
    BY <1>0, <1>7, <2>0 DEF Publish, TypeOK, Slots
  <2>4. pc # "returned"
    BY <1>0, <2>0 DEF Stages
  <2>5. Stages' /\ VerdictSound' /\ NoticeNamesSkipped'
    BY <1>0, <1>7, <2>4 DEF Publish, Stages, VerdictSound, NoticeNamesSkipped
  <2>q. QED
    BY <2>1, <2>2, <2>3, <2>5 DEF IInv
<1>8. ASSUME NEW i \in PID, Return(i) PROVE IInv'
  <2>0. i \in Index /\ i <= launched /\ i \in wg
    BY <1>0, <1>8, PIDInIndex DEF Return, TypeOK, Counted, Index
  <2>1. TypeOK'
    BY <1>0, <1>8, <2>0 DEF Return, TypeOK, Workers
  <2>2. Counted'
    BY <1>0, <1>8, <2>0 DEF Return, TypeOK, Counted, Index
  <2>3. Slots'
    BY <1>0, <1>8, <2>0 DEF Return, TypeOK, Slots
  <2>4. pc # "returned"
    BY <1>0, <2>0 DEF Stages
  <2>5. Stages' /\ VerdictSound' /\ NoticeNamesSkipped'
    BY <1>0, <1>8, <2>4 DEF Return, Stages, VerdictSound, NoticeNamesSkipped
  <2>q. QED
    BY <2>1, <2>2, <2>3, <2>5 DEF IInv
<1>9. ASSUME NEW i \in PID, Done(i) PROVE IInv'
  <2>1. TypeOK'
    BY <1>0, <1>9 DEF Done, TypeOK
  <2>2. Counted'
    BY <1>0, <1>9 DEF Done, TypeOK, Counted, Index
  <2>3. Slots'
    BY <1>0, <1>9 DEF Done, Slots, Index
  <2>4. Stages' /\ VerdictSound' /\ NoticeNamesSkipped'
    BY <1>0, <1>9 DEF Done, Stages, VerdictSound, NoticeNamesSkipped, PID
  <2>q. QED
    BY <2>1, <2>2, <2>3, <2>4 DEF IInv
<1>10. CASE UNCHANGED vars
  BY <1>0, <1>10 DEF vars, IInv, TypeOK, Counted, Slots, Stages, VerdictSound,
                     NoticeNamesSkipped, Index, PID
<1>q. QED
  BY <1>1, <1>2, <1>3, <1>4, <1>5, <1>6, <1>7, <1>8, <1>9, <1>10
     DEF Next, Caller, Goroutine

(***************************************************************************)
(* IInv holds in every reachable state of the fan-out, for any number of   *)
(* PIDs and any interleaving of their goroutines with the caller.          *)
(***************************************************************************)
THEOREM InvariantHolds == Spec => []IInv
<1>1. Init => IInv
  BY InitIInv
<1>2. IInv /\ [Next]_vars => IInv'
  BY NextIInv
<1>q. QED
  BY <1>1, <1>2, PTL DEF Spec

(***************************************************************************)
(* The caller's verdict is right for any number of PIDs: nil if and only   *)
(* if some PID published its result.                                       *)
(***************************************************************************)
THEOREM VerdictCorrect == Spec => []VerdictSound
<1>1. IInv => VerdictSound
  BY DEF IInv
<1>q. QED
  BY <1>1, InvariantHolds, PTL

(***************************************************************************)
(* The notice names the PIDs without a result, and no other.               *)
(***************************************************************************)
THEOREM NoticeCorrect == Spec => []NoticeNamesSkipped
<1>1. IInv => NoticeNamesSkipped
  BY DEF IInv
<1>q. QED
  BY <1>1, InvariantHolds, PTL

(***************************************************************************)
(* wg.Wait is a barrier: past it, no step publishes or writes a slot.      *)
(***************************************************************************)
THEOREM BarrierHolds == Spec => NothingAfterReturn
<1>1. IInv /\ [Next]_vars =>
        [pc = "collect" \/ pc = "returned" => results' = results /\ errs' = errs]_vars
  <2> SUFFICES ASSUME IInv, Next, pc = "collect" \/ pc = "returned"
               PROVE  results' = results /\ errs' = errs
    OBVIOUS
  <2>1. CASE Caller
    BY <2>1 DEF Caller, RefuseEmpty, Begin, Launch, LoopEnds, Wait, Collect
  <2>2. ASSUME NEW i \in PID, Goroutine(i) PROVE results' = results /\ errs' = errs
    <3>1. wg = {} /\ launched = n /\ n \in Nat
      BY MaxPIDsAssumption DEF IInv, Stages, TypeOK
    <3>2. worker[i] = "exited"
      BY <3>1 DEF IInv, Counted, PID
    <3>q. QED
      BY <2>2, <3>2 DEF Goroutine, Publish, Return, Done
  <2>q. QED
    BY <2>1, <2>2 DEF Next
<1>2. IInv /\ [Next]_vars =>
        [(pc \in {"collect", "returned"}) => results' = results /\ errs' = errs]_vars
  BY <1>1
<1>q. QED
  BY <1>2, InvariantHolds, PTL DEF Spec, NothingAfterReturn

(***************************************************************************)
(* The fan-out implements PidOutcome (its safety part): Publish is         *)
(* PublishOne, Collect and RefuseEmpty decide as PidOutcome does, and all  *)
(* the bookkeeping of goroutines, slots and WaitGroup is invisible.        *)
(***************************************************************************)
THEOREM FanOutImplementsOutcome == Spec => Outcome!Spec
<1>1. Init => Outcome!Init
  BY MaxPIDsAssumption DEF Init, Fresh, Outcome!Init
<1>2. IInv /\ [Next]_vars => [Outcome!Next]_(Outcome!outcomeVars)
  <2> SUFFICES ASSUME IInv, [Next]_vars
               PROVE  Outcome!Next \/ UNCHANGED Outcome!outcomeVars
    OBVIOUS
  <2> USE DEF Outcome!outcomeVars
  <2>1. CASE RefuseEmpty
    <3>1. ret = "pending" /\ notice = {} /\ launched = 0
      BY <2>1 DEF RefuseEmpty, IInv, Stages
    <3>2. results = {}
      <4>1. \A i \in Index : worker[i] = "none"
        BY <3>1 DEF IInv, Counted, Index
      <4>q. QED
        BY <4>1 DEF IInv, Slots, TypeOK
    <3>3. Outcome!Fail
      BY <2>1, <3>1, <3>2 DEF RefuseEmpty, Outcome!Fail
    <3>q. QED
      BY <3>3 DEF Outcome!Next, Outcome!Decide
  <2>2. CASE Collect
    <3>1. ret = "pending" /\ notice = {} /\ n > 0 /\ n \in Nat
      BY <2>2, MaxPIDsAssumption DEF Collect, IInv, Stages, TypeOK
    <3>2. Failed = PID \ results /\ results \subseteq PID /\ PID # {}
      BY <2>2, <3>1, FailedIsUnpublished DEF Collect, PID
    <3>3. CASE results = {}
      <4>1. Outcome!Fail
        BY <2>2, <3>1, <3>2, <3>3 DEF Collect, Verdict, Skipped, Outcome!Fail
      <4>q. QED
        BY <4>1 DEF Outcome!Next, Outcome!Decide
    <3>4. CASE results # {}
      <4>1. Outcome!Succeed
        BY <2>2, <3>1, <3>2, <3>4
           DEF Collect, Verdict, Skipped, Outcome!Succeed, Outcome!Targets, PID
      <4>q. QED
        BY <4>1 DEF Outcome!Next, Outcome!Decide
    <3>q. QED
      BY <3>3, <3>4
  <2>3. CASE Begin \/ Launch \/ LoopEnds \/ Wait
    BY <2>3 DEF Begin, Launch, LoopEnds, Wait
  <2>4. ASSUME NEW i \in PID, Publish(i)
        PROVE  Outcome!Next
    <3>1. pc # "returned"
      <4>1. i \in Index /\ launched \in Nat
        BY PIDInIndex, MaxPIDsAssumption DEF IInv, TypeOK
      <4>2. i \in wg
        BY <2>4, <4>1 DEF Publish, IInv, Counted, Index
      <4>q. QED
        BY <4>2 DEF IInv, Stages
    <3>2. Outcome!PublishOne(i)
      BY <2>4, <3>1 DEF Publish, Outcome!PublishOne, IInv, Stages
    <3>q. QED
      BY <3>2 DEF Outcome!Next, Outcome!Targets, PID
  <2>5. ASSUME NEW i \in PID, Return(i) \/ Done(i)
        PROVE  UNCHANGED Outcome!outcomeVars
    BY <2>5 DEF Return, Done
  <2>6. CASE UNCHANGED vars
    BY <2>6 DEF vars
  <2>q. QED
    BY <2>1, <2>2, <2>3, <2>4, <2>5, <2>6 DEF Next, Caller, Goroutine
<1>q. QED
  BY <1>1, <1>2, InvariantHolds, PTL DEF Spec, Outcome!Spec
=============================================================================
