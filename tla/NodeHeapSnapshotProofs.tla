------------------------ MODULE NodeHeapSnapshotProofs ------------------------
(***************************************************************************)
(* Proofs about the Node.js heap snapshot, for any number of retries and   *)
(* iterations and any size of a snapshot: while no signal finds a file     *)
(* already there, each iteration publishes its own snapshot, and of a      *)
(* steady target the whole of it.                                          *)
(***************************************************************************)
EXTENDS NodeHeapSnapshot, WellFoundedInduction, TLAPS

(***************************************************************************)
(* file.First is defined when there is a file: snapshots are numbered, so  *)
(* a set of them has a least one.                                          *)
(***************************************************************************)
LEMMA FirstIsPresent ==
  ASSUME Present # {}
  PROVE  First \in Present /\ \A l \in Present : First <= l
<1>1. Present \subseteq Nat
  BY SnapshotAssumption DEF Present, Snapshot
<1> DEFINE Less == OpToRel(<, Nat)
<1>2. \E k \in Present : \A l \in Present : ~(<<l, k>> \in Less)
  BY <1>1, WFMin, NatLessThanWellFounded
<1>3. \A l, k \in Nat : l < k => <<l, k>> \in Less
  BY Zenon DEF OpToRel
<1> HIDE DEF Less
<1>4. \E k \in Present : \A l \in Present : k <= l
  <2>1. PICK k \in Present : \A l \in Present : ~(<<l, k>> \in Less)
    BY <1>2
  <2>2. \A l \in Present : ~(l < k)
    BY <1>1, <1>3, <2>1, Zenon
  <2>q. QED
    BY <1>1, <2>1, <2>2
<1>q. QED
  BY <1>4 DEF First

\* A directory with the snapshot of one iteration only: that one is first.
LEMMA FirstIsOnly ==
  ASSUME NEW k, Present \subseteq {k}, Present # {}
  PROVE  First = k
BY FirstIsPresent

\* The initial states: nothing asked for, perhaps a file of an earlier run.
LEMMA InitIInv == Init => IInv
<1> SUFFICES ASSUME Init PROVE IInv
  OBVIOUS
<1> USE SnapshotAssumption DEF Snapshot, Absent
<1>1. size \in [Snapshot -> {Absent, Full}] /\ \A j \in 1..Iterations : size[j] = Absent
  BY DEF Init
<1>2. published \in [1..Iterations -> Result] /\ \A k \in 1..Iterations : published[k] = NoResult
  BY DEF Init, Result, NoResult, Size
<1>3. TypeOK
  <2>1. steady \in BOOLEAN /\ grown \in BOOLEAN
    BY DEF Init
  <2>2. size \in [Snapshot -> Size]
    BY <1>1 DEF Size
  <2>q. QED
    BY <1>2, <2>1, <2>2 DEF Init, TypeOK, Size
<1>4. Account
  BY <1>1, <1>2 DEF Init, Account
<1>5. OnlyOwn /\ SizesTell
  BY DEF Init, OnlyOwn, SizesTell
<1>6. PublishesOwnSnapshot /\ PublishesWholeSnapshot
  BY <1>2 DEF PublishesOwnSnapshot, PublishesWholeSnapshot
<1>q. QED
  BY <1>3, <1>4, <1>5, <1>6 DEF IInv

(***************************************************************************)
(* The signal: in an empty directory it leaves the target with at most the *)
(* file of this iteration to write; otherwise the iteration is marked.     *)
(***************************************************************************)
LEMMA SignalPreservesIInv ==
  ASSUME IInv, Fails \/ SetUp \/ Signal \/ SignalMisses
  PROVE  IInv'
<1> USE SnapshotAssumption DEF pollVars, Snapshot, Absent
<1>0. /\ TypeOK /\ Account /\ OnlyOwn /\ SizesTell
      /\ PublishesOwnSnapshot /\ PublishesWholeSnapshot
  BY DEF IInv
<1>1. CASE Fails \/ SetUp
  <2>1. TypeOK'
    BY <1>0, <1>1 DEF TypeOK, Fails, SetUp, Size
  <2>2. Account'
    <3>1. CASE Fails
      BY <1>0, <3>1 DEF Account, Present, Fails, TypeOK
    <3>2. CASE SetUp
      BY <1>0, <3>2 DEF Account, Present, SetUp, TypeOK
    <3>q. QED
      BY <1>1, <3>1, <3>2
  <2>3. OnlyOwn'
    BY <1>0, <1>1 DEF OnlyOwn, Present, Fails, SetUp, TypeOK, Size
  <2>4. SizesTell'
    BY <1>0, <1>1 DEF SizesTell, Fails, SetUp, TypeOK, Size
  <2>5. PublishesOwnSnapshot' /\ PublishesWholeSnapshot'
    BY <1>0, <1>1 DEF PublishesOwnSnapshot, PublishesWholeSnapshot, Fails, SetUp
  <2>q. QED
    BY <2>1, <2>2, <2>3, <2>4, <2>5 DEF IInv
<1>2. CASE Signal
  <2>1. TypeOK'
    <3>1. /\ fileSize' \in 0..(Full + 1) /\ currentFileSize' \in 0..Full
          /\ retry' \in 0..Retries /\ found' \in Snapshot \cup {Absent}
      BY <1>2 DEF Signal
    <3>2. writing' \subseteq Snapshot /\ dirty' \subseteq 1..Iterations
      BY <1>0, <1>2 DEF TypeOK, Signal
    <3>3. grown' \in BOOLEAN /\ steady' \in BOOLEAN
      BY <1>0, <1>2 DEF TypeOK, Signal
    <3>q. QED
      BY <1>0, <1>2, <3>1, <3>2, <3>3 DEF TypeOK, Signal
  <2>2. Account'
    BY <1>0, <1>2 DEF Account, Present, Signal, TypeOK, Size, OnlyOwn
  <2>3. OnlyOwn'
    BY <1>0, <1>2 DEF OnlyOwn, Present, Signal, TypeOK, Size
  <2>4. SizesTell'
    BY <1>0, <1>2 DEF SizesTell, Signal, TypeOK, Size, OnlyOwn, Present
  <2>5. PublishesOwnSnapshot'
    BY <1>0, <1>2 DEF PublishesOwnSnapshot, Signal, TypeOK, Size, Account
  <2>6. PublishesWholeSnapshot'
    BY <1>0, <1>2 DEF PublishesWholeSnapshot, Signal, TypeOK, Size, Account
  <2>q. QED
    BY <2>1, <2>2, <2>3, <2>4, <2>5, <2>6 DEF IInv
<1>3. CASE SignalMisses
  <2>1. TypeOK'
    <3>1. /\ fileSize' \in 0..(Full + 1) /\ currentFileSize' \in 0..Full
          /\ retry' \in 0..Retries /\ found' \in Snapshot \cup {Absent}
      BY <1>3 DEF SignalMisses
    <3>2. writing' \subseteq Snapshot /\ dirty' \subseteq 1..Iterations
      BY <1>0, <1>3 DEF TypeOK, SignalMisses
    <3>3. grown' \in BOOLEAN /\ steady' \in BOOLEAN
      BY <1>0, <1>3 DEF TypeOK, SignalMisses
    <3>q. QED
      BY <1>0, <1>3, <3>1, <3>2, <3>3 DEF TypeOK, SignalMisses
  <2>2. Account'
    BY <1>0, <1>3 DEF Account, Present, SignalMisses, TypeOK, Size
  <2>3. OnlyOwn'
    BY <1>0, <1>3 DEF OnlyOwn, Present, SignalMisses, TypeOK, Size
  <2>4. SizesTell'
    BY <1>0, <1>3 DEF SizesTell, SignalMisses, TypeOK, Size, OnlyOwn, Present
  <2>5. PublishesOwnSnapshot'
    BY <1>0, <1>3 DEF PublishesOwnSnapshot, SignalMisses, TypeOK, Size, Account
  <2>6. PublishesWholeSnapshot'
    BY <1>0, <1>3 DEF PublishesWholeSnapshot, SignalMisses, TypeOK, Size, Account
  <2>q. QED
    BY <2>1, <2>2, <2>3, <2>4, <2>5, <2>6 DEF IInv
<1>q. QED
  BY <1>1, <1>2, <1>3

(***************************************************************************)
(* The poll: it finds a file only at the size of the poll before, which a  *)
(* steady target's file has again only when it is complete.                *)
(***************************************************************************)
LEMMA PollPreservesIInv ==
  ASSUME IInv, Found \/ Retry \/ GivesUp
  PROVE  IInv'
<1> USE SnapshotAssumption DEF pollVars, Snapshot, Absent
<1>0. /\ TypeOK /\ Account /\ OnlyOwn /\ SizesTell
      /\ PublishesOwnSnapshot /\ PublishesWholeSnapshot
  BY DEF IInv
<1>1. CASE Found
  <2>1. TypeOK'
    <3>1. First \in Snapshot /\ size[First] \in 0..Full
      BY <1>0, <1>1, FirstIsPresent DEF TypeOK, Found, SizeHolds, Present, Size
    <3>2. currentFileSize' \in 0..Full /\ found' \in Snapshot
      BY <1>0, <1>1, <3>1 DEF Found, SizeHolds, Seen
    <3>3. grown' \in BOOLEAN
      BY <1>1 DEF Found, Ticks
    <3>q. QED
      BY <1>0, <1>1, <3>2, <3>3 DEF TypeOK, Found
  <2>2. Account'
    BY <1>0, <1>1, FirstIsPresent DEF Account, Present, Found, Ticks, TypeOK, Size,
                    SizeHolds
  <2>3. OnlyOwn'
    BY <1>0, <1>1, FirstIsOnly DEF OnlyOwn, Present, Found, Ticks, TypeOK, Size,
                    SizeHolds
  <2>4. SizesTell'
    <3> SUFFICES ASSUME steady, dirty = {} PROVE size[First] = Full
      BY <1>1 DEF Found, SizesTell
    <3>1. Present # {} /\ pc = "poll" /\ size[First] = fileSize
      BY <1>1 DEF Found, Ticks, SizeHolds
    <3>2. First = iteration /\ size[iteration] # Absent /\ iteration \in 1..Iterations
      BY <1>0, <3>1, FirstIsOnly, FirstIsPresent DEF OnlyOwn, Present, TypeOK
    <3>3. size[iteration] > 1 /\ fileSize = size[iteration]
      BY <1>0, <3>1, <3>2 DEF Account
    <3>4. fileSize \in Int /\ size[iteration] \in Int
      BY <1>0, <3>2 DEF TypeOK, Size
    <3>5. ~grown
      BY <1>0, <3>1, <3>3, <3>4 DEF SizesTell
    <3>6. CASE iteration \in writing
      BY <1>1, <3>2, <3>5, <3>6 DEF Found, Ticks
    <3>7. CASE iteration \notin writing
      BY <1>0, <3>2, <3>7 DEF Account
    <3>q. QED
      BY <3>2, <3>6, <3>7
  <2>5. PublishesOwnSnapshot' /\ PublishesWholeSnapshot'
    BY <1>0, <1>1 DEF PublishesOwnSnapshot, PublishesWholeSnapshot, Found, Ticks
  <2>q. QED
    BY <2>1, <2>2, <2>3, <2>4, <2>5 DEF IInv
<1>2. CASE Retry
  <2>1. TypeOK'
    <3>1. Seen \in 0..Full
      <4>1. CASE Present = {}
        BY <1>0, <4>1 DEF Seen, TypeOK
      <4>2. CASE Present # {}
        BY <1>0, <4>2, FirstIsPresent DEF Seen, Present, TypeOK, Size
      <4>q. QED
        BY <4>1, <4>2
    <3>2. /\ fileSize' \in 0..(Full + 1) /\ currentFileSize' \in 0..Full
          /\ retry' \in 0..Retries
      BY <1>0, <1>2, <3>1 DEF Retry, TypeOK
    <3>3. grown' \in BOOLEAN
      BY <1>2 DEF Retry, Ticks
    <3>q. QED
      BY <1>0, <1>2, <3>2, <3>3 DEF TypeOK, Retry
  <2>2. SizesTell'
    <3> SUFFICES ASSUME steady, dirty = {}
                 PROVE  \/ Present = {} /\ Seen = 0 /\ size[iteration] = Absent
                        \/ Seen = size[iteration] /\ size[iteration] # Absent
      <4>1. size[iteration] \in Int /\ iteration \in Snapshot
        BY <1>0 DEF TypeOK, Size
      <4>q. QED
        BY <1>0, <1>2, <4>1 DEF Retry, Ticks, SizesTell
    <3>1. iteration \in Snapshot /\ pc = "poll"
      BY <1>0, <1>2 DEF TypeOK, Retry, Ticks
    <3>2. CASE Present = {}
      BY <1>0, <3>1, <3>2 DEF SizesTell, Present, Seen
    <3>3. CASE Present # {}
      BY <1>0, <3>1, <3>3, FirstIsOnly, FirstIsPresent DEF OnlyOwn, Present, Seen
    <3>q. QED
      BY <3>2, <3>3
  <2>3. Account' /\ OnlyOwn' /\ PublishesOwnSnapshot' /\ PublishesWholeSnapshot'
    BY <1>0, <1>2 DEF Account, Present, OnlyOwn, PublishesOwnSnapshot,
                    PublishesWholeSnapshot, Retry, Ticks
  <2>q. QED
    BY <2>1, <2>2, <2>3 DEF IInv
<1>3. CASE GivesUp
  <2>1. TypeOK'
    BY <1>0, <1>3 DEF TypeOK, GivesUp, Ticks, Size
  <2>2. Account'
    BY <1>0, <1>3 DEF Account, Present, GivesUp, Ticks, TypeOK, Size
  <2>3. OnlyOwn'
    BY <1>0, <1>3 DEF OnlyOwn, Present, GivesUp, Ticks, TypeOK, Size
  <2>4. SizesTell'
    BY <1>0, <1>3 DEF SizesTell, GivesUp, Ticks, TypeOK, Size
  <2>5. PublishesOwnSnapshot' /\ PublishesWholeSnapshot'
    BY <1>0, <1>3 DEF PublishesOwnSnapshot, PublishesWholeSnapshot, GivesUp, Ticks
  <2>q. QED
    BY <2>1, <2>2, <2>3, <2>4, <2>5 DEF IInv
<1>q. QED
  BY <1>1, <1>2, <1>3

(***************************************************************************)
(* Copy, remove and publish.                                               *)
(***************************************************************************)
LEMMA PublishPreservesIInv ==
  ASSUME IInv, Copies \/ Removes \/ RemoveFails \/ Publishes
  PROVE  IInv'
<1> USE SnapshotAssumption DEF pollVars, Snapshot, Absent
<1>0. /\ TypeOK /\ Account /\ OnlyOwn /\ SizesTell
      /\ PublishesOwnSnapshot /\ PublishesWholeSnapshot
  BY DEF IInv
<1>1. CASE Copies
  <2>1. TypeOK'
    <3>1. copied' \in Size
      BY <1>0, <1>1 DEF TypeOK, Account, Present, Copies
    <3>q. QED
      BY <1>0, <1>1, <3>1 DEF TypeOK, Copies
  <2>2. Account'
    BY <1>0, <1>1 DEF Account, Present, Copies, TypeOK, Size
  <2>3. OnlyOwn'
    BY <1>0, <1>1 DEF OnlyOwn, Present, Copies, TypeOK, Size
  <2>4. SizesTell'
    BY <1>0, <1>1 DEF SizesTell, Copies, TypeOK, Size, Account
  <2>5. PublishesOwnSnapshot' /\ PublishesWholeSnapshot'
    BY <1>0, <1>1 DEF PublishesOwnSnapshot, PublishesWholeSnapshot, Copies
  <2>q. QED
    BY <2>1, <2>2, <2>3, <2>4, <2>5 DEF IInv
<1>2. CASE Removes
  <2>1. TypeOK'
    <3>1. -1 \in Size
      BY DEF Size
    <3>2. size' \in [Snapshot -> Size]
      BY <1>0, <1>2, <3>1 DEF TypeOK, Removes
    <3>3. writing' \subseteq Snapshot
      BY <1>0, <1>2 DEF TypeOK, Removes
    <3>q. QED
      BY <1>0, <1>2, <3>2, <3>3 DEF TypeOK, Removes
  <2>2. Account'
    BY <1>0, <1>2 DEF Account, Present, Removes, TypeOK, Size
  <2>3. OnlyOwn'
    BY <1>0, <1>2 DEF OnlyOwn, Present, Removes, TypeOK, Size, Account
  <2>4. SizesTell'
    BY <1>0, <1>2 DEF SizesTell, Removes, TypeOK, Size
  <2>5. PublishesOwnSnapshot' /\ PublishesWholeSnapshot'
    BY <1>0, <1>2 DEF PublishesOwnSnapshot, PublishesWholeSnapshot, Removes
  <2>q. QED
    BY <2>1, <2>2, <2>3, <2>4, <2>5 DEF IInv
<1>3. CASE RemoveFails
  <2>1. TypeOK'
    BY <1>0, <1>3 DEF TypeOK, RemoveFails, Size
  <2>2. Account'
    BY <1>0, <1>3 DEF Account, Present, RemoveFails, TypeOK, Size
  <2>3. OnlyOwn'
    BY <1>0, <1>3 DEF OnlyOwn, Present, RemoveFails, TypeOK, Size, Account
  <2>4. SizesTell'
    BY <1>0, <1>3 DEF SizesTell, RemoveFails, TypeOK, Size
  <2>5. PublishesOwnSnapshot' /\ PublishesWholeSnapshot'
    BY <1>0, <1>3 DEF PublishesOwnSnapshot, PublishesWholeSnapshot, RemoveFails
  <2>q. QED
    BY <2>1, <2>2, <2>3, <2>4, <2>5 DEF IInv
<1>4. CASE Publishes
  <2>1. TypeOK'
    <3>1. [file |-> found, size |-> copied] \in Result
      BY <1>0 DEF TypeOK, Result
    <3>2. published' \in [1..Iterations -> Result]
      BY <1>0, <1>4, <3>1 DEF TypeOK, Publishes
    <3>3. iteration' \in 1..Iterations
      BY <1>0, <1>4 DEF TypeOK, Publishes
    <3>q. QED
      BY <1>0, <1>4, <3>2, <3>3 DEF TypeOK, Publishes
  <2>2. Account'
    BY <1>0, <1>4 DEF Account, Present, Publishes, TypeOK, Size
  <2>3. OnlyOwn'
    BY <1>0, <1>4 DEF OnlyOwn, Present, Publishes, TypeOK, Size
  <2>4. SizesTell'
    BY <1>0, <1>4 DEF SizesTell, Publishes, TypeOK, Size
  <2>5. PublishesOwnSnapshot'
    BY <1>0, <1>4 DEF PublishesOwnSnapshot, Publishes, TypeOK, Size, Account, OnlyOwn
  <2>6. PublishesWholeSnapshot'
    BY <1>0, <1>4 DEF PublishesWholeSnapshot, Publishes, TypeOK, Size, Account,
                    SizesTell
  <2>q. QED
    BY <2>1, <2>2, <2>3, <2>4, <2>5, <2>6 DEF IInv
<1>q. QED
  BY <1>1, <1>2, <1>3, <1>4

(***************************************************************************)
(* The target: it creates only files it was asked for.                     *)
(***************************************************************************)
LEMMA TargetPreservesIInv ==
  ASSUME IInv, NEW k \in Snapshot, Creates(k) \/ Grows(k) \/ Finishes(k)
  PROVE  IInv'
<1> USE SnapshotAssumption DEF pollVars, Snapshot, Absent
<1>0. /\ TypeOK /\ Account /\ OnlyOwn /\ SizesTell
      /\ PublishesOwnSnapshot /\ PublishesWholeSnapshot
  BY DEF IInv
<1>1. CASE Creates(k)
  <2>1. TypeOK'
    BY <1>0, <1>1 DEF TypeOK, Creates, Size
  <2>2. Account'
    BY <1>0, <1>1 DEF Account, Present, Creates, TypeOK, Size
  <2>3. OnlyOwn'
    BY <1>0, <1>1 DEF OnlyOwn, Present, Creates, TypeOK, Size
  <2>4. SizesTell'
    BY <1>0, <1>1 DEF SizesTell, Creates, TypeOK, Size, OnlyOwn, Present
  <2>5. PublishesOwnSnapshot' /\ PublishesWholeSnapshot'
    BY <1>0, <1>1 DEF PublishesOwnSnapshot, PublishesWholeSnapshot, Creates
  <2>q. QED
    BY <2>1, <2>2, <2>3, <2>4, <2>5 DEF IInv
<1>2. CASE Grows(k)
  <2>1. TypeOK'
    BY <1>0, <1>2 DEF TypeOK, Grows, Size
  <2>2. Account'
    BY <1>0, <1>2 DEF Account, Present, Grows, TypeOK, Size
  <2>3. OnlyOwn'
    BY <1>0, <1>2 DEF OnlyOwn, Present, Grows, TypeOK, Size
  <2>4. SizesTell'
    BY <1>0, <1>2 DEF SizesTell, Grows, TypeOK, Size, OnlyOwn, Present, Account
  <2>5. PublishesOwnSnapshot' /\ PublishesWholeSnapshot'
    BY <1>0, <1>2 DEF PublishesOwnSnapshot, PublishesWholeSnapshot, Grows
  <2>q. QED
    BY <2>1, <2>2, <2>3, <2>4, <2>5 DEF IInv
<1>3. CASE Finishes(k)
  <2>1. TypeOK'
    BY <1>0, <1>3 DEF TypeOK, Finishes, Size
  <2>2. Account'
    BY <1>0, <1>3 DEF Account, Present, Finishes, TypeOK, Size
  <2>3. OnlyOwn'
    BY <1>0, <1>3 DEF OnlyOwn, Present, Finishes, TypeOK, Size
  <2>4. SizesTell' /\ PublishesOwnSnapshot' /\ PublishesWholeSnapshot'
    BY <1>0, <1>3 DEF SizesTell, PublishesOwnSnapshot, PublishesWholeSnapshot,
                    Finishes
  <2>q. QED
    BY <2>1, <2>2, <2>3, <2>4 DEF IInv
<1>q. QED
  BY <1>1, <1>2, <1>3
\* One step per group of actions.
LEMMA NextIInv == IInv /\ [Next]_vars => IInv'
<1> SUFFICES ASSUME IInv, [Next]_vars PROVE IInv'
  OBVIOUS
<1>1. CASE Agent
  BY <1>1, SignalPreservesIInv, PollPreservesIInv, PublishPreservesIInv DEF Agent
<1>2. CASE Target
  BY <1>2, TargetPreservesIInv DEF Target
<1>3. CASE UNCHANGED vars
  BY <1>3 DEF IInv, TypeOK, Account, Present, OnlyOwn, SizesTell, PublishesOwnSnapshot,
              PublishesWholeSnapshot, vars, pollVars
<1>q. QED
  BY <1>1, <1>2, <1>3 DEF Next

(***************************************************************************)
(* The inductive invariant holds for any retries, iterations and sizes.    *)
(***************************************************************************)
THEOREM InvariantHolds == Spec => []IInv
BY InitIInv, NextIInv, PTL DEF Spec

(***************************************************************************)
(* Invoke publishes the snapshot that its own signal asked for, unless a   *)
(* signal so far found a file in the directory.                            *)
(***************************************************************************)
THEOREM OwnSnapshot == Spec => []PublishesOwnSnapshot
<1>1. IInv => PublishesOwnSnapshot
  BY DEF IInv
<1>q. QED
  BY <1>1, InvariantHolds, PTL

(***************************************************************************)
(* The poll that compares two sizes is right about a target that writes    *)
(* between any two polls: the snapshot published is complete.              *)
(***************************************************************************)
THEOREM WholeSnapshot == Spec => []PublishesWholeSnapshot
<1>1. IInv => PublishesWholeSnapshot
  BY DEF IInv
<1>q. QED
  BY <1>1, InvariantHolds, PTL
=============================================================================
