--------------------------- MODULE NodeHeapSnapshot ---------------------------
(***************************************************************************)
(* profiler/node_dummy.go: a Node.js heap snapshot.  Invoke signals the    *)
(* target process, which writes a snapshot file into its working directory *)
(* on its own time, and polls that directory once a second until the first *)
(* file it finds has the size it had at the poll before.  The file is      *)
(* copied to the agent, removed from the target and published.             *)
(*                                                                         *)
(* The Node.js process is external: it answers signal k by creating file k *)
(* and growing it to Full.  File 0 is one an earlier profiling left.  Node *)
(* names its files by time, so filepath.Glob lists them by number.         *)
(***************************************************************************)
EXTENDS Integers

CONSTANTS
    Retries,      \* snapshotRetries
    Iterations,   \* the iterations of the run
    Full          \* the size of a complete snapshot

ASSUME SnapshotAssumption ==
    /\ Retries \in Nat /\ Iterations \in Nat \ {0} /\ Full \in Nat

Absent == -1
Snapshot == 0..Iterations

VARIABLES
    steady,       \* does this target always write between two polls, and
                  \* never show a file of less than two bytes?
    pc,           \* "setUp", "signal", "poll", "copy", "remove", "publish", "returned"
    iteration,    \* job.Iteration
    size,         \* per snapshot file in the target's directory: its size or Absent
    writing,      \* the snapshots the target has still to finish
    grown,        \* the target has written since the last poll
    found,        \* fileName: the snapshot picked, Absent for ""
    fileSize,     \* the poll's locals
    currentFileSize,
    retry,
    copied,       \* the size of the copy the agent holds
    published,    \* per iteration: the file and size of its result
    dirty,        \* the iterations whose signal found a file already there
    ret           \* "pending", "nil", "error"

pollVars == <<found, fileSize, currentFileSize, retry>>
vars == <<steady, pc, iteration, size, writing, grown, pollVars, copied, published, dirty, ret>>

Size == Absent..Full
Result == [file : Snapshot \cup {Absent}, size : Size]
NoResult == [file |-> Absent, size |-> Absent]

TypeOK ==
    /\ steady \in BOOLEAN
    /\ pc \in {"setUp", "signal", "poll", "copy", "remove", "publish", "returned"}
    /\ iteration \in 1..Iterations
    /\ size \in [Snapshot -> Size]
    /\ writing \subseteq Snapshot
    /\ grown \in BOOLEAN
    /\ found \in Snapshot \cup {Absent}
    /\ fileSize \in 0..(Full + 1) /\ currentFileSize \in 0..Full
    /\ retry \in 0..Retries
    /\ copied \in Size
    /\ published \in [1..Iterations -> Result]
    /\ dirty \subseteq 1..Iterations
    /\ ret \in {"pending", "nil", "error"}

Init ==
    /\ steady \in BOOLEAN
    /\ pc = "setUp"
    /\ iteration = 1
    /\ \E left \in BOOLEAN :
         size = [k \in Snapshot |-> IF k = 0 /\ left THEN Full ELSE Absent]
    /\ writing = {} /\ grown = FALSE
    /\ found = Absent /\ fileSize = 1 /\ currentFileSize = 0 /\ retry = 0
    /\ copied = Absent
    /\ published = [k \in 1..Iterations |-> NoResult]
    /\ dirty = {}
    /\ ret = "pending"

Present == {k \in Snapshot : size[k] # Absent}

-----------------------------------------------------------------------------
(* SetUp and the signal.                                                   *)

\* SetUp, the root PID, kill, the copy or the publisher fails.
Fails ==
    /\ pc \in {"setUp", "signal", "copy", "publish"}
    /\ pc' = "returned"
    /\ ret' = "error"
    /\ UNCHANGED <<steady, iteration, size, writing, grown, pollVars, copied, published,
                   dirty>>

\* RemoveAll is given the container's own path of the directory, not n.cwd,
\* its path below the target's filesystem: nothing is removed there.
SetUp ==
    /\ pc = "setUp"
    /\ pc' = "signal"
    /\ UNCHANGED <<steady, iteration, size, writing, grown, pollVars, copied, published,
                   dirty, ret>>

\* kill, and the locals of the poll.
Signal ==
    /\ pc = "signal"
    /\ pc' = "poll"
    /\ writing' = writing \cup {iteration}
    /\ grown' = FALSE
    /\ dirty' = IF Present = {} THEN dirty ELSE dirty \cup {iteration}
    /\ fileSize' = 1 /\ currentFileSize' = 0 /\ retry' = 0 /\ found' = Absent
    /\ UNCHANGED <<steady, iteration, size, copied, published, ret>>

(***************************************************************************)
(* GetFirstCandidatePID names the only child of the root process, or the   *)
(* root, and need not name the one that runs Node; what is no number       *)
(* becomes 0, the agent's own process group.  kill succeeds, and nobody    *)
(* writes a snapshot.                                                      *)
(***************************************************************************)
SignalMisses ==
    /\ pc = "signal"
    /\ pc' = "poll"
    /\ grown' = FALSE
    /\ dirty' = IF Present = {} THEN dirty ELSE dirty \cup {iteration}
    /\ fileSize' = 1 /\ currentFileSize' = 0 /\ retry' = 0 /\ found' = Absent
    /\ UNCHANGED <<steady, iteration, size, writing, copied, published, ret>>

-----------------------------------------------------------------------------
(* The target process.                                                     *)

Creates(k) ==
    /\ k \in writing
    /\ size[k] = Absent
    /\ \E s \in 0..Full : (steady => s > 1) /\ size' = [size EXCEPT ![k] = s]
    /\ grown' = TRUE
    /\ UNCHANGED <<steady, pc, iteration, writing, pollVars, copied, published, dirty,
                   ret>>

Grows(k) ==
    /\ k \in writing
    /\ size[k] # Absent /\ size[k] < Full
    /\ size' = [size EXCEPT ![k] = @ + 1]
    /\ grown' = TRUE
    /\ UNCHANGED <<steady, pc, iteration, writing, pollVars, copied, published, dirty,
                   ret>>

Finishes(k) ==
    /\ k \in writing
    /\ size[k] = Full
    /\ writing' = writing \ {k}
    /\ UNCHANGED <<steady, pc, iteration, size, grown, pollVars, copied, published,
                   dirty, ret>>

-----------------------------------------------------------------------------
(* One tick of the poll.                                                   *)

Ticks ==
    /\ pc = "poll"
    /\ steady => \A k \in writing : size[k] \in {Absent, Full} \/ grown
    /\ grown' = FALSE

\* file.First on the target's directory.
First == CHOOSE k \in Present : \A l \in Present : k <= l

Seen == IF Present = {} THEN currentFileSize ELSE size[First]

SizeHolds == Present # {} /\ size[First] = fileSize

\* Mutant: any file with something in it is taken for complete.
FoundNonEmpty ==
    /\ Ticks
    /\ Present # {} /\ size[First] > 0
    /\ pc' = "copy"
    /\ found' = First
    /\ currentFileSize' = Seen
    /\ UNCHANGED <<steady, iteration, size, writing, fileSize, retry, copied, published,
                   dirty, ret>>

Found ==
    /\ Ticks
    /\ SizeHolds
    /\ pc' = "copy"
    /\ found' = First
    /\ currentFileSize' = Seen
    /\ UNCHANGED <<steady, iteration, size, writing, fileSize, retry, copied, published,
                   dirty, ret>>

\* Mutant: one retry more than the bound.
RetryOnceMore ==
    /\ Ticks
    /\ ~SizeHolds
    /\ retry <= Retries
    /\ currentFileSize' = Seen
    /\ fileSize' = Seen
    /\ retry' = retry + 1
    /\ UNCHANGED <<steady, pc, iteration, size, writing, found, copied, published,
                   dirty, ret>>

Retry ==
    /\ Ticks
    /\ ~SizeHolds
    /\ retry < Retries
    /\ currentFileSize' = Seen
    /\ fileSize' = Seen
    /\ retry' = retry + 1
    /\ UNCHANGED <<steady, pc, iteration, size, writing, found, copied, published,
                   dirty, ret>>

\* Mutant: out of retries, the poll starts over.
StartsOver ==
    /\ Ticks
    /\ ~SizeHolds
    /\ retry = Retries
    /\ retry' = 0
    /\ UNCHANGED <<steady, pc, iteration, size, writing, found, fileSize, currentFileSize, copied,
                   published, dirty, ret>>

\* Mutant: an iteration without a snapshot is skipped, the run goes on.
GivesUpAndGoesOn ==
    /\ Ticks
    /\ ~SizeHolds
    /\ retry = Retries
    /\ IF iteration < Iterations
         THEN pc' = "signal" /\ iteration' = iteration + 1 /\ UNCHANGED ret
         ELSE pc' = "returned" /\ ret' = "error" /\ UNCHANGED iteration
    /\ UNCHANGED <<steady, size, writing, pollVars, copied, published, dirty>>

\* "no heapsnapshot files found", also for one that still grows.
GivesUp ==
    /\ Ticks
    /\ ~SizeHolds
    /\ retry = Retries
    /\ pc' = "returned"
    /\ ret' = "error"
    /\ UNCHANGED <<steady, iteration, size, writing, pollVars, copied, published, dirty>>

-----------------------------------------------------------------------------
(* Copy, remove, publish; then the next iteration or the end of the run.   *)

Copies ==
    /\ pc = "copy"
    /\ pc' = "remove"
    /\ copied' = size[found]
    /\ UNCHANGED <<steady, iteration, size, writing, grown, pollVars, published, dirty,
                   ret>>

\* The name is gone, also for a target that still writes.
Removes ==
    /\ pc = "remove"
    /\ pc' = "publish"
    /\ size' = [size EXCEPT ![found] = Absent]
    /\ writing' = writing \ {found}
    /\ UNCHANGED <<steady, iteration, grown, pollVars, copied, published, dirty, ret>>

\* A failed removal is only logged.
RemoveFails ==
    /\ pc = "remove"
    /\ pc' = "publish"
    /\ UNCHANGED <<steady, iteration, size, writing, grown, pollVars, copied, published,
                   dirty, ret>>

Publishes ==
    /\ pc = "publish"
    /\ published' = [published EXCEPT ![iteration] = [file |-> found, size |-> copied]]
    /\ IF iteration < Iterations
         THEN pc' = "signal" /\ iteration' = iteration + 1 /\ UNCHANGED ret
         ELSE pc' = "returned" /\ ret' = "nil" /\ UNCHANGED iteration
    /\ UNCHANGED <<steady, size, writing, grown, pollVars, copied, dirty>>

Agent ==
    \/ Fails \/ SetUp \/ Signal \/ SignalMisses \/ Found \/ Retry \/ GivesUp
    \/ Copies \/ Removes \/ RemoveFails \/ Publishes

Target == \E k \in Snapshot : Creates(k) \/ Grows(k) \/ Finishes(k)

Next == Agent \/ Target

Spec == Init /\ [][Next]_vars

(***************************************************************************)
(* Fairness: the agent's ticks come and its calls return.  The target owes *)
(* nothing.                                                                *)
(***************************************************************************)
FairSpec == Spec /\ WF_vars(Agent)

-----------------------------------------------------------------------------
(* What makes a snapshot the right one.                                    *)

(***************************************************************************)
(* An iteration publishes the snapshot its own signal asked for, as long   *)
(* as no signal so far found a snapshot already in the directory.          *)
(***************************************************************************)
PublishesOwnSnapshot ==
    \A k \in 1..Iterations :
        published[k] # NoResult /\ dirty \cap 1..k = {} => published[k].file = k

(***************************************************************************)
(* Of a target that always writes between two polls, and whose file is     *)
(* never seen with 0 bytes (nor with 1 at the first poll), the complete    *)
(* snapshot is published: equal sizes at two polls mean it is finished.    *)
(***************************************************************************)
PublishesWholeSnapshot ==
    \A k \in 1..Iterations :
        steady /\ published[k] # NoResult /\ dirty \cap 1..k = {}
          => published[k].size = Full

(***************************************************************************)
(* The run ends whatever the target does: an Invoke polls at most          *)
(* Retries + 1 times.  (A steady target is only a restriction on when the  *)
(* ticks come, with which a tick may have to wait for the target; what it  *)
(* does, the other targets do too.)                                        *)
(***************************************************************************)
Returns == ~steady => <>(pc = "returned")

-----------------------------------------------------------------------------
(* The inductive invariant: why these hold.                                *)

\* A signal marks its own iteration only, results are of iterations behind,
\* a file the target does not write is whole, and a steady target's file is
\* never seen with less than two bytes.
Account ==
    /\ dirty \subseteq 1..iteration
    /\ \A k \in 1..Iterations :
          published[k] # NoResult => k < iteration \/ (k = iteration /\ pc = "returned")
    /\ \A j \in Snapshot \ writing : size[j] \in {Absent, Full}
    /\ steady => \A j \in 1..Iterations : size[j] = Absent \/ size[j] > 1
    /\ pc \in {"copy", "remove"} => found \in Present
    /\ pc = "publish" => found # Absent

(***************************************************************************)
(* While no signal has found a file: between iterations the target owes no *)
(* file it has not created, so after the next signal it can only be        *)
(* writing, and the poll only finding, the file of that signal.            *)
(***************************************************************************)
OnlyOwn ==
    dirty = {} =>
        /\ pc \in {"setUp", "signal", "publish"} => writing \subseteq Present
        /\ pc \in {"poll", "copy", "remove"} =>
              writing \subseteq {iteration} /\ Present \subseteq {iteration}
        /\ pc \in {"copy", "remove", "publish"} => found = iteration

\* The size of the last poll is behind that of a file that has grown since.
SizesTell ==
    steady /\ dirty = {} =>
        /\ pc = "poll" =>
              \/ fileSize <= 1
              \/ fileSize <= size[iteration] /\ (grown => fileSize < size[iteration])
        /\ pc = "poll" /\ size[iteration] = Absent => fileSize <= 1 /\ currentFileSize = 0
        /\ pc = "copy" => size[found] = Full
        /\ pc \in {"remove", "publish"} => copied = Full

(***************************************************************************)
(* The inductive invariant of the snapshot.                                *)
(***************************************************************************)
IInv ==
    /\ TypeOK /\ Account /\ OnlyOwn /\ SizesTell
    /\ PublishesOwnSnapshot /\ PublishesWholeSnapshot
=============================================================================
