---------------------------- MODULE CandidatePIDs ----------------------------
(***************************************************************************)
(* util/container.go, GetCandidatePIDs: from the container's root process  *)
(* down its process tree with one pgrep -P per process, collecting the     *)
(* processes without children, then one ps per candidate when --pgrep      *)
(* names the process to profile.                                           *)
(*                                                                         *)
(* The tree belongs to the target: between two commands its processes may  *)
(* fork and exit.  Children of a process that exits go to the container's  *)
(* root process.  pgrep also lists a process that has exited and was not   *)
(* yet reaped, and any of its calls may fail.  A PID is not used twice     *)
(* during a call.                                                          *)
(***************************************************************************)
EXTENDS Integers, SequencesExt

CONSTANT MaxPID      \* bound on the processes that ever exist

ASSUME MaxPIDAssumption == MaxPID \in Nat \ {0}

PID == 1..MaxPID
Root == 1

\* PID 0, from which a walk leads to the processes of the node; they are all
\* one to the model.
Host == 0

VARIABLES
    state,       \* per PID: "unused", "alive", "zombie", "gone"
    parent,      \* per PID: its parent, the root's and an unused PID's being itself
    moved,       \* the processes that were started, reparented or ended since the call
    named,       \* the processes whose command line matches --pgrep
    pgrep,       \* is --pgrep given?
    pc,          \* "pid", "walk", "filter", "returned", "error"
    todo,        \* the PIDs the recursion has still to visit
    misread,     \* the PIDs whose pgrep failed
    candidates,  \* pidsToProfile
    checked      \* how many candidates the filter has seen

treeVars == <<state, parent, moved>>
vars == <<treeVars, named, pgrep, pc, todo, misread, candidates, checked>>

TypeOK ==
    /\ state \in [PID -> {"unused", "alive", "zombie", "gone"}]
    /\ parent \in [PID -> PID]
    /\ moved \subseteq PID /\ named \subseteq PID
    /\ pgrep \in BOOLEAN
    /\ pc \in {"pid", "walk", "filter", "returned", "error"}
    /\ todo \in Seq(PID \cup {Host}) /\ candidates \in Seq(PID \cup {Host})
    /\ misread \subseteq PID \cup {Host}
    /\ checked \in 0..Len(candidates)

\* A container whose processes 1..k are a tree, each younger than its parent,
\* or one that has stopped.
Init ==
    /\ \E k \in 0..MaxPID :
         /\ state = [p \in PID |-> IF p <= k THEN "alive"
                                   ELSE IF k = 0 THEN "gone" ELSE "unused"]
         /\ parent \in {f \in [PID -> PID] :
                          \A p \in PID : IF p \in 2..k THEN f[p] < p ELSE f[p] = p}
    /\ moved = {}
    /\ named \in SUBSET PID
    /\ pgrep \in BOOLEAN
    /\ pc = "pid"
    /\ todo = <<>> /\ misread = {} /\ candidates = <<>> /\ checked = 0

-----------------------------------------------------------------------------
(* The target's processes.                                                 *)

Children(p) == {q \in PID \ {p} : parent[q] = p /\ state[q] \in {"alive", "zombie"}}

Fork(p) ==
    /\ state[p] = "alive"
    /\ \E q \in PID :
         /\ state[q] = "unused"
         /\ state' = [state EXCEPT ![q] = "alive"]
         /\ parent' = [parent EXCEPT ![q] = p]
         /\ moved' = moved \cup {p, q}
    /\ UNCHANGED <<named, pgrep, pc, todo, misread, candidates, checked>>

Exit(p) ==
    /\ p # Root
    /\ state[p] = "alive"
    /\ \E s \in {"zombie", "gone"} : state' = [state EXCEPT ![p] = s]
    /\ parent' = [q \in PID |-> IF q \in Children(p) THEN Root ELSE parent[q]]
    /\ moved' = moved \cup {p, parent[p]} \cup Children(p)
    /\ UNCHANGED <<named, pgrep, pc, todo, misread, candidates, checked>>

Reap(p) ==
    /\ state[p] = "zombie"
    /\ state' = [state EXCEPT ![p] = "gone"]
    /\ UNCHANGED <<parent, moved, named, pgrep, pc, todo, misread, candidates, checked>>

-----------------------------------------------------------------------------
(* GetCandidatePIDs.                                                       *)

\* GetRootPID: no runtime, no file of its state, or one that cannot be read.
RootFails ==
    /\ pc = "pid"
    /\ pc' = "error"
    /\ UNCHANGED <<treeVars, named, pgrep, todo, misread, candidates, checked>>

\* The PID in containerd's file, which may outlive the process, or in the
\* state of CRI-O.
RootFound ==
    /\ pc = "pid"
    /\ pc' = "walk"
    /\ todo' = <<Root>>
    /\ UNCHANGED <<treeVars, named, pgrep, misread, candidates, checked>>

\* The state that CRI-O keeps of a stopped container has no pid, which is
\* read as 0.
StoppedIsZero ==
    /\ pc = "pid"
    /\ state[Root] = "gone"
    /\ pc' = "walk"
    /\ todo' = <<Host>>
    /\ UNCHANGED <<treeVars, named, pgrep, misread, candidates, checked>>

\* pgrep lists PIDs in their order.
Listed(S) ==
    {s \in [1..Cardinality(S) -> S] :
        ToSet(s) = S /\ \A i, j \in DOMAIN s : i < j => s[i] < s[j]}

\* Mutant: only the first child of a process is followed.
VisitFirst ==
    /\ pc = "walk"
    /\ todo # <<>>
    /\ \E kids \in Listed(Children(Head(todo))) :
         IF kids = <<>>
           THEN /\ candidates' = Append(candidates, Head(todo))
                /\ todo' = Tail(todo)
           ELSE /\ todo' = <<kids[1]>> \o Tail(todo)
                /\ UNCHANGED candidates
    /\ UNCHANGED <<treeVars, named, pgrep, pc, misread, checked>>

\* Mutant: the process is visited again after its children.
VisitAgain ==
    /\ pc = "walk"
    /\ todo # <<>>
    /\ \E kids \in Listed(Children(Head(todo))) :
         IF kids = <<>>
           THEN /\ candidates' = Append(candidates, Head(todo))
                /\ todo' = Tail(todo)
           ELSE /\ todo' = kids \o todo
                /\ UNCHANGED candidates
    /\ UNCHANGED <<treeVars, named, pgrep, pc, misread, checked>>

\* fillWithChildrenPIDs: pgrep -P lists the children in the order of their
\* PIDs, none for a process that is gone.
Visit ==
    /\ pc = "walk"
    /\ todo # <<>>
    /\ \E kids \in Listed(Children(Head(todo))) :
         IF kids = <<>>
           THEN /\ candidates' = Append(candidates, Head(todo))
                /\ todo' = Tail(todo)
           ELSE /\ todo' = kids \o Tail(todo)
                /\ UNCHANGED candidates
    /\ UNCHANGED <<treeVars, named, pgrep, pc, misread, checked>>

\* Mutant: the process is put off to the end of the walk.
VisitFailsPutsOff ==
    /\ pc = "walk"
    /\ todo # <<>>
    /\ todo' = Append(Tail(todo), Head(todo))
    /\ misread' = misread \cup {Head(todo)}
    /\ UNCHANGED <<treeVars, named, pgrep, pc, candidates, checked>>

\* childPIDGetter.get: a pgrep that is not started, is killed or ends with an
\* error is read as no children, so that the process is a candidate.
VisitFails ==
    /\ pc = "walk"
    /\ todo # <<>>
    /\ candidates' = Append(candidates, Head(todo))
    /\ todo' = Tail(todo)
    /\ misread' = misread \cup {Head(todo)}
    /\ UNCHANGED <<treeVars, named, pgrep, pc, checked>>

WalkEnds ==
    /\ pc = "walk"
    /\ todo = <<>>
    /\ pc' = CASE candidates = <<>> -> "error" [] pgrep -> "filter" [] OTHER -> "returned"
    /\ UNCHANGED <<treeVars, named, pgrep, todo, misread, candidates, checked>>

\* The ps script: a process that is gone has no command line, and some
\* process of the node has any.
Shows(p) == p = Host \/ (state[p] \in {"alive", "zombie"} /\ p \in named)

\* Mutant: the loop goes on with the next index after a removal too.
FilterSkips ==
    /\ pc = "filter"
    /\ checked < Len(candidates)
    /\ LET p == candidates[checked + 1]
       IN  candidates' = IF Shows(p) THEN candidates ELSE RemoveAt(candidates, checked + 1)
    /\ checked' = checked + 1
    /\ UNCHANGED <<treeVars, named, pgrep, pc, todo, misread>>

\* filterPIDsToProfile, one ps.
Filter ==
    /\ pc = "filter"
    /\ checked < Len(candidates)
    /\ LET p == candidates[checked + 1]
       IN  IF Shows(p)
             THEN /\ checked' = checked + 1
                  /\ UNCHANGED candidates
             ELSE /\ candidates' = RemoveAt(candidates, checked + 1)
                  /\ UNCHANGED checked
    /\ UNCHANGED <<treeVars, named, pgrep, pc, todo, misread>>

FilterFails ==
    /\ pc = "filter"
    /\ checked < Len(candidates)
    /\ pc' = "error"
    /\ UNCHANGED <<treeVars, named, pgrep, todo, misread, candidates, checked>>

FilterEnds ==
    /\ pc = "filter"
    /\ checked = Len(candidates)
    /\ pc' = "returned"
    /\ UNCHANGED <<treeVars, named, pgrep, todo, misread, candidates, checked>>

Agent ==
    \/ RootFails \/ RootFound \/ StoppedIsZero \/ Visit \/ VisitFails \/ WalkEnds
    \/ Filter \/ FilterFails \/ FilterEnds

Target == \E p \in PID : Fork(p) \/ Exit(p) \/ Reap(p)

Next == Agent \/ (pc \in {"walk", "filter"} /\ Target)

Spec == Init /\ [][Next]_vars

\* The commands return; the target does what it likes.
FairSpec == Spec /\ WF_vars(Agent)

-----------------------------------------------------------------------------
(* What makes the list right.                                              *)

(***************************************************************************)
(* No process is profiled twice, however the tree changes under the walk:  *)
(* two goroutines on one PID would write the same result files.            *)
(***************************************************************************)
NoDuplicates == IsInjective(candidates)

\* The processes from p up to the root.
Line(p) ==
    {q \in PID : \A D \in SUBSET PID :
                    p \in D /\ (\A x \in D : parent[x] \in D) => q \in D}

\* A process that has not changed, nor any of its ancestors.
Still(p) ==
    /\ state[p] = "alive" /\ p \notin moved /\ Root \in Line(p)
    /\ \A q \in Line(p) : q = Root \/ q \notin moved

\* A process that the walk comes down to and takes for one without children.
TakenForLeaf(p) ==
    /\ Children(p) = {} \/ p \in misread
    /\ Line(p) \cap misread \subseteq {p}

(***************************************************************************)
(* The part of the tree that did not change is seen as it is, but for the  *)
(* pgrep commands that fail: a process with all its ancestors where they   *)
(* were is a candidate exactly when it has no children or its own pgrep    *)
(* failed, none of its ancestors' did, and it has the name, if asked for.  *)
(***************************************************************************)
CandidatesAreLeaves ==
    pc = "returned" =>
        \A p \in PID : Still(p) =>
            (p \in ToSet(candidates) <=> TakenForLeaf(p) /\ (pgrep => p \in named))

(***************************************************************************)
(* The walk ends although the tree may grow and shrink ahead of it.        *)
(***************************************************************************)
WalkEndsAtLast == <>(pc \in {"returned", "error"})

-----------------------------------------------------------------------------
(* Why the list is right: what is true between any two steps.              *)

Lives(p) == state[p] \in {"alive", "zombie"}

\* The processes are a tree below the root, and a PID that was never used is
\* nobody's parent.
Tree ==
    /\ parent[Root] = Root /\ state[Root] \in {"alive", "gone"}
    /\ \A p, q \in PID : state[q] = "unused" /\ parent[p] = q => p = q
    /\ \A p \in PID \ {Root} : Lives(p) => state[parent[p]] = "alive"
    /\ \A D \in SUBSET PID :
          (\E p \in D : Lives(p)) /\ (\A p \in D : parent[p] \in D) => Root \in D

\* A zombie is a change of its parent; only the root may get one from elsewhere,
\* and then has another child.
Mourned ==
    \A p \in PID, z \in PID :
        z \in Children(p) /\ state[z] = "zombie" /\ p \notin moved =>
            p = Root /\ \E q \in Children(Root) : state[q] = "alive"

Met == ToSet(todo) \cup ToSet(candidates)

\* Nothing is met twice: what is still below a PID to visit was not met.
Once ==
    /\ IsInjective(todo) /\ IsInjective(candidates) /\ ToSet(todo) \cap ToSet(candidates) = {}
    /\ \A p \in Met : p = Host \/ state[p] # "unused"
    /\ Root \in ToSet(todo) => Met = {Root}
    /\ \A p \in ToSet(todo) : \E D \in SUBSET (PID \ {Root}) :
          /\ Children(p) \subseteq D /\ \A q \in D : Children(q) \subseteq D
          /\ D \cap Met = {}

\* What each phase leaves to the next.
Phases ==
    /\ pc # "walk" => todo = <<>>
    /\ pc = "pid" => candidates = <<>>
    /\ pc \in {"pid", "walk"} => checked = 0
    /\ pc = "filter" => pgrep

\* A PID whose pgrep failed is a candidate, and the walk meets nothing below it
\* that did not change.
Missed ==
    /\ pc = "pid" => misread = {}
    /\ pc = "walk" => misread \subseteq ToSet(candidates)
    /\ \A p \in PID : Still(p) /\ ~(Line(p) \cap misread \subseteq {p}) => p \notin Met

\* Above a process that did not change there is one to visit, or it was visited.
Walked ==
    pc = "walk" =>
        \A p \in PID : Still(p) =>
            \/ Line(p) \cap ToSet(todo) # {}
            \/ p \in ToSet(candidates) <=> TakenForLeaf(p)

Filtered ==
    pc = "filter" =>
        \A p \in PID : Still(p) =>
            /\ p \in ToSet(candidates) => TakenForLeaf(p)
            /\ TakenForLeaf(p) /\ p \in named => p \in ToSet(candidates)
            /\ \A i \in 1..checked : candidates[i] = p => p \in named

(***************************************************************************)
(* The type, the tree, and how the walk stands to it.                      *)
(***************************************************************************)
IInv ==
    /\ TypeOK /\ Tree /\ Mourned /\ Once /\ Phases /\ Missed
    /\ Walked /\ Filtered /\ CandidatesAreLeaves
=============================================================================
