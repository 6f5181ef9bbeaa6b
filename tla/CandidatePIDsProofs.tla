------------------------- MODULE CandidatePIDsProofs -------------------------
(***************************************************************************)
(* The candidates of GetCandidatePIDs, for any number of processes: none   *)
(* twice, and the part of the tree that stood still seen as it is.         *)
(*                                                                         *)
(* The argument: a process to visit has everything below it in a set that  *)
(* the walk has not met, and above a process that stood still there is one *)
(* to visit until it is visited itself.                                    *)
(***************************************************************************)
EXTENDS CandidatePIDs, FiniteSetTheorems, SequenceTheorems, WellFoundedInduction, TLAPS

-----------------------------------------------------------------------------
(* Sequences without repetition.                                           *)

\* The head of a sequence is not in its tail.
LEMMA TailFacts ==
  ASSUME NEW S, NEW s \in Seq(S), s # <<>>, IsInjective(s)
  PROVE  /\ Head(s) \in ToSet(s) /\ Head(s) \in S
         /\ Tail(s) \in Seq(S) /\ IsInjective(Tail(s))
         /\ ToSet(Tail(s)) = ToSet(s) \ {Head(s)}
<1>1. /\ Len(s) \in Nat \ {0} /\ DOMAIN s = 1..Len(s) /\ Head(s) = s[1]
      /\ Tail(s) \in Seq(S) /\ DOMAIN Tail(s) = 1..(Len(s) - 1)
      /\ \A i \in 1..(Len(s) - 1) : Tail(s)[i] = s[i + 1]
  OBVIOUS
<1>2. Head(s) \in ToSet(s) /\ Head(s) \in S
  BY <1>1 DEF ToSet
<1>3. IsInjective(Tail(s))
  BY <1>1 DEF IsInjective
<1>4. ToSet(Tail(s)) \subseteq ToSet(s) \ {Head(s)}
  BY <1>1 DEF IsInjective, ToSet
<1>5. ASSUME NEW i \in DOMAIN s, s[i] # Head(s) PROVE s[i] \in ToSet(Tail(s))
  <2>1. i - 1 \in 1..(Len(s) - 1) /\ Tail(s)[i - 1] = s[i]
    BY <1>1, <1>5
  <2>q. QED
    BY <1>1, <2>1 DEF ToSet
<1>q. QED
  BY <1>1, <1>2, <1>3, <1>4, <1>5 DEF ToSet

\* A new element at the end.
LEMMA AppendFacts ==
  ASSUME NEW S, NEW s \in Seq(S), NEW e \in S, IsInjective(s), e \notin ToSet(s)
  PROVE  /\ Append(s, e) \in Seq(S) /\ IsInjective(Append(s, e))
         /\ ToSet(Append(s, e)) = ToSet(s) \cup {e}
         /\ Len(Append(s, e)) = Len(s) + 1
<1>1. /\ Len(s) \in Nat /\ DOMAIN s = 1..Len(s) /\ DOMAIN Append(s, e) = 1..(Len(s) + 1)
      /\ Append(s, e) \in Seq(S) /\ Append(s, e)[Len(s) + 1] = e
      /\ \A i \in 1..Len(s) : Append(s, e)[i] = s[i]
      /\ Len(Append(s, e)) = Len(s) + 1
  OBVIOUS
<1>2. IsInjective(Append(s, e))
  BY <1>1 DEF IsInjective, ToSet
<1>3. ToSet(Append(s, e)) \subseteq ToSet(s) \cup {e}
  BY <1>1 DEF ToSet
<1>4. ToSet(s) \cup {e} \subseteq ToSet(Append(s, e))
  <2>1. \A i \in DOMAIN s : i \in DOMAIN Append(s, e)
    BY <1>1
  <2>2. Len(s) + 1 \in DOMAIN Append(s, e)
    BY <1>1
  <2>q. QED
    BY <1>1, <2>1, <2>2 DEF ToSet
<1>q. QED
  BY <1>1, <1>2, <1>3, <1>4

\* One sequence before another.
LEMMA ConcatFacts ==
  ASSUME NEW S, NEW s \in Seq(S), NEW t \in Seq(S), IsInjective(s), IsInjective(t),
         ToSet(s) \cap ToSet(t) = {}
  PROVE  /\ s \o t \in Seq(S) /\ IsInjective(s \o t)
         /\ ToSet(s \o t) = ToSet(s) \cup ToSet(t)
<1> DEFINE c == s \o t
<1>1. /\ Len(s) \in Nat /\ Len(t) \in Nat /\ DOMAIN s = 1..Len(s) /\ DOMAIN t = 1..Len(t)
      /\ DOMAIN c = 1..(Len(s) + Len(t)) /\ c \in Seq(S)
      /\ \A i \in 1..Len(s) : c[i] = s[i]
      /\ \A i \in 1..(Len(s) + Len(t)) : i > Len(s) => c[i] = t[i - Len(s)]
  OBVIOUS
<1>2. \A i \in DOMAIN c : \/ i \in DOMAIN s /\ c[i] = s[i]
                          \/ i - Len(s) \in DOMAIN t /\ c[i] = t[i - Len(s)] /\ i > Len(s)
  BY <1>1
<1>3. \A i \in DOMAIN s : i \in DOMAIN c /\ c[i] = s[i]
  BY <1>1
<1>4. \A i \in DOMAIN t : i + Len(s) \in DOMAIN c /\ c[i + Len(s)] = t[i]
  BY <1>1
<1> HIDE DEF c
<1>5. ToSet(c) = ToSet(s) \cup ToSet(t)
  BY <1>2, <1>3, <1>4 DEF ToSet
<1>6. ASSUME NEW i \in DOMAIN c, NEW j \in DOMAIN c, c[i] = c[j] PROVE i = j
  <2>1. \A a \in DOMAIN s, b \in DOMAIN t : s[a] # t[b]
    BY DEF ToSet
  <2>2. i \in Int /\ j \in Int /\ Len(s) \in Int
    BY <1>1
  <2>3. CASE i \in DOMAIN s /\ c[i] = s[i]
    BY <1>2, <1>6, <2>1, <2>3 DEF IsInjective
  <2>4. CASE i - Len(s) \in DOMAIN t /\ c[i] = t[i - Len(s)]
    <3>1. j - Len(s) \in DOMAIN t /\ c[j] = t[j - Len(s)]
      BY <1>2, <1>6, <2>1, <2>4
    <3>2. i - Len(s) = j - Len(s)
      BY <1>6, <2>4, <3>1 DEF IsInjective
    <3>q. QED
      BY <2>2, <3>2
  <2>q. QED
    BY <1>2, <2>3, <2>4
<1>7. s \o t = c
  BY DEF c
<1>q. QED
  BY <1>1, <1>5, <1>6, <1>7 DEF IsInjective

\* One element less.
LEMMA RemoveFacts ==
  ASSUME NEW S, NEW s \in Seq(S), IsInjective(s), NEW k \in 1..Len(s)
  PROVE  /\ RemoveAt(s, k) \in Seq(S) /\ IsInjective(RemoveAt(s, k))
         /\ Len(RemoveAt(s, k)) = Len(s) - 1
         /\ ToSet(RemoveAt(s, k)) = ToSet(s) \ {s[k]}
         /\ \A i \in 1..(k - 1) : RemoveAt(s, k)[i] = s[i]
<1> DEFINE r == RemoveAt(s, k)
<1>1. /\ Len(s) \in Nat /\ DOMAIN s = 1..Len(s)
  OBVIOUS
<1>2. /\ SubSeq(s, 1, k - 1) \in Seq(S) /\ Len(SubSeq(s, 1, k - 1)) = k - 1
      /\ \A i \in 1..(k - 1) : SubSeq(s, 1, k - 1)[i] = s[i]
  BY <1>1
<1>3. /\ SubSeq(s, k + 1, Len(s)) \in Seq(S) /\ Len(SubSeq(s, k + 1, Len(s))) = Len(s) - k
      /\ \A i \in 1..(Len(s) - k) : SubSeq(s, k + 1, Len(s))[i] = s[k + i]
  <2>1. \A i \in (k + 1)..Len(s) : s[i] \in S
    BY <1>1
  <2>2. /\ SubSeq(s, k + 1, Len(s)) \in Seq(S)
        /\ Len(SubSeq(s, k + 1, Len(s)))
             = IF k + 1 <= Len(s) THEN Len(s) - (k + 1) + 1 ELSE 0
        /\ \A i \in 1..(Len(s) - (k + 1) + 1) :
             SubSeq(s, k + 1, Len(s))[i] = s[k + 1 + i - 1]
    <3>1. k + 1 \in Int /\ Len(s) \in Int
      BY <1>1
    <3>q. QED
      BY <2>1, <3>1, SubSeqProperties
  <2>3. \A i \in 1..(Len(s) - k) : i \in Nat /\ k + 1 + i - 1 = k + i
    BY <1>1
  <2>4. Len(s) - (k + 1) + 1 = Len(s) - k
    BY <1>1
  <2>5. k + 1 <= Len(s) \/ Len(s) - k = 0
    <3>1. k \in Nat /\ Len(s) \in Nat /\ k <= Len(s)
      BY <1>1
    <3>q. QED
      BY <3>1, SMT
  <2>q. QED
    BY <1>1, <2>2, <2>3, <2>4, <2>5
<1>4. /\ r \in Seq(S) /\ Len(r) = Len(s) - 1 /\ DOMAIN r = 1..(Len(s) - 1)
      /\ \A i \in 1..(k - 1) : r[i] = s[i]
      /\ \A i \in k..(Len(s) - 1) : r[i] = s[i + 1]
  <2> DEFINE a == SubSeq(s, 1, k - 1)
             b == SubSeq(s, k + 1, Len(s))
  <2>1. /\ a \in Seq(S) /\ Len(a) = k - 1 /\ \A i \in 1..(k - 1) : a[i] = s[i]
        /\ b \in Seq(S) /\ Len(b) = Len(s) - k
        /\ \A i \in 1..(Len(s) - k) : b[i] = s[k + i]
        /\ r = a \o b
    BY <1>2, <1>3 DEF RemoveAt
  <2> HIDE DEF a, b, r
  <2>2. /\ a \o b \in Seq(S) /\ Len(a \o b) = Len(a) + Len(b)
        /\ \A i \in 1..(Len(a) + Len(b)) :
             (a \o b)[i] = IF i <= Len(a) THEN a[i] ELSE b[i - Len(a)]
    BY <2>1, ConcatProperties
  <2>3. r \in Seq(S) /\ Len(r) = Len(s) - 1 /\ DOMAIN r = 1..(Len(s) - 1)
    <3>1. r \in Seq(S) /\ Len(r) = (k - 1) + (Len(s) - k)
      BY <2>1, <2>2
    <3>2. (k - 1) + (Len(s) - k) = Len(s) - 1
      BY <1>1
    <3>3. DOMAIN r = 1..Len(r)
      BY <3>1, LenProperties
    <3>q. QED
      BY <3>1, <3>2, <3>3
  <2>4. \A i \in 1..(k - 1) : r[i] = s[i]
    BY <1>1, <2>1, <2>2
  <2>5. ASSUME NEW i \in k..(Len(s) - 1) PROVE r[i] = s[i + 1]
    <3>1. /\ i \in 1..(Len(a) + Len(b)) /\ ~(i <= Len(a)) /\ i - Len(a) \in 1..(Len(s) - k)
          /\ k + (i - Len(a)) = i + 1
      BY <1>1, <2>1
    <3>q. QED
      BY <2>1, <2>2, <3>1
  <2>q. QED
    BY <2>3, <2>4, <2>5
<1> HIDE DEF r
<1>5. IsInjective(r)
  <2> SUFFICES ASSUME NEW i \in DOMAIN r, NEW j \in DOMAIN r, r[i] = r[j] PROVE i = j
    BY DEF IsInjective
  <2>1. \A l \in DOMAIN r : \/ l < k /\ r[l] = s[l] /\ l \in DOMAIN s
                            \/ l >= k /\ r[l] = s[l + 1] /\ l + 1 \in DOMAIN s
    BY <1>1, <1>4
  <2>q. QED
    BY <1>1, <1>4, <2>1 DEF IsInjective
<1>6. ToSet(r) \subseteq ToSet(s) \ {s[k]}
  <2> SUFFICES ASSUME NEW l \in DOMAIN r PROVE r[l] \in ToSet(s) \ {s[k]}
    BY DEF ToSet
  <2>1. \/ l < k /\ r[l] = s[l] /\ l \in DOMAIN s
        \/ l >= k /\ r[l] = s[l + 1] /\ l + 1 \in DOMAIN s
    BY <1>1, <1>4
  <2>q. QED
    BY <1>1, <1>4, <2>1 DEF IsInjective, ToSet
<1>7. ToSet(s) \ {s[k]} \subseteq ToSet(r)
  <2> SUFFICES ASSUME NEW l \in DOMAIN s, l # k PROVE s[l] \in ToSet(r)
    BY DEF ToSet
  <2>1. CASE l < k
    BY <1>1, <1>4, <2>1 DEF ToSet
  <2>2. CASE l > k
    <3>1. l - 1 \in DOMAIN r /\ r[l - 1] = s[l]
      BY <1>1, <1>4, <2>2
    <3>q. QED
      BY <3>1 DEF ToSet
  <2>q. QED
    BY <1>1, <2>1, <2>2
<1>8. RemoveAt(s, k) = r
  BY DEF r
<1>q. QED
  BY <1>4, <1>5, <1>6, <1>7, <1>8

\* pgrep's answer is all of the children, each once.
LEMMA ListedFacts ==
  ASSUME NEW C \in SUBSET PID, NEW kids \in Listed(C)
  PROVE  /\ kids \in Seq(C) /\ IsInjective(kids) /\ ToSet(kids) = C
         /\ kids = <<>> => C = {}
         /\ C = {} => kids = <<>>
<1>1. IsFiniteSet(C)
  <2>1. IsFiniteSet(PID)
    BY FS_Interval, MaxPIDAssumption DEF PID
  <2>q. QED
    BY <2>1, FS_Subset
<1>2. Cardinality(C) \in Nat
  BY <1>1, FS_CardinalityType
<1>3. /\ kids \in [1..Cardinality(C) -> C] /\ ToSet(kids) = C
      /\ \A i, j \in DOMAIN kids : i < j => kids[i] < kids[j]
  BY DEF Listed
<1>4. kids \in Seq(C)
  BY <1>2, <1>3
<1>5. ASSUME NEW i \in DOMAIN kids, NEW j \in DOMAIN kids, kids[i] = kids[j] PROVE i = j
  <2>1. i \in Nat /\ j \in Nat /\ kids[i] \in Nat /\ kids[j] \in Nat
    <3>1. DOMAIN kids = 1..Cardinality(C) /\ C \subseteq Nat
      BY <1>3, MaxPIDAssumption DEF PID
    <3>2. kids[i] \in C /\ kids[j] \in C
      BY <1>3, <3>1
    <3>3. i \in Nat /\ j \in Nat
      BY <1>2, <3>1
    <3>q. QED
      BY <3>1, <3>2, <3>3
  <2>q. QED
    BY <1>3, <1>5, <2>1
<1>6. kids = <<>> => C = {}
  BY <1>3 DEF ToSet
<1>7. C = {} => kids = <<>>
  BY <1>4
<1>q. QED
  BY <1>3, <1>4, <1>5, <1>6, <1>7 DEF IsInjective

-----------------------------------------------------------------------------
(* The tree.                                                               *)

\* PID 0 is no process of the container.
LEMMA Pids ==
  /\ Root \in PID /\ Host \notin PID
  /\ \A p \in PID \cup {Host} : Children(p) \in SUBSET PID
BY MaxPIDAssumption DEF PID, Root, Host, Children

\* The line of a process holds it, is closed upwards, and is the least such set.
LEMMA LineFacts ==
  ASSUME TypeOK, NEW p \in PID
  PROVE  /\ Line(p) \in SUBSET PID /\ p \in Line(p)
         /\ \A a \in Line(p) : parent[a] \in Line(p)
         /\ \A D \in SUBSET PID :
              p \in D /\ (\A x \in D : parent[x] \in D) => Line(p) \subseteq D
<1>1. \A a \in PID : parent[a] \in PID
  BY DEF TypeOK
<1>q. QED
  BY <1>1, Zenon DEF Line

\* Whoever is above a process in its line is there as somebody's parent.
LEMMA LineChild ==
  ASSUME TypeOK, NEW p \in PID, NEW a \in Line(p), a # p
  PROVE  \E b \in Line(p) : b # a /\ parent[b] = a
<1> DEFINE D == Line(p) \ {a}
<1>1. D \in SUBSET PID /\ p \in D
  BY LineFacts
<1>2. ~(\A x \in D : parent[x] \in D)
  BY <1>1, LineFacts
<1>3. PICK x \in D : parent[x] \notin D
  BY <1>2
<1>q. QED
  BY <1>3, LineFacts

\* Above a process that lives all live, up to the root.
LEMMA LineLives ==
  ASSUME TypeOK, Tree, NEW p \in PID, Lives(p)
  PROVE  Root \in Line(p) /\ \A a \in Line(p) : Lives(a)
<1> DEFINE D == {x \in PID : Lives(x)}
<1>1. p \in D /\ D \in SUBSET PID
  OBVIOUS
<1>2. \A x \in D : parent[x] \in D
  <2> SUFFICES ASSUME NEW x \in D PROVE parent[x] \in PID /\ Lives(parent[x])
    OBVIOUS
  <2>1. CASE x = Root
    BY <2>1, Pids DEF Tree, TypeOK
  <2>2. CASE x # Root
    BY <2>2 DEF Tree, TypeOK, Lives
  <2>q. QED
    BY <2>1, <2>2
<1>3. Line(p) \subseteq D
  BY <1>1, <1>2, LineFacts
<1>4. Root \in Line(p)
  <2>1. Line(p) \in SUBSET PID /\ p \in Line(p) /\ \A a \in Line(p) : parent[a] \in Line(p)
    BY LineFacts
  <2>q. QED
    BY <2>1 DEF Tree
<1>q. QED
  BY <1>3, <1>4

\* A process below the root that lives is its child, or the root has another.
LEMMA RootHasChild ==
  ASSUME TypeOK, Tree, NEW x \in PID, x # Root, state[x] = "alive"
  PROVE  /\ state[Root] = "alive" /\ parent[x] # x
         /\ \E y \in Children(Root) : state[y] = "alive" /\ (y = x \/ parent[x] # Root)
<1> DEFINE D == {y \in PID \ {Root} : state[y] = "alive"}
<1>1. ~(\A y \in D : parent[y] \in D)
  BY DEF Tree, Lives
<1>2. PICK y \in D : parent[y] \notin D
  BY <1>1
<1>3. state[parent[y]] = "alive" /\ parent[y] \in PID
  BY <1>2 DEF Tree, Lives, TypeOK
<1>4. parent[y] = Root /\ y \in Children(Root) /\ state[Root] = "alive"
  BY <1>2, <1>3 DEF Children
<1>5. parent[x] # x
  <2>1. {x} \in SUBSET PID /\ Lives(x)
    BY DEF Lives
  <2>q. QED
    BY <2>1 DEF Tree
<1>6. parent[x] = Root => x \in Children(Root)
  BY DEF Children
<1>q. QED
  BY <1>2, <1>4, <1>5, <1>6

\* What a fork does: its new process was nobody's parent and has no child.
LEMMA ForkFacts ==
  ASSUME TypeOK, Tree, NEW x \in PID, Fork(x)
  PROVE  \E q \in PID :
           /\ state[x] = "alive" /\ state[q] = "unused" /\ q # Root /\ q # x
           /\ state' = [state EXCEPT ![q] = "alive"] /\ parent' = [parent EXCEPT ![q] = x]
           /\ moved' = moved \cup {x, q}
           /\ \A a \in PID \cup {Host} :
                /\ Children(a)' \subseteq Children(a) \cup {q}
                /\ a # x => Children(a)' = Children(a)
           /\ Children(q)' = {}
<1>1. PICK q \in PID :
        /\ state[q] = "unused" /\ state' = [state EXCEPT ![q] = "alive"]
        /\ parent' = [parent EXCEPT ![q] = x] /\ moved' = moved \cup {x, q}
  BY DEF Fork
<1>2. state[x] = "alive" /\ q # Root /\ q # x
  BY <1>1 DEF Fork, Tree
<1>3. \A a \in PID : /\ a # q => state'[a] = state[a] /\ parent'[a] = parent[a]
                     /\ a = q => state'[a] = "alive" /\ parent'[a] = x
  BY <1>1 DEF TypeOK
<1>4. \A a \in PID \cup {Host} : Children(a)' \subseteq Children(a) \cup {q}
  BY <1>3 DEF Children
<1>5. \A a \in PID \cup {Host} : a # x => Children(a)' = Children(a)
  BY <1>1, <1>3 DEF Children
<1>6. Children(q)' = {}
  <2>1. Children(q)' = Children(q)
    BY <1>2, <1>5
  <2>2. Children(q) = {}
    BY <1>1 DEF Children, Tree
  <2>q. QED
    BY <2>1, <2>2
<1>q. QED
  BY <1>1, <1>2, <1>4, <1>5, <1>6

\* What an exit does: the children go to the root.
LEMMA ExitFacts ==
  ASSUME TypeOK, Tree, NEW x \in PID, Exit(x)
  PROVE  /\ x # Root /\ state[x] = "alive" /\ state'[x] \in {"zombie", "gone"}
         /\ \A a \in PID : a # x => state'[a] = state[a]
         /\ \A a \in PID : a \in Children(x) => parent'[a] = Root
         /\ \A a \in PID : a \notin Children(x) => parent'[a] = parent[a]
         /\ moved' = moved \cup {x, parent[x]} \cup Children(x)
         /\ Root \notin Children(x) /\ x \notin Children(x)
         /\ \A a \in PID \cup {Host} :
              /\ a # Root => Children(a)' \subseteq Children(a)
              /\ Children(a) \subseteq Children(a)' \cup {x} \cup Children(x)
         /\ Children(Root)' \subseteq Children(Root) \cup Children(x)
<1>1. /\ x # Root /\ state[x] = "alive" /\ state'[x] \in {"zombie", "gone"}
      /\ \A a \in PID : a # x => state'[a] = state[a]
      /\ \A a \in PID : a \in Children(x) => parent'[a] = Root
      /\ \A a \in PID : a \notin Children(x) => parent'[a] = parent[a]
      /\ moved' = moved \cup {x, parent[x]} \cup Children(x)
  BY DEF Exit, TypeOK
<1>2. Root \notin Children(x) /\ x \notin Children(x)
  BY <1>1 DEF Children, Tree
<1>3. \A a \in PID \cup {Host} : a # Root => Children(a)' \subseteq Children(a)
  BY <1>1 DEF Children
<1>4. \A a \in PID \cup {Host} : Children(a) \subseteq Children(a)' \cup {x} \cup Children(x)
  BY <1>1 DEF Children
<1>5. Children(Root)' \subseteq Children(Root) \cup Children(x)
  BY <1>1 DEF Children
<1>q. QED
  BY <1>1, <1>2, <1>3, <1>4, <1>5

\* What a reaping does.
LEMMA ReapFacts ==
  ASSUME TypeOK, NEW z \in PID, Reap(z)
  PROVE  /\ state[z] = "zombie" /\ state'[z] = "gone"
         /\ \A a \in PID : a # z => state'[a] = state[a]
         /\ parent' = parent /\ moved' = moved
         /\ \A a \in PID \cup {Host} : Children(a)' = Children(a) \ {z}
<1>1. /\ state[z] = "zombie" /\ state'[z] = "gone"
      /\ \A a \in PID : a # z => state'[a] = state[a]
      /\ parent' = parent /\ moved' = moved
  BY DEF Reap, TypeOK
<1>2. \A a \in PID \cup {Host} : Children(a)' = Children(a) \ {z}
  BY <1>1 DEF Children
<1>q. QED
  BY <1>1, <1>2

-----------------------------------------------------------------------------
(* The target's steps.                                                     *)

\* The target leaves the agent's state alone.
LEMMA TargetFrame ==
  ASSUME TypeOK, Target
  PROVE  TypeOK' /\ UNCHANGED <<named, pgrep, pc, todo, misread, candidates, checked>>
<1>1. PICK x \in PID : Fork(x) \/ Exit(x) \/ Reap(x)
  BY DEF Target
<1>2. UNCHANGED <<named, pgrep, pc, todo, misread, candidates, checked>>
  BY <1>1 DEF Fork, Exit, Reap
<1>3. /\ state' \in [PID -> {"unused", "alive", "zombie", "gone"}]
      /\ parent' \in [PID -> PID] /\ moved' \subseteq PID
  <2>1. CASE Fork(x)
    BY <2>1 DEF Fork, TypeOK
  <2>2. CASE Exit(x)
    BY <2>2, Pids DEF Exit, TypeOK
  <2>3. CASE Reap(x)
    BY <2>3 DEF Reap, TypeOK
  <2>q. QED
    BY <1>1, <2>1, <2>2, <2>3
<1>q. QED
  BY <1>2, <1>3 DEF TypeOK

\* The processes stay a tree.
LEMMA TargetKeepsTree ==
  ASSUME TypeOK, Tree, Target
  PROVE  Tree'
<1>1. PICK x \in PID : Fork(x) \/ Exit(x) \/ Reap(x)
  BY DEF Target
<1>2. CASE Fork(x)
  <2>1. PICK q \in PID :
           /\ state[x] = "alive" /\ state[q] = "unused" /\ q # Root /\ q # x
           /\ state' = [state EXCEPT ![q] = "alive"] /\ parent' = [parent EXCEPT ![q] = x]
    BY <1>2, ForkFacts
  <2>2. \A a \in PID : /\ a # q => state'[a] = state[a] /\ parent'[a] = parent[a]
                       /\ a = q => state'[a] = "alive" /\ parent'[a] = x
    BY <2>1 DEF TypeOK
  <2>3. /\ parent'[Root] = Root /\ state'[Root] \in {"alive", "gone"}
        /\ \A a, b \in PID : state'[b] = "unused" /\ parent'[a] = b => a = b
    BY <2>1, <2>2, Pids DEF Tree
  <2>4. ASSUME NEW a \in PID \ {Root}, Lives(a)' PROVE state'[parent'[a]] = "alive"
    <3>1. CASE a = q
      BY <2>1, <2>2, <3>1
    <3>2. CASE a # q
      <4>1. state[parent[a]] = "alive" /\ parent[a] \in PID
        BY <2>2, <2>4, <3>2 DEF Tree, Lives, TypeOK
      <4>q. QED
        BY <2>1, <2>2, <3>2, <4>1
    <3>q. QED
      BY <3>1, <3>2
  <2>5. ASSUME NEW D \in SUBSET PID, NEW a \in D, Lives(a)', \A p \in D : parent'[p] \in D
        PROVE  Root \in D
    <3> DEFINE E == D \ {q}
    <3>1. E \in SUBSET PID
      OBVIOUS
    <3>2. \E p \in E : Lives(p)
      BY <2>1, <2>2, <2>5 DEF Lives
    <3>3. \A p \in E : parent[p] \in E
      BY <2>1, <2>2, <2>5 DEF Tree
    <3>q. QED
      BY <3>1, <3>2, <3>3 DEF Tree
  <2>q. QED
    BY <2>3, <2>4, <2>5 DEF Tree
<1>3. CASE Exit(x)
  <2>1. /\ x # Root /\ state[x] = "alive" /\ state'[x] \in {"zombie", "gone"}
        /\ \A a \in PID : a # x => state'[a] = state[a]
        /\ \A a \in PID : a \in Children(x) => parent'[a] = Root
        /\ \A a \in PID : a \notin Children(x) => parent'[a] = parent[a]
        /\ Root \notin Children(x) /\ x \notin Children(x)
    BY <1>3, ExitFacts
  <2>2. state[Root] = "alive" /\ parent[x] # x
    BY <2>1, RootHasChild
  <2>3. /\ parent'[Root] = Root /\ state'[Root] \in {"alive", "gone"}
        /\ \A a, b \in PID : state'[b] = "unused" /\ parent'[a] = b => a = b
    BY <2>1, <2>2, Pids DEF Tree
  <2>4. ASSUME NEW a \in PID \ {Root}, Lives(a)' PROVE state'[parent'[a]] = "alive"
    <3>0. Lives(a)
      BY <2>1, <2>4 DEF Lives
    <3>1. CASE a \in Children(x)
      BY <2>1, <2>2, <3>1, Pids
    <3>2. CASE a \notin Children(x)
      <4>1. state[parent[a]] = "alive" /\ parent[a] \in PID /\ parent'[a] = parent[a]
        BY <2>1, <3>0, <3>2 DEF Tree, TypeOK
      <4>2. parent[a] # x
        BY <2>2, <3>0, <3>2 DEF Children, Lives
      <4>q. QED
        BY <2>1, <4>1, <4>2
    <3>q. QED
      BY <3>1, <3>2
  <2>5. ASSUME NEW D \in SUBSET PID, NEW a \in D, Lives(a)', \A p \in D : parent'[p] \in D
        PROVE  Root \in D
    <3>0. Lives(a)
      BY <2>1, <2>5 DEF Lives
    <3>1. CASE \E p \in D : p \in Children(x)
      BY <2>1, <2>5, <3>1
    <3>2. CASE ~\E p \in D : p \in Children(x)
      BY <2>1, <2>5, <3>0, <3>2 DEF Tree
    <3>q. QED
      BY <3>1, <3>2
  <2>q. QED
    BY <2>3, <2>4, <2>5 DEF Tree
<1>4. CASE Reap(x)
  <2>1. /\ state[x] = "zombie" /\ state'[x] = "gone" /\ parent' = parent
        /\ \A a \in PID : a # x => state'[a] = state[a]
    BY <1>4, ReapFacts
  <2>2. /\ parent'[Root] = Root /\ state'[Root] \in {"alive", "gone"}
        /\ \A a, b \in PID : state'[b] = "unused" /\ parent'[a] = b => a = b
    BY <2>1, Pids DEF Tree
  <2>3. \A a \in PID : Lives(a)' => Lives(a)
    BY <2>1 DEF Lives
  <2>4. ASSUME NEW a \in PID \ {Root}, Lives(a)' PROVE state'[parent'[a]] = "alive"
    BY <2>1, <2>3, <2>4 DEF Tree, TypeOK
  <2>5. ASSUME NEW D \in SUBSET PID, NEW a \in D, Lives(a)', \A p \in D : parent'[p] \in D
        PROVE  Root \in D
    BY <2>1, <2>3, <2>5 DEF Tree
  <2>q. QED
    BY <2>2, <2>4, <2>5 DEF Tree
<1>q. QED
  BY <1>1, <1>2, <1>3, <1>4

\* A zombie below a process that did not change came to the root.
LEMMA TargetKeepsMourned ==
  ASSUME TypeOK, Tree, Mourned, Target
  PROVE  Mourned'
<1>1. PICK x \in PID : Fork(x) \/ Exit(x) \/ Reap(x)
  BY DEF Target
<1> SUFFICES ASSUME NEW p \in PID, NEW z \in PID,
                    z \in Children(p)', state'[z] = "zombie", p \notin moved'
             PROVE  p = Root /\ \E q \in Children(Root)' : state'[q] = "alive"
  BY DEF Mourned
<1>2. CASE Fork(x)
  <2>1. PICK q \in PID :
           /\ state[x] = "alive" /\ state[q] = "unused" /\ q # Root /\ q # x
           /\ state' = [state EXCEPT ![q] = "alive"]
           /\ moved' = moved \cup {x, q}
           /\ \A a \in PID \cup {Host} : a # x => Children(a)' = Children(a)
    BY <1>2, ForkFacts
  <2>2. p \notin moved /\ z \in Children(p) /\ state[z] = "zombie"
    BY <2>1 DEF TypeOK
  <2>3. p = Root /\ \E b \in Children(Root) : state[b] = "alive"
    BY <2>2 DEF Mourned
  <2>q. QED
    BY <2>1, <2>3, Pids DEF TypeOK
<1>3. CASE Exit(x)
  <2>1. /\ x # Root /\ state[x] = "alive" /\ state'[x] \in {"zombie", "gone"}
        /\ \A a \in PID : a # x => state'[a] = state[a]
        /\ \A a \in PID : a \in Children(x) => parent'[a] = Root
        /\ \A a \in PID : a \notin Children(x) => parent'[a] = parent[a]
        /\ moved' = moved \cup {x, parent[x]} \cup Children(x)
        /\ Root \notin Children(x) /\ x \notin Children(x)
    BY <1>3, ExitFacts
  <2>2. parent'[z] = p /\ z # p /\ p \notin moved /\ parent[x] # p
    BY <2>1 DEF Children
  <2>3. z # x /\ state[z] = "zombie"
    BY <2>1, <2>2
  <2>4. \A y \in Children(Root) : state[y] = "alive" /\ y # x /\ y \notin Children(x)
                                    => y \in Children(Root)' /\ state'[y] = "alive"
    BY <2>1 DEF Children
  <2>5. CASE z \in Children(x)
    <3>1. p = Root /\ parent[x] # Root
      BY <2>1, <2>2, <2>5
    <3>2. PICK y \in Children(Root) : state[y] = "alive" /\ (y = x \/ parent[x] # Root)
      BY <2>1, RootHasChild
    <3>3. y # x /\ y \notin Children(x)
      BY <2>1, <3>1, <3>2 DEF Children
    <3>q. QED
      BY <2>4, <3>1, <3>2, <3>3
  <2>6. CASE z \notin Children(x)
    <3>1. z \in Children(p)
      BY <2>1, <2>2, <2>3, <2>6 DEF Children
    <3>2. p = Root /\ \E q \in Children(Root) : state[q] = "alive"
      BY <2>2, <2>3, <3>1 DEF Mourned
    <3>3. PICK q \in Children(Root) : state[q] = "alive"
      BY <3>2
    <3>4. q # x /\ q \notin Children(x)
      BY <2>1, <2>2, <3>2, <3>3 DEF Children
    <3>q. QED
      BY <2>4, <3>2, <3>3, <3>4
  <2>q. QED
    BY <2>5, <2>6
<1>4. CASE Reap(x)
  <2>1. /\ state[x] = "zombie" /\ state'[x] = "gone" /\ moved' = moved
        /\ \A a \in PID : a # x => state'[a] = state[a]
        /\ \A a \in PID \cup {Host} : Children(a)' = Children(a) \ {x}
    BY <1>4, ReapFacts
  <2>2. p = Root /\ \E q \in Children(Root) : state[q] = "alive"
    BY <2>1 DEF Mourned
  <2>q. QED
    BY <2>1, <2>2, Pids
<1>q. QED
  BY <1>1, <1>2, <1>3, <1>4

\* A process that stands still after a step stood still before it, in the same
\* line, and has children as it had.
LEMMA StillStood ==
  ASSUME TypeOK, Tree, Mourned, Target, NEW p \in PID, Still(p)'
  PROVE  /\ Still(p) /\ Line(p)' = Line(p)
         /\ Children(p)' = {} => Children(p) = {}
         /\ Children(p) = {} => Children(p)' = {}
<1>1. PICK x \in PID : Fork(x) \/ Exit(x) \/ Reap(x)
  BY DEF Target
<1>2. /\ state'[p] = "alive" /\ p \notin moved' /\ Root \in Line(p)'
      /\ \A q \in Line(p)' : q = Root \/ q \notin moved'
  BY DEF Still
<1>3. TypeOK'
  BY TargetFrame
<1>4. /\ Line(p)' \in SUBSET PID /\ p \in Line(p)'
      /\ \A a \in Line(p)' : parent'[a] \in Line(p)'
      /\ \A D \in SUBSET PID :
           p \in D /\ (\A y \in D : parent'[y] \in D) => Line(p)' \subseteq D
  <2>1. \A a \in PID : parent'[a] \in PID
    BY <1>3 DEF TypeOK
  <2>q. QED
    BY <2>1, Zenon DEF Line
<1>5. /\ moved \subseteq moved' /\ state[p] = "alive"
      /\ \A a \in Line(p)' : parent'[a] = parent[a]
  <2>1. CASE Fork(x)
    <3>1. PICK q \in PID :
             /\ state[x] = "alive" /\ state[q] = "unused" /\ q # Root /\ q # x
             /\ state' = [state EXCEPT ![q] = "alive"] /\ parent' = [parent EXCEPT ![q] = x]
             /\ moved' = moved \cup {x, q}
      BY <2>1, ForkFacts
    <3>q. QED
      BY <1>2, <1>4, <3>1 DEF TypeOK
  <2>2. CASE Exit(x)
    <3>1. /\ x # Root /\ state[x] = "alive" /\ state'[x] \in {"zombie", "gone"}
          /\ \A a \in PID : a # x => state'[a] = state[a]
          /\ \A a \in PID : a \notin Children(x) => parent'[a] = parent[a]
          /\ moved' = moved \cup {x, parent[x]} \cup Children(x)
          /\ Root \notin Children(x)
      BY <2>2, ExitFacts
    <3>q. QED
      BY <1>2, <1>4, <3>1
  <2>3. CASE Reap(x)
    BY <1>2, <2>3, ReapFacts
  <2>q. QED
    BY <1>1, <2>1, <2>2, <2>3
<1>6. Line(p)' = Line(p)
  <2>1. Line(p) \subseteq Line(p)'
    BY <1>4, <1>5, LineFacts
  <2>2. Line(p)' \subseteq Line(p)
    BY <1>4, <1>5, <2>1, LineFacts
  <2>q. QED
    BY <2>1, <2>2
<1>7. Still(p)
  BY <1>2, <1>5, <1>6 DEF Still
<1>8. /\ Children(p)' = {} => Children(p) = {}
      /\ Children(p) = {} => Children(p)' = {}
  <2>1. CASE Fork(x)
    BY <1>2, <2>1, ForkFacts
  <2>2. CASE Exit(x)
    <3>1. /\ x # Root /\ state[x] = "alive"
          /\ \A a \in PID : a # x => state'[a] = state[a]
          /\ \A a \in PID : a \notin Children(x) => parent'[a] = parent[a]
          /\ moved' = moved \cup {x, parent[x]} \cup Children(x)
          /\ \A a \in PID \cup {Host} : a # Root => Children(a)' \subseteq Children(a)
          /\ Children(p) \subseteq Children(p)' \cup {x} \cup Children(x)
      BY <2>2, ExitFacts
    <3>2. p # x /\ parent[x] # p
      BY <1>2, <3>1
    <3>3. Children(p) \subseteq Children(p)'
      <4>1. x \notin Children(p) /\ \A a \in Children(p) : a \notin Children(x)
        BY <3>2 DEF Children
      <4>q. QED
        BY <3>1, <4>1
    <3>4. CASE p # Root
      BY <3>1, <3>3, <3>4
    <3>5. CASE p = Root
      BY <3>1, <3>3, <3>5, RootHasChild
    <3>q. QED
      BY <3>4, <3>5
  <2>3. CASE Reap(x)
    <3>1. state[x] = "zombie" /\ moved' = moved /\ Children(p)' = Children(p) \ {x}
      BY <2>3, ReapFacts
    <3>2. CASE x \in Children(p)
      <4>1. p = Root /\ \E q \in Children(Root) : state[q] = "alive"
        BY <1>2, <3>1, <3>2 DEF Mourned
      <4>q. QED
        BY <3>1, <4>1
    <3>q. QED
      BY <3>1, <3>2
  <2>q. QED
    BY <1>1, <2>1, <2>2, <2>3
<1>q. QED
  BY <1>6, <1>7, <1>8

\* What is below a PID to visit stays unmet: a new process joins it, one that
\* is handed to the root leaves it.
LEMMA TargetKeepsOnce ==
  ASSUME TypeOK, Tree, Once, Target
  PROVE  Once'
<1>1. PICK x \in PID : Fork(x) \/ Exit(x) \/ Reap(x)
  BY DEF Target
<1>2. todo' = todo /\ candidates' = candidates /\ Met' = Met
  BY TargetFrame DEF Met
<1>3. \A p \in Met : p = Host \/ (p \in PID /\ state[p] # "unused")
  <2>1. Met \subseteq PID \cup {Host}
    BY DEF Met, ToSet, TypeOK
  <2>q. QED
    BY <2>1 DEF Once
<1>4. \A p \in PID : state[p] # "unused" => state'[p] # "unused"
  <2>1. CASE Fork(x)
    BY <2>1 DEF Fork, TypeOK
  <2>2. CASE Exit(x)
    BY <2>2, ExitFacts
  <2>3. CASE Reap(x)
    BY <2>3, ReapFacts
  <2>q. QED
    BY <1>1, <2>1, <2>2, <2>3
<1>5. ASSUME NEW p \in ToSet(todo)
      PROVE  \E E \in SUBSET (PID \ {Root}) :
               /\ Children(p)' \subseteq E /\ \A q \in E : Children(q)' \subseteq E
               /\ E \cap Met = {}
  <2>1. PICK D \in SUBSET (PID \ {Root}) :
          /\ Children(p) \subseteq D /\ \A q \in D : Children(q) \subseteq D
          /\ D \cap Met = {}
    BY DEF Once
  <2>2. p \in Met /\ p \in PID \cup {Host}
    BY <1>3 DEF Met
  <2>3. CASE Fork(x)
    <3>1. PICK q \in PID :
            /\ state[q] = "unused" /\ q # Root
            /\ \A a \in PID \cup {Host} : Children(a)' \subseteq Children(a) \cup {q}
            /\ Children(q)' = {}
      BY <2>3, ForkFacts
    <3> DEFINE E == D \cup {q}
    <3>2. E \in SUBSET (PID \ {Root})
      BY <3>1
    <3>3. Children(p)' \subseteq E /\ \A a \in E : Children(a)' \subseteq E
      BY <2>1, <2>2, <3>1
    <3>4. E \cap Met = {}
      BY <1>3, <2>1, <3>1, Pids
    <3>q. QED
      BY <3>2, <3>3, <3>4
  <2>4. CASE Exit(x)
    <3>1. /\ \A a \in PID \cup {Host} : a # Root => Children(a)' \subseteq Children(a)
          /\ \A a \in PID : a \notin Children(x) => parent'[a] = parent[a]
          /\ Root \notin Children(x)
      BY <2>4, ExitFacts
    <3>2. CASE p = Root
      <4> DEFINE E == PID \ {Root}
      <4>1. Met = {Root}
        BY <3>2 DEF Once
      <4>2. parent'[Root] = Root
        BY <3>1, Pids DEF Tree
      <4>3. \A a \in PID : Children(a)' \subseteq E
        BY <4>2 DEF Children
      <4>4. /\ E \in SUBSET (PID \ {Root}) /\ Children(p)' \subseteq E
            /\ \A q \in E : Children(q)' \subseteq E
            /\ E \cap Met = {}
        BY <3>2, <4>1, <4>3, Pids
      <4> HIDE DEF E
      <4>q. QED
        BY <4>4
    <3>3. CASE p # Root
      BY <2>1, <2>2, <3>1, <3>3
    <3>q. QED
      BY <3>2, <3>3
  <2>5. CASE Reap(x)
    <3>1. \A a \in PID \cup {Host} : Children(a)' = Children(a) \ {x}
      BY <2>5, ReapFacts
    <3>q. QED
      BY <2>1, <2>2, <3>1
  <2>q. QED
    BY <1>1, <2>3, <2>4, <2>5
<1>6. \A p \in Met : p = Host \/ state'[p] # "unused"
  BY <1>3, <1>4
<1>q. QED
  BY <1>2, <1>5, <1>6 DEF Once

\* A step of the target leaves all as it should be, while the agent works.
LEMMA TargetPreservesIInv ==
  ASSUME IInv, pc \in {"walk", "filter"}, Target
  PROVE  IInv'
<1>1. TypeOK /\ Tree /\ Mourned /\ Once /\ Phases /\ Missed /\ Walked /\ Filtered
  BY DEF IInv
<1>2. TypeOK' /\ UNCHANGED <<named, pgrep, pc, todo, misread, candidates, checked>>
  BY <1>1, TargetFrame
<1>3. Tree' /\ Mourned' /\ Once'
  BY <1>1, TargetKeepsTree, TargetKeepsMourned, TargetKeepsOnce
<1>4. Phases'
  BY <1>1, <1>2 DEF Phases
<1>5. ASSUME NEW p \in PID, Still(p)'
      PROVE  /\ Still(p) /\ Line(p)' = Line(p)
             /\ TakenForLeaf(p)' => TakenForLeaf(p)
             /\ TakenForLeaf(p) => TakenForLeaf(p)'
  <2>1. /\ Still(p) /\ Line(p)' = Line(p)
        /\ Children(p)' = {} => Children(p) = {}
        /\ Children(p) = {} => Children(p)' = {}
    BY <1>1, <1>5, StillStood
  <2>q. QED
    BY <1>2, <2>1 DEF TakenForLeaf
<1>6. Missed'
  <2>1. Met' = Met
    BY <1>2 DEF Met
  <2>q. QED
    BY <1>1, <1>2, <1>5, <2>1 DEF Missed
<1>7. Walked'
  <2> SUFFICES ASSUME pc' = "walk", NEW p \in PID, Still(p)'
               PROVE  \/ Line(p)' \cap ToSet(todo)' # {}
                      \/ (p \in ToSet(candidates)') <=> TakenForLeaf(p)'
    BY DEF Walked
  <2>1. \/ Line(p) \cap ToSet(todo) # {}
        \/ (p \in ToSet(candidates)) <=> TakenForLeaf(p)
    BY <1>1, <1>2, <1>5 DEF Walked
  <2>q. QED
    BY <1>2, <1>5, <2>1
<1>8. Filtered'
  <2> SUFFICES ASSUME pc' = "filter", NEW p \in PID, Still(p)'
               PROVE  /\ p \in ToSet(candidates)' => TakenForLeaf(p)'
                      /\ TakenForLeaf(p)' /\ p \in named' => p \in ToSet(candidates)'
                      /\ \A i \in 1..checked' : candidates'[i] = p => p \in named'
    BY DEF Filtered
  <2>q. QED
    BY <1>1, <1>2, <1>5 DEF Filtered
<1>9. CandidatesAreLeaves'
  BY <1>2 DEF CandidatesAreLeaves
<1>q. QED
  BY <1>2, <1>3, <1>4, <1>6, <1>7, <1>8, <1>9 DEF IInv

-----------------------------------------------------------------------------
(* The agent's steps.                                                      *)

\* What does not touch the tree keeps what is said of it.
LEMMA TreeStands ==
  ASSUME UNCHANGED treeVars
  PROVE  /\ Tree => Tree'
         /\ Mourned => Mourned'
         /\ \A p : /\ Line(p)' = Line(p) /\ Children(p)' = Children(p)
                   /\ Still(p)' => Still(p)
                   /\ misread' = misread => (TakenForLeaf(p)' <=> TakenForLeaf(p))
<1>1. state' = state /\ parent' = parent /\ moved' = moved
  BY DEF treeVars
<1>2. \A p : Line(p)' = Line(p) /\ Children(p)' = Children(p)
  BY <1>1, Zenon DEF Line, Children
<1>3. \A p : Still(p)' => Still(p)
  BY <1>1, <1>2 DEF Still
<1>4. Tree => Tree'
  BY <1>1 DEF Tree, Lives
<1>5. Mourned => Mourned'
  BY <1>1, <1>2 DEF Mourned
<1>6. \A p : misread' = misread => (TakenForLeaf(p)' <=> TakenForLeaf(p))
  BY <1>2 DEF TakenForLeaf
<1>q. QED
  BY <1>2, <1>3, <1>4, <1>5, <1>6

\* The walk starts at the root, with nothing met.
LEMMA StartPreservesIInv ==
  ASSUME IInv, RootFails \/ RootFound \/ StoppedIsZero
  PROVE  IInv'
<1>1. TypeOK /\ Tree /\ Mourned /\ Once /\ Phases /\ Missed
  BY DEF IInv
<1>2. /\ pc = "pid" /\ UNCHANGED treeVars /\ UNCHANGED <<named, pgrep, misread, candidates, checked>>
      /\ \/ pc' = "error" /\ todo' = todo
         \/ pc' = "walk" /\ todo' = <<Root>>
         \/ pc' = "walk" /\ todo' = <<Host>> /\ state[Root] = "gone"
  BY DEF RootFails, RootFound, StoppedIsZero
<1>3. candidates = <<>> /\ todo = <<>> /\ checked = 0
  BY <1>1, <1>2 DEF Phases
<1>4. TypeOK'
  <2>1. todo' \in Seq(PID \cup {Host})
    <3>1. \A e \in PID \cup {Host} : <<e>> \in Seq(PID \cup {Host})
      OBVIOUS
    <3>2. Root \in PID \cup {Host} /\ Host \in PID \cup {Host}
      BY Pids
    <3>3. <<Root>> \in Seq(PID \cup {Host}) /\ <<Host>> \in Seq(PID \cup {Host})
      BY <3>1, <3>2, Zenon
    <3>4. todo \in Seq(PID \cup {Host})
      BY <1>1 DEF TypeOK
    <3>q. QED
      BY <1>2, <3>3, <3>4
  <2>2. pc' \in {"pid", "walk", "filter", "returned", "error"}
    BY <1>2
  <2>q. QED
    BY <1>1, <1>2, <2>1, <2>2 DEF TypeOK, treeVars
<1>5. Tree' /\ Mourned' /\ \A p : /\ Line(p)' = Line(p) /\ Children(p)' = Children(p)
                                  /\ Still(p)' => Still(p)
  BY <1>1, <1>2, TreeStands
<1>6. Phases'
  BY <1>1, <1>2, <1>3 DEF Phases
<1>7. \A e : ToSet(<<e>>) = {e} /\ IsInjective(<<e>>)
  BY DEF ToSet, IsInjective
<1>8. ToSet(<<>>) = {} /\ IsInjective(<<>>)
  BY DEF ToSet, IsInjective
<1>9. Once'
  <2>0. state' = state
    BY <1>2 DEF treeVars
  <2>1. CASE todo' = todo
    BY <1>2, <1>3, <1>8, <2>1 DEF Once, Met
  <2>2. CASE todo' = <<Root>>
    <3>1. ToSet(todo)' = {Root} /\ ToSet(candidates)' = {} /\ Met' = {Root}
      BY <1>2, <1>3, <1>7, <1>8, <2>2 DEF Met
    <3>2. IsInjective(todo)' /\ IsInjective(candidates)'
      BY <1>2, <1>3, <1>7, <1>8, <2>2
    <3>3. \A q \in PID : Children(q) \subseteq PID \ {Root}
      BY <1>1 DEF Children, Tree
    <3>4. \A p \in {Root} : \E D \in SUBSET (PID \ {Root}) :
            /\ Children(p) \subseteq D /\ \A q \in D : Children(q) \subseteq D
            /\ D \cap {Root} = {}
      <4>1. /\ Children(Root) \subseteq PID \ {Root}
            /\ \A q \in PID \ {Root} : Children(q) \subseteq PID \ {Root}
        BY <3>3, Pids
      <4> DEFINE E == PID \ {Root}
      <4>2. /\ E \in SUBSET (PID \ {Root}) /\ Children(Root) \subseteq E
            /\ \A q \in E : Children(q) \subseteq E
            /\ E \cap {Root} = {}
        BY <4>1
      <4> HIDE DEF E
      <4>q. QED
        BY <4>2
    <3>5. state[Root] # "unused"
      BY <1>1 DEF Tree
    <3>q. QED
      BY <1>5, <2>0, <3>1, <3>2, <3>4, <3>5 DEF Once
  <2>3. CASE todo' = <<Host>>
    <3>1. ToSet(todo)' = {Host} /\ ToSet(candidates)' = {} /\ Met' = {Host}
      BY <1>2, <1>3, <1>7, <1>8, <2>3 DEF Met
    <3>2. IsInjective(todo)' /\ IsInjective(candidates)'
      BY <1>2, <1>3, <1>7, <1>8, <2>3
    <3>3. Children(Host) = {}
      BY <1>1, Pids DEF Children, TypeOK
    <3>4. Root # Host
      BY DEF Root, Host
    <3>5. \A p \in {Host} : \E D \in SUBSET (PID \ {Root}) :
            /\ Children(p) \subseteq D /\ \A q \in D : Children(q) \subseteq D
            /\ D \cap {Host} = {}
      BY <3>3
    <3>q. QED
      BY <1>5, <3>1, <3>2, <3>4, <3>5 DEF Once
  <2>q. QED
    BY <1>2, <2>1, <2>2, <2>3
<1>10. Walked'
  <2> SUFFICES ASSUME pc' = "walk", NEW p \in PID, Still(p)
               PROVE  Line(p) \cap ToSet(todo)' # {}
    BY <1>5 DEF Walked
  <2>1. Lives(p) /\ Root \in Line(p) /\ Lives(Root)
    BY <1>1, LineLives DEF Still, Lives
  <2>2. todo' = <<Root>>
    BY <1>2, <2>1 DEF Lives
  <2>q. QED
    BY <1>7, <2>1, <2>2
<1>11. Missed'
  <2>1. misread' = {}
    BY <1>1, <1>2 DEF Missed
  <2>q. QED
    BY <2>1 DEF Missed
<1>12. Filtered' /\ CandidatesAreLeaves'
  BY <1>2 DEF Filtered, CandidatesAreLeaves
<1>q. QED
  BY <1>4, <1>5, <1>6, <1>9, <1>10, <1>11, <1>12 DEF IInv

\* One pgrep: the process is a candidate, or its children are to visit.
LEMMA VisitFacts ==
  ASSUME TypeOK, Once, Visit
  PROVE  LET h == Head(todo)
         IN  /\ pc = "walk" /\ UNCHANGED <<treeVars, named, pgrep, pc, misread, checked>>
             /\ h \in ToSet(todo) /\ h \in PID \cup {Host} /\ h \notin ToSet(candidates)
             /\ todo' \in Seq(PID \cup {Host}) /\ candidates' \in Seq(PID \cup {Host})
             /\ IsInjective(todo') /\ IsInjective(candidates') /\ Len(candidates) <= Len(candidates')
             /\ ToSet(todo') = (ToSet(todo) \ {h}) \cup Children(h)
             /\ Children(h) \cap Met = {}
             /\ Children(h) = {} => ToSet(candidates') = ToSet(candidates) \cup {h}
             /\ Children(h) # {} => candidates' = candidates
<1> DEFINE h == Head(todo)
<1>0. /\ pc = "walk" /\ todo # <<>> /\ UNCHANGED <<treeVars, named, pgrep, pc, misread, checked>>
      /\ todo \in Seq(PID \cup {Host}) /\ candidates \in Seq(PID \cup {Host})
      /\ IsInjective(todo) /\ IsInjective(candidates) /\ ToSet(todo) \cap ToSet(candidates) = {}
  BY DEF Visit, TypeOK, Once
<1>1. /\ h \in ToSet(todo) /\ h \in PID \cup {Host} /\ Tail(todo) \in Seq(PID \cup {Host})
      /\ IsInjective(Tail(todo)) /\ ToSet(Tail(todo)) = ToSet(todo) \ {h}
  BY <1>0, TailFacts
<1>2. Children(h) \in SUBSET PID
  BY <1>1, Pids
<1>3. Children(h) \cap Met = {}
  BY <1>1 DEF Once
<1>4. PICK kids \in Listed(Children(h)) :
        IF kids = <<>>
          THEN candidates' = Append(candidates, h) /\ todo' = Tail(todo)
          ELSE todo' = kids \o Tail(todo) /\ candidates' = candidates
  BY DEF Visit
<1>5. /\ kids \in Seq(Children(h)) /\ IsInjective(kids) /\ ToSet(kids) = Children(h)
      /\ kids = <<>> => Children(h) = {}
      /\ Children(h) = {} => kids = <<>>
  BY <1>2, ListedFacts
<1> HIDE DEF h
<1>6. CASE Children(h) = {}
  <2>1. candidates' = Append(candidates, h) /\ todo' = Tail(todo)
    BY <1>4, <1>5, <1>6
  <2>2. h \notin ToSet(candidates)
    BY <1>0, <1>1
  <2>3. /\ candidates' \in Seq(PID \cup {Host}) /\ IsInjective(candidates')
        /\ ToSet(candidates') = ToSet(candidates) \cup {h}
        /\ Len(candidates') = Len(candidates) + 1
    BY <1>0, <1>1, <2>1, <2>2, AppendFacts
  <2>4. Len(candidates) <= Len(candidates')
    BY <1>0, <2>3
  <2>q. QED
    BY <1>0, <1>1, <1>3, <1>6, <2>1, <2>2, <2>3, <2>4 DEF h
<1>7. CASE Children(h) # {}
  <2>1. todo' = kids \o Tail(todo) /\ candidates' = candidates
    BY <1>4, <1>5, <1>7
  <2>2. ToSet(kids) \cap ToSet(Tail(todo)) = {}
    BY <1>1, <1>3, <1>5 DEF Met
  <2>3. kids \in Seq(PID \cup {Host})
    BY <1>2, <1>5, SeqMonotonic
  <2>4. /\ todo' \in Seq(PID \cup {Host}) /\ IsInjective(todo')
        /\ ToSet(todo') = ToSet(kids) \cup ToSet(Tail(todo))
    <3> DEFINE tl == Tail(todo)
    <3>1. tl \in Seq(PID \cup {Host}) /\ IsInjective(tl) /\ ToSet(kids) \cap ToSet(tl) = {}
      BY <1>1, <2>2
    <3>2. IsInjective(kids)
      BY <1>5
    <3> HIDE DEF tl
    <3>3. /\ kids \o tl \in Seq(PID \cup {Host}) /\ IsInjective(kids \o tl)
          /\ ToSet(kids \o tl) = ToSet(kids) \cup ToSet(tl)
      BY <2>3, <3>1, <3>2, ConcatFacts
    <3>q. QED
      BY <2>1, <3>3 DEF tl
  <2>5. ToSet(todo') = (ToSet(todo) \ {h}) \cup Children(h)
    BY <1>1, <1>5, <2>4
  <2>6. Len(candidates) <= Len(candidates')
    BY <1>0, <2>1
  <2>q. QED
    BY <1>0, <1>1, <1>3, <1>7, <2>1, <2>4, <2>5, <2>6 DEF h
<1>q. QED
  BY <1>6, <1>7

\* The children that come to be visited are taken out of what is unmet below
\* each of the others; none of those is their parent.
LEMMA VisitKeepsOnce ==
  ASSUME TypeOK, Tree, Once, Visit
  PROVE  Once'
<1> DEFINE h == Head(todo)
           C == Children(h)
<1>1. /\ UNCHANGED treeVars
      /\ h \in ToSet(todo) /\ h \in PID \cup {Host} /\ h \notin ToSet(candidates)
      /\ IsInjective(todo') /\ IsInjective(candidates')
      /\ ToSet(todo') = (ToSet(todo) \ {h}) \cup C
      /\ C \cap Met = {}
      /\ C = {} => ToSet(candidates') = ToSet(candidates) \cup {h}
      /\ C # {} => candidates' = candidates
  BY VisitFacts
<1>2. \A p : Children(p)' = Children(p)
  BY <1>1, TreeStands
<1>3. state' = state
  BY <1>1 DEF treeVars
<1>4. \A z : z # h => Children(z) \cap C = {}
  BY DEF Children
<1>5. PICK Dh \in SUBSET (PID \ {Root}) :
        /\ C \subseteq Dh /\ \A q \in Dh : Children(q) \subseteq Dh
        /\ Dh \cap Met = {}
  BY <1>1 DEF Once
<1>6. h \in Met /\ ToSet(todo) \subseteq Met /\ ToSet(candidates) \subseteq Met
  BY <1>1 DEF Met
<1>7. \A p \in C : p \in PID /\ state[p] # "unused" /\ p # h
  BY DEF Children
<1>8. ToSet(todo) \cap ToSet(candidates) = {} /\ \A p \in Met : p = Host \/ state[p] # "unused"
  BY DEF Once
<1> HIDE DEF h, C
<1>9. Met' = ToSet(todo') \cup ToSet(candidates')
  BY DEF Met
<1>10. Met' \subseteq Met \cup C /\ Met = ToSet(todo) \cup ToSet(candidates)
  BY <1>1, <1>6, <1>9 DEF Met
<1>11. ToSet(todo') \cap ToSet(candidates') = {}
  <2>1. CASE C = {}
    BY <1>1, <1>8, <2>1
  <2>2. CASE C # {}
    BY <1>1, <1>6, <1>8, <2>2
  <2>q. QED
    BY <2>1, <2>2
<1>12. \A p \in Met' : p = Host \/ state'[p] # "unused"
  BY <1>3, <1>7, <1>8, <1>10
<1>13. Root \in ToSet(todo') => Met' = {Root}
  <2> SUFFICES ASSUME Root \in ToSet(todo') PROVE FALSE
    OBVIOUS
  <2>1. Root \notin C
    BY <1>5
  <2>2. Root \in ToSet(todo) /\ Root # h
    BY <1>1, <2>1
  <2>3. Met = {Root}
    BY <2>2 DEF Once
  <2>q. QED
    BY <1>6, <2>2, <2>3
<1>14. ASSUME NEW p \in ToSet(todo')
       PROVE  \E D \in SUBSET (PID \ {Root}) :
                /\ Children(p) \subseteq D /\ \A q \in D : Children(q) \subseteq D
                /\ D \cap Met' = {}
  <2>1. PICK D \in SUBSET (PID \ {Root}) :
          /\ Children(p) \subseteq D /\ \A q \in D : Children(q) \subseteq D
          /\ D \cap Met = {}
    <3>1. CASE p \in C
      BY <1>5, <3>1
    <3>2. CASE p \in ToSet(todo)
      BY <3>2 DEF Once
    <3>q. QED
      BY <1>1, <1>14, <3>1, <3>2
  <2>2. p # h
    BY <1>1, <1>7
  <2> DEFINE E == D \ C
  <2>3. /\ E \in SUBSET (PID \ {Root}) /\ Children(p) \subseteq E
        /\ E \cap Met' = {}
    BY <1>4, <1>10, <2>1, <2>2
  <2>4. \A q \in E : Children(q) \subseteq E
    BY <1>4, <1>6, <2>1
  <2> HIDE DEF E
  <2>q. QED
    BY <2>3, <2>4
<1>q. QED
  BY <1>1, <1>2, <1>11, <1>12, <1>13, <1>14 DEF Once

\* Below a process whose pgrep failed nothing comes to be visited.
LEMMA VisitKeepsMissed ==
  ASSUME TypeOK, Tree, Once, Missed, Visit
  PROVE  Missed'
<1> DEFINE h == Head(todo)
           C == Children(h)
<1>1. /\ pc = "walk" /\ pc' = pc /\ misread' = misread /\ UNCHANGED treeVars
      /\ h \in ToSet(todo) /\ h \in PID \cup {Host} /\ h \notin ToSet(candidates)
      /\ ToSet(todo') = (ToSet(todo) \ {h}) \cup C
      /\ C = {} => ToSet(candidates') = ToSet(candidates) \cup {h}
      /\ C # {} => candidates' = candidates
  BY VisitFacts
<1>2. \A p : Line(p)' = Line(p) /\ (Still(p)' => Still(p))
  BY <1>1, TreeStands
<1>3. misread \subseteq ToSet(candidates) /\ h \notin misread
  BY <1>1 DEF Missed
<1>4. \A p \in C : p \in PID /\ parent[p] = h /\ p # h
  BY DEF Children
<1> HIDE DEF h, C
<1>5. Met' \subseteq Met \cup C /\ ToSet(candidates) \subseteq ToSet(candidates') /\ h \in Met
  <2>1. Met' = ToSet(todo') \cup ToSet(candidates') /\ Met = ToSet(todo) \cup ToSet(candidates)
    BY DEF Met
  <2>q. QED
    BY <1>1, <2>1
<1>6. ASSUME NEW p \in PID, Still(p), ~(Line(p) \cap misread \subseteq {p}), p \in C
      PROVE  FALSE
  <2>1. PICK a \in Line(p) \cap misread : a # p
    BY <1>6
  <2>2. h \in Line(p) /\ h \in PID /\ Line(p) \subseteq PID
    BY <1>4, <1>6, LineFacts
  <2>3. Lives(p) /\ \A q \in Line(p) : q = Root \/ q \notin moved
    BY <1>6 DEF Still, Lives
  <2>4. Line(h) \subseteq Line(p) /\ h \in Line(h)
    <3>1. \A x \in Line(p) : parent[x] \in Line(p)
      BY LineFacts
    <3>q. QED
      BY <2>2, <3>1, LineFacts
  <2>5. Line(p) \subseteq Line(h) \cup {p}
    <3> DEFINE D == Line(h) \cup {p}
    <3>1. D \in SUBSET PID /\ p \in D /\ \A x \in D : parent[x] \in D
      BY <1>4, <1>6, <2>2, <2>4, LineFacts
    <3> HIDE DEF D
    <3>2. Line(p) \subseteq D
      BY <3>1, LineFacts
    <3>q. QED
      BY <3>2 DEF D
  <2>6. a \in Line(h) /\ a # h
    BY <1>3, <2>1, <2>5
  <2>7. h # Root
    <3>1. SUFFICES ASSUME h = Root PROVE FALSE
      OBVIOUS
    <3>2. parent[Root] = Root /\ Root \in PID
      BY Pids DEF Tree
    <3>3. {Root} \in SUBSET PID /\ \A x \in {Root} : parent[x] \in {Root}
      BY <3>2
    <3>4. Line(Root) \subseteq {Root}
      BY <3>2, <3>3, LineFacts
    <3>q. QED
      BY <2>6, <3>1, <3>4
  <2>8. state[h] = "alive"
    <3>1. p # Root
      BY <1>4, <1>6 DEF Tree
    <3>q. QED
      BY <1>4, <1>6, <2>3, <3>1 DEF Tree
  <2>9. Root \in Line(h)
    BY <2>2, <2>8, LineLives DEF Lives
  <2>10. Still(h)
    BY <2>2, <2>3, <2>4, <2>7, <2>8, <2>9 DEF Still
  <2>11. h \notin Met
    BY <2>1, <2>2, <2>6, <2>10 DEF Missed
  <2>q. QED
    BY <1>5, <2>11
<1>7. ASSUME NEW p \in PID, Still(p), ~(Line(p) \cap misread \subseteq {p})
      PROVE  p \notin Met'
  <2>1. p \notin Met
    BY <1>7 DEF Missed
  <2>q. QED
    BY <1>5, <1>6, <1>7, <2>1
<1>q. QED
  BY <1>1, <1>2, <1>3, <1>5, <1>7 DEF Missed

\* The walk comes down the line of a process that stands still to the process.
LEMMA VisitKeepsWalked ==
  ASSUME TypeOK, Tree, Once, Missed, Walked, Visit
  PROVE  Walked'
<1> DEFINE h == Head(todo)
           C == Children(h)
<1>1. /\ pc = "walk" /\ UNCHANGED treeVars /\ misread' = misread
      /\ h \in ToSet(todo) /\ h \notin ToSet(candidates)
      /\ ToSet(todo') = (ToSet(todo) \ {h}) \cup C
      /\ C = {} => ToSet(candidates') = ToSet(candidates) \cup {h}
      /\ C # {} => candidates' = candidates
  BY VisitFacts
<1>2. \A p : /\ Line(p)' = Line(p) /\ (Still(p)' => Still(p))
             /\ TakenForLeaf(p)' <=> TakenForLeaf(p)
  BY <1>1, TreeStands
<1> SUFFICES ASSUME NEW p \in PID, Still(p)
             PROVE  \/ Line(p) \cap ToSet(todo') # {}
                    \/ (p \in ToSet(candidates')) <=> TakenForLeaf(p)'
  BY <1>2 DEF Walked
<1>3. \/ Line(p) \cap ToSet(todo) # {}
      \/ (p \in ToSet(candidates)) <=> TakenForLeaf(p)
  BY <1>1 DEF Walked
<1>4. CASE h = p
  <2>1. p \in Met /\ p \notin misread
    BY <1>1, <1>4 DEF Met, Missed
  <2>2. Line(p) \cap misread \subseteq {p}
    BY <2>1 DEF Missed
  <2>3. TakenForLeaf(p) <=> (C = {})
    BY <1>4, <2>1, <2>2 DEF TakenForLeaf
  <2>q. QED
    BY <1>1, <1>2, <1>4, <2>3
<1>5. CASE h # p /\ h \in Line(p)
  <2>1. PICK b \in Line(p) : b # h /\ parent[b] = h
    BY <1>5, LineChild
  <2>2. Lives(p)
    BY DEF Still, Lives
  <2>3. Lives(b) /\ b \in PID
    BY <2>1, <2>2, LineLives, LineFacts
  <2>4. b \in C
    BY <2>1, <2>3 DEF Children, Lives
  <2>q. QED
    BY <1>1, <2>1, <2>4
<1>6. CASE h # p /\ h \notin Line(p)
  <2>1. CASE Line(p) \cap ToSet(todo) # {}
    BY <1>1, <1>6, <2>1
  <2>2. CASE (p \in ToSet(candidates)) <=> TakenForLeaf(p)
    BY <1>1, <1>2, <1>6, <2>2
  <2>q. QED
    BY <1>3, <2>1, <2>2
<1>q. QED
  BY <1>4, <1>5, <1>6

\* The walk.
LEMMA VisitPreservesIInv ==
  ASSUME IInv, Visit
  PROVE  IInv'
<1>1. TypeOK /\ Tree /\ Mourned /\ Once /\ Phases /\ Missed /\ Walked
  BY DEF IInv
<1>2. /\ pc = "walk" /\ UNCHANGED <<treeVars, named, pgrep, pc, misread, checked>>
      /\ todo' \in Seq(PID \cup {Host}) /\ candidates' \in Seq(PID \cup {Host})
      /\ Len(candidates) <= Len(candidates')
  BY <1>1, VisitFacts
<1>3. TypeOK'
  <2>1. checked' \in 0..Len(candidates')
    BY <1>1, <1>2 DEF TypeOK
  <2>q. QED
    BY <1>1, <1>2, <2>1 DEF TypeOK, treeVars
<1>4. Tree' /\ Mourned'
  BY <1>1, <1>2, TreeStands
<1>5. Once' /\ Missed' /\ Walked'
  BY <1>1, VisitKeepsOnce, VisitKeepsMissed, VisitKeepsWalked
<1>6. Phases' /\ Filtered' /\ CandidatesAreLeaves'
  BY <1>1, <1>2 DEF Phases, Filtered, CandidatesAreLeaves
<1>q. QED
  BY <1>3, <1>4, <1>5, <1>6 DEF IInv

\* What is unmet below a PID to visit holds every process whose line goes
\* through that PID.
LEMMA BelowIsUnmet ==
  ASSUME TypeOK, Tree, NEW p \in PID, Lives(p), NEW h \in Line(p), h # p,
         NEW D \in SUBSET PID, Children(h) \subseteq D,
         \A q \in D : Children(q) \subseteq D
  PROVE  p \in D
<1> SUFFICES ASSUME p \notin D PROVE FALSE
  OBVIOUS
<1> DEFINE E == (Line(p) \ D) \ {h}
<1>1. /\ Line(p) \subseteq PID /\ p \in Line(p) /\ \A a \in Line(p) : parent[a] \in Line(p)
      /\ \A a \in Line(p) : Lives(a)
  BY LineFacts, LineLives
<1>2. E \in SUBSET PID /\ p \in E
  BY <1>1
<1>3. ASSUME NEW x \in E PROVE parent[x] \in E
  <2>1. x \in PID /\ Lives(x) /\ parent[x] \in Line(p)
    BY <1>1
  <2>2. parent[x] # x => x \in Children(parent[x])
    BY <2>1 DEF Children, Lives
  <2>q. QED
    BY <2>1, <2>2
<1>4. Line(p) \subseteq E
  <2> HIDE DEF E
  <2>q. QED
    BY <1>2, <1>3, LineFacts
<1>q. QED
  BY <1>4

\* A pgrep that fails: the process is a candidate and what is below it is lost.
LEMMA VisitFailsPreservesIInv ==
  ASSUME IInv, VisitFails
  PROVE  IInv'
<1> DEFINE h == Head(todo)
<1>1. TypeOK /\ Tree /\ Mourned /\ Once /\ Phases /\ Missed /\ Walked
  BY DEF IInv
<1>2. /\ pc = "walk" /\ todo # <<>> /\ UNCHANGED treeVars
      /\ UNCHANGED <<named, pgrep, pc, checked>>
      /\ candidates' = Append(candidates, h) /\ todo' = Tail(todo)
      /\ misread' = misread \cup {h}
  BY DEF VisitFails
<1>3. /\ todo \in Seq(PID \cup {Host}) /\ candidates \in Seq(PID \cup {Host})
      /\ IsInjective(todo) /\ IsInjective(candidates) /\ ToSet(todo) \cap ToSet(candidates) = {}
  BY <1>1 DEF TypeOK, Once
<1>4. /\ h \in ToSet(todo) /\ h \in PID \cup {Host} /\ todo' \in Seq(PID \cup {Host})
      /\ IsInjective(todo') /\ ToSet(todo') = ToSet(todo) \ {h}
  BY <1>2, <1>3, TailFacts
<1> HIDE DEF h
<1>5. /\ candidates' \in Seq(PID \cup {Host}) /\ IsInjective(candidates')
      /\ ToSet(candidates') = ToSet(candidates) \cup {h}
      /\ Len(candidates') = Len(candidates) + 1
  BY <1>2, <1>3, <1>4, AppendFacts
<1>6. TypeOK'
  <2>1. checked' \in 0..Len(candidates') /\ misread' \subseteq PID \cup {Host}
    BY <1>1, <1>2, <1>4, <1>5 DEF TypeOK
  <2>q. QED
    BY <1>1, <1>2, <1>4, <1>5, <2>1 DEF TypeOK, treeVars
<1>7. Tree' /\ Mourned' /\ \A p : /\ Line(p)' = Line(p) /\ Children(p)' = Children(p)
                                  /\ Still(p)' => Still(p)
  BY <1>1, <1>2, TreeStands
<1>8. Met' = Met /\ h \in Met /\ h \notin ToSet(candidates)
  BY <1>3, <1>4, <1>5 DEF Met
<1>9. Once'
  <2>1. state' = state
    BY <1>2 DEF treeVars
  <2>2. ToSet(todo') \cap ToSet(candidates') = {}
    BY <1>3, <1>4, <1>5
  <2>3. Root \in ToSet(todo') => Met' = {Root}
    BY <1>1, <1>4, <1>8 DEF Once
  <2>4. \A p \in Met' : p = Host \/ state'[p] # "unused"
    BY <1>1, <1>8, <2>1 DEF Once
  <2>5. \A p \in ToSet(todo') : \E D \in SUBSET (PID \ {Root}) :
          /\ Children(p)' \subseteq D /\ \A q \in D : Children(q)' \subseteq D
          /\ D \cap Met' = {}
    BY <1>1, <1>4, <1>7, <1>8 DEF Once
  <2>q. QED
    BY <1>4, <1>5, <2>2, <2>3, <2>4, <2>5 DEF Once
<1>10. ASSUME NEW p \in PID, Still(p), h \in Line(p), h # p
       PROVE  p \notin Met
  <2>1. PICK D \in SUBSET (PID \ {Root}) :
          /\ Children(h) \subseteq D /\ \A q \in D : Children(q) \subseteq D
          /\ D \cap Met = {}
    BY <1>1, <1>4 DEF Once
  <2>2. Lives(p) /\ D \in SUBSET PID
    BY <1>10, <2>1 DEF Still, Lives
  <2>3. p \in D
    BY <1>1, <1>10, <2>1, <2>2, BelowIsUnmet
  <2>q. QED
    BY <2>1, <2>3
<1>11. Missed'
  <2>1. misread' \subseteq ToSet(candidates')
    BY <1>1, <1>2, <1>5 DEF Missed
  <2>2. ASSUME NEW p \in PID, Still(p), ~(Line(p) \cap misread' \subseteq {p})
        PROVE  p \notin Met
    <3>1. \/ ~(Line(p) \cap misread \subseteq {p})
          \/ h \in Line(p) /\ h # p
      BY <1>2, <2>2
    <3>q. QED
      BY <1>1, <1>10, <2>2, <3>1 DEF Missed
  <2>q. QED
    BY <1>2, <1>7, <1>8, <2>1, <2>2 DEF Missed
<1>12. Walked'
  <2> SUFFICES ASSUME NEW p \in PID, Still(p)
               PROVE  \/ Line(p) \cap ToSet(todo') # {}
                      \/ (p \in ToSet(candidates')) <=> TakenForLeaf(p)'
    BY <1>7 DEF Walked
  <2>1. TakenForLeaf(p)' <=> /\ Children(p) = {} \/ p \in misread'
                             /\ Line(p) \cap misread' \subseteq {p}
    BY <1>7 DEF TakenForLeaf
  <2>2. CASE h = p
    <3>1. Line(p) \cap misread \subseteq {p}
      BY <1>1, <1>8, <2>2 DEF Missed
    <3>q. QED
      BY <1>2, <1>5, <2>1, <2>2, <3>1
  <2>3. CASE h # p /\ h \in Line(p)
    <3>1. p \notin ToSet(candidates')
      BY <1>5, <1>10, <2>3 DEF Met
    <3>q. QED
      BY <1>2, <2>1, <2>3, <3>1
  <2>4. CASE h # p /\ h \notin Line(p)
    <3>1. TakenForLeaf(p)' <=> TakenForLeaf(p)
      BY <1>2, <2>1, <2>4 DEF TakenForLeaf
    <3>2. \/ Line(p) \cap ToSet(todo) # {}
          \/ (p \in ToSet(candidates)) <=> TakenForLeaf(p)
      BY <1>1, <1>2 DEF Walked
    <3>3. CASE Line(p) \cap ToSet(todo) # {}
      BY <1>4, <2>4, <3>3
    <3>4. CASE (p \in ToSet(candidates)) <=> TakenForLeaf(p)
      BY <1>5, <2>4, <3>1, <3>4
    <3>q. QED
      BY <3>2, <3>3, <3>4
  <2>q. QED
    BY <2>2, <2>3, <2>4
<1>13. Phases' /\ Filtered' /\ CandidatesAreLeaves'
  BY <1>1, <1>2 DEF Phases, Filtered, CandidatesAreLeaves
<1>q. QED
  BY <1>6, <1>7, <1>9, <1>11, <1>12, <1>13 DEF IInv

\* A step that only goes to another phase.
LEMMA PhasePreservesIInv ==
  ASSUME IInv, WalkEnds \/ FilterFails \/ FilterEnds
  PROVE  IInv'
<1>1. TypeOK /\ Tree /\ Mourned /\ Once /\ Phases /\ Missed /\ Walked /\ Filtered
  BY DEF IInv
<1>2. /\ UNCHANGED treeVars /\ UNCHANGED <<named, pgrep, todo, misread, candidates, checked>>
      /\ \/ /\ pc = "walk" /\ todo = <<>>
            /\ \/ pc' = "error"
               \/ pgrep /\ pc' = "filter"
               \/ ~pgrep /\ pc' = "returned"
         \/ pc = "filter" /\ pc' = "error"
         \/ pc = "filter" /\ checked = Len(candidates) /\ pc' = "returned"
  BY <1>1 DEF WalkEnds, FilterFails, FilterEnds, TypeOK
<1>3. TypeOK'
  BY <1>1, <1>2 DEF TypeOK, treeVars
<1>4. Tree' /\ Mourned' /\ \A p : /\ Line(p)' = Line(p) /\ Children(p)' = Children(p)
                                  /\ Still(p)' => Still(p)
                                  /\ TakenForLeaf(p)' <=> TakenForLeaf(p)
  BY <1>1, <1>2, TreeStands
<1>5. Once'
  <2>1. state' = state
    BY <1>2 DEF treeVars
  <2>q. QED
    BY <1>1, <1>2, <1>4, <2>1 DEF Once, Met
<1>6. Phases'
  BY <1>1, <1>2 DEF Phases
<1>7. Walked'
  BY <1>2 DEF Walked
<1>8. ASSUME pc = "walk", todo = <<>>, NEW p \in PID, Still(p)
      PROVE  /\ p \in ToSet(candidates) => TakenForLeaf(p)
             /\ TakenForLeaf(p) => p \in ToSet(candidates)
  <2>1. ToSet(todo) = {}
    BY <1>8 DEF ToSet
  <2>q. QED
    BY <1>1, <1>8, <2>1 DEF Walked
<1>9. Filtered'
  <2> SUFFICES ASSUME pc' = "filter", NEW p \in PID, Still(p)
               PROVE  /\ p \in ToSet(candidates) => TakenForLeaf(p)
                      /\ TakenForLeaf(p) /\ p \in named => p \in ToSet(candidates)
                      /\ \A i \in 1..checked : candidates[i] = p => p \in named
    BY <1>2, <1>4 DEF Filtered
  <2>1. pc = "walk" /\ todo = <<>> /\ checked = 0
    BY <1>1, <1>2 DEF Phases
  <2>q. QED
    BY <1>8, <2>1
<1>10. CandidatesAreLeaves'
  <2> SUFFICES ASSUME pc' = "returned", NEW p \in PID, Still(p)
               PROVE  (p \in ToSet(candidates)) <=> (TakenForLeaf(p) /\ (pgrep => p \in named))
    BY <1>2, <1>4 DEF CandidatesAreLeaves
  <2>1. CASE pc = "walk"
    BY <1>2, <1>8, <2>1
  <2>2. CASE pc = "filter"
    <3>1. checked = Len(candidates) /\ DOMAIN candidates = 1..checked
      BY <1>1, <1>2, <2>2 DEF TypeOK
    <3>2. pgrep
      BY <1>1, <2>2 DEF Phases
    <3>3. p \in ToSet(candidates) => p \in named
      BY <1>1, <2>2, <3>1 DEF Filtered, ToSet
    <3>4. /\ p \in ToSet(candidates) => TakenForLeaf(p)
          /\ TakenForLeaf(p) /\ p \in named => p \in ToSet(candidates)
      BY <1>1, <2>2 DEF Filtered
    <3>q. QED
      BY <3>2, <3>3, <3>4
  <2>q. QED
    BY <1>2, <2>1, <2>2
<1>11. Missed'
  <2>1. Met' = Met
    BY <1>2 DEF Met
  <2>q. QED
    BY <1>1, <1>2, <1>4, <2>1 DEF Missed
<1>q. QED
  BY <1>3, <1>4, <1>5, <1>6, <1>7, <1>9, <1>10, <1>11 DEF IInv

\* One ps.
LEMMA FilterPreservesIInv ==
  ASSUME IInv, Filter
  PROVE  IInv'
<1>1. TypeOK /\ Tree /\ Mourned /\ Once /\ Phases /\ Missed /\ Filtered
  BY DEF IInv
<1> DEFINE k == checked + 1
<1>2. /\ pc = "filter" /\ checked < Len(candidates)
      /\ UNCHANGED treeVars /\ UNCHANGED <<named, pgrep, pc, todo, misread>>
      /\ Shows(candidates[k]) => checked' = k /\ candidates' = candidates
      /\ ~Shows(candidates[k]) => checked' = checked /\ candidates' = RemoveAt(candidates, k)
  BY DEF Filter
<1>3. /\ candidates \in Seq(PID \cup {Host}) /\ checked \in Nat /\ Len(candidates) \in Nat
      /\ k \in 1..Len(candidates) /\ IsInjective(candidates) /\ todo = <<>> /\ ToSet(todo) = {}
  BY <1>1, <1>2 DEF TypeOK, Once, Phases, ToSet
<1>4. candidates[k] \in ToSet(candidates) /\ candidates[k] \in PID \cup {Host}
  BY <1>3 DEF ToSet
<1>5. /\ RemoveAt(candidates, k) \in Seq(PID \cup {Host})
      /\ IsInjective(RemoveAt(candidates, k))
      /\ Len(RemoveAt(candidates, k)) = Len(candidates) - 1
      /\ ToSet(RemoveAt(candidates, k)) = ToSet(candidates) \ {candidates[k]}
      /\ \A i \in 1..(k - 1) : RemoveAt(candidates, k)[i] = candidates[i]
  BY <1>3, RemoveFacts
<1>6. k - 1 = checked
  BY <1>3
<1>7. /\ candidates' \in Seq(PID \cup {Host}) /\ IsInjective(candidates')
      /\ ToSet(candidates') \subseteq ToSet(candidates) /\ checked' \in 0..Len(candidates')
  <2>1. CASE Shows(candidates[k])
    BY <1>2, <1>3, <2>1
  <2>2. CASE ~Shows(candidates[k])
    BY <1>2, <1>3, <1>5, <2>2
  <2>q. QED
    BY <2>1, <2>2
<1> HIDE DEF k
<1>8. TypeOK'
  BY <1>1, <1>2, <1>7 DEF TypeOK, treeVars
<1>9. Tree' /\ Mourned' /\ \A p : /\ Line(p)' = Line(p) /\ Children(p)' = Children(p)
                                  /\ Still(p)' => Still(p)
                                  /\ TakenForLeaf(p)' <=> TakenForLeaf(p)
  BY <1>1, <1>2, TreeStands
<1>10. Once'
  <2>1. state' = state
    BY <1>2 DEF treeVars
  <2>2. ToSet(todo') = {} /\ Met' = ToSet(candidates') /\ Met = ToSet(candidates)
    BY <1>2, <1>3 DEF Met
  <2>3. \A p \in Met' : p = Host \/ state'[p] # "unused"
    BY <1>1, <1>7, <2>1, <2>2 DEF Once
  <2>4. IsInjective(todo')
    BY <1>1, <1>2 DEF Once
  <2>q. QED
    BY <1>7, <2>2, <2>3, <2>4 DEF Once
<1>11. Phases' /\ Walked' /\ CandidatesAreLeaves'
  BY <1>1, <1>2 DEF Phases, Walked, CandidatesAreLeaves
<1>12. Filtered'
  <2> SUFFICES ASSUME NEW p \in PID, Still(p)
               PROVE  /\ p \in ToSet(candidates') => TakenForLeaf(p)
                      /\ TakenForLeaf(p) /\ p \in named => p \in ToSet(candidates')
                      /\ \A i \in 1..checked' : candidates'[i] = p => p \in named
    BY <1>2, <1>9 DEF Filtered
  <2>1. /\ p \in ToSet(candidates) => TakenForLeaf(p)
        /\ TakenForLeaf(p) /\ p \in named => p \in ToSet(candidates)
        /\ \A i \in 1..checked : candidates[i] = p => p \in named
    BY <1>1, <1>2 DEF Filtered
  <2>2. state[p] = "alive" /\ p # Host
    BY Pids DEF Still
  <2>3. Shows(p) => p \in named
    BY <2>2 DEF Shows
  <2>4. p \in named => Shows(p)
    BY <2>2 DEF Shows
  <2>5. CASE Shows(candidates[k])
    <3>1. \A i \in 1..k : i \in 1..checked \/ i = k
      BY <1>3 DEF k
    <3>q. QED
      BY <1>2, <2>1, <2>3, <2>5, <3>1
  <2>6. CASE ~Shows(candidates[k])
    BY <1>2, <1>5, <1>6, <2>1, <2>4, <2>6
  <2>q. QED
    BY <2>5, <2>6
<1>13. Missed'
  <2>1. Met' \subseteq Met
    BY <1>2, <1>7 DEF Met
  <2>q. QED
    BY <1>1, <1>2, <1>9, <2>1 DEF Missed
<1>q. QED
  BY <1>8, <1>9, <1>10, <1>11, <1>12, <1>13 DEF IInv

-----------------------------------------------------------------------------
(* The theorems.                                                           *)

\* A non-empty set of naturals has a least element.
LEMMA LeastElement ==
  ASSUME NEW S \in SUBSET Nat, S # {}
  PROVE  \E k \in S : \A l \in S : k <= l
<1> DEFINE Less == OpToRel(<, Nat)
<1>1. PICK k \in S : \A l \in S : <<l, k>> \notin Less
  BY WFMin, NatLessThanWellFounded
<1>2. \A l, m \in Nat : l < m => <<l, m>> \in Less
  BY Zenon DEF OpToRel
<1> HIDE DEF Less
<1>3. \A l \in S : ~(l < k)
  BY <1>1, <1>2, Zenon
<1>q. QED
  BY <1>1, <1>3

\* A container that just runs, or is stopped: every process is younger than
\* its parent, so that going up ends at the root.
LEMMA InitIsTree ==
  ASSUME Init
  PROVE  TypeOK /\ Tree /\ Mourned
<1>1. PICK n \in 0..MaxPID :
        /\ state = [p \in PID |-> IF p <= n THEN "alive"
                                  ELSE IF n = 0 THEN "gone" ELSE "unused"]
        /\ parent \in {f \in [PID -> PID] :
                         \A p \in PID : IF p \in 2..n THEN f[p] < p ELSE f[p] = p}
  BY DEF Init
<1>2. n \in Nat /\ n <= MaxPID /\ MaxPID \in Nat
  BY MaxPIDAssumption
<1>3. \A p \in PID : p \in Nat /\ p >= 1 /\ p <= MaxPID
  BY MaxPIDAssumption DEF PID
<1>4. /\ parent \in [PID -> PID]
      /\ \A p \in PID : p > 1 /\ p <= n => parent[p] < p
      /\ \A p \in PID : ~(p > 1 /\ p <= n) => parent[p] = p
  <2>1. \A p \in PID : (p \in 2..n) <=> (p > 1 /\ p <= n)
    BY <1>2, <1>3
  <2>q. QED
    BY <1>1, <2>1
<1>5. /\ \A p \in PID : p <= n => state[p] = "alive"
      /\ \A p \in PID : ~(p <= n) => state[p] = IF n = 0 THEN "gone" ELSE "unused"
  BY <1>1
<1>6. TypeOK
  <2>1. state \in [PID -> {"unused", "alive", "zombie", "gone"}]
    BY <1>1
  <2>2. todo \in Seq(PID \cup {Host}) /\ candidates \in Seq(PID \cup {Host})
    BY DEF Init
  <2>3. checked \in 0..Len(candidates)
    BY DEF Init
  <2>4. moved \subseteq PID /\ named \subseteq PID /\ pgrep \in BOOLEAN /\ pc = "pid" /\ misread = {}
    BY DEF Init
  <2>q. QED
    BY <1>4, <2>1, <2>2, <2>3, <2>4 DEF TypeOK
<1>7. \A p \in PID : Lives(p) => p <= n
  BY <1>5 DEF Lives
<1>8. Root \in PID /\ Root = 1 /\ ~(Root > 1)
  BY Pids DEF Root
<1>9. parent[Root] = Root /\ state[Root] \in {"alive", "gone"}
  BY <1>2, <1>4, <1>5, <1>8
<1>10. ASSUME NEW p \in PID, NEW q \in PID, state[q] = "unused", parent[p] = q PROVE p = q
  <2>1. ~(q <= n) /\ q \in Nat /\ p \in Nat
    BY <1>3, <1>5, <1>10
  <2>2. p <= n /\ p > 1 => q < p
    BY <1>4, <1>10
  <2>q. QED
    BY <1>2, <1>4, <1>10, <2>1, <2>2
<1>11. ASSUME NEW p \in PID \ {Root}, Lives(p) PROVE state[parent[p]] = "alive"
  <2>1. p <= n /\ p > 1 /\ parent[p] \in PID
    BY <1>3, <1>4, <1>7, <1>8, <1>11
  <2>2. parent[p] < p
    BY <1>4, <2>1
  <2>3. parent[p] <= n
    BY <1>2, <1>3, <2>1, <2>2
  <2>q. QED
    BY <1>5, <2>1, <2>3
<1>12. ASSUME NEW D \in SUBSET PID, NEW a \in D, Lives(a), \A p \in D : parent[p] \in D
       PROVE  Root \in D
  <2> DEFINE E == {y \in D : y <= n}
  <2>1. a \in E /\ E \in SUBSET Nat
    BY <1>3, <1>7, <1>12
  <2>2. PICK k \in E : \A l \in E : k <= l
    BY <2>1, LeastElement
  <2>3. k \in PID /\ k \in Nat /\ k >= 1 /\ k <= n /\ k \in D
    BY <1>3, <2>2
  <2>4. CASE k > 1
    <3>1. parent[k] < k /\ parent[k] \in D /\ parent[k] \in Nat
      BY <1>3, <1>4, <1>12, <2>3, <2>4
    <3>2. parent[k] <= n
      BY <1>2, <2>3, <3>1
    <3>q. QED
      BY <2>2, <2>3, <3>1, <3>2
  <2>5. CASE ~(k > 1)
    <3>1. k = Root
      BY <1>8, <2>3, <2>5
    <3>q. QED
      BY <2>3, <3>1
  <2>q. QED
    BY <2>4, <2>5
<1>13. Tree
  BY <1>9, <1>10, <1>11, <1>12 DEF Tree
<1>14. Mourned
  BY <1>5 DEF Mourned
<1>q. QED
  BY <1>6, <1>13, <1>14

\* Init satisfies the whole invariant: nothing is met yet.
LEMMA InitEstablishesIInv ==
  ASSUME Init
  PROVE  IInv
<1>1. TypeOK /\ Tree /\ Mourned
  BY InitIsTree
<1>2. pc = "pid" /\ todo = <<>> /\ candidates = <<>> /\ checked = 0 /\ misread = {}
  BY DEF Init
<1>3. ToSet(<<>>) = {} /\ IsInjective(<<>>)
  BY DEF ToSet, IsInjective
<1>4. Once
  BY <1>2, <1>3 DEF Once, Met
<1>5. Phases /\ Missed /\ Walked /\ Filtered /\ CandidatesAreLeaves
  BY <1>2 DEF Phases, Missed, Walked, Filtered, CandidatesAreLeaves
<1>q. QED
  BY <1>1, <1>4, <1>5 DEF IInv

\* Nothing happens: what is said of the variables stays true.
LEMMA StutterPreservesIInv ==
  ASSUME IInv, UNCHANGED vars
  PROVE  IInv'
<1>1. /\ TypeOK /\ Tree /\ Mourned /\ Once /\ Phases /\ Missed /\ Walked /\ Filtered
      /\ CandidatesAreLeaves
  BY DEF IInv
<1>2. /\ UNCHANGED treeVars /\ UNCHANGED <<named, pgrep, pc, todo, misread, candidates, checked>>
  BY DEF vars
<1>3. Tree' /\ Mourned' /\ \A p : /\ Line(p)' = Line(p) /\ Children(p)' = Children(p)
                                  /\ Still(p)' => Still(p)
                                  /\ TakenForLeaf(p)' <=> TakenForLeaf(p)
  BY <1>1, <1>2, TreeStands
<1>4. state' = state
  BY <1>2 DEF treeVars
<1>5. TypeOK' /\ Phases'
  BY <1>1, <1>2 DEF TypeOK, Phases, treeVars
<1>6. Once'
  BY <1>1, <1>2, <1>3, <1>4 DEF Once, Met
<1>7. Walked'
  BY <1>1, <1>2, <1>3 DEF Walked
<1>8. Filtered'
  BY <1>1, <1>2, <1>3 DEF Filtered
<1>9. CandidatesAreLeaves'
  BY <1>1, <1>2, <1>3 DEF CandidatesAreLeaves
<1>10. Missed'
  <2>1. Met' = Met
    BY <1>2 DEF Met
  <2>q. QED
    BY <1>1, <1>2, <1>3, <2>1 DEF Missed
<1>q. QED
  BY <1>3, <1>5, <1>6, <1>7, <1>8, <1>9, <1>10 DEF IInv

(***************************************************************************)
(* Every state of the call satisfies the invariant: the processes are a    *)
(* tree however they fork and exit, the walk has met none of what is below *)
(* a PID still to visit nor of what is below one whose pgrep failed, and   *)
(* it is somewhere on the line above every process that stood still and    *)
(* was not visited yet.                                                    *)
(***************************************************************************)
THEOREM InvariantHolds == Spec => []IInv
<1>1. Init => IInv
  BY InitEstablishesIInv
<1>2. IInv /\ [Next]_vars => IInv'
  <2> SUFFICES ASSUME IInv, [Next]_vars PROVE IInv'
    OBVIOUS
  <2>1. CASE RootFails \/ RootFound \/ StoppedIsZero
    BY <2>1, StartPreservesIInv
  <2>2. CASE Visit
    BY <2>2, VisitPreservesIInv
  <2>3. CASE WalkEnds \/ FilterFails \/ FilterEnds
    BY <2>3, PhasePreservesIInv
  <2>4. CASE Filter
    BY <2>4, FilterPreservesIInv
  <2>5. CASE pc \in {"walk", "filter"} /\ Target
    BY <2>5, TargetPreservesIInv
  <2>6. CASE UNCHANGED vars
    BY <2>6, StutterPreservesIInv
  <2>7. CASE VisitFails
    BY <2>7, VisitFailsPreservesIInv
  <2>q. QED
    BY <2>1, <2>2, <2>3, <2>4, <2>5, <2>6, <2>7 DEF Next, Agent
<1>q. QED
  BY <1>1, <1>2, PTL DEF Spec

(***************************************************************************)
(* GetCandidatePIDs never lists a process twice, for any number of         *)
(* processes and any forks and exits between two pgrep commands.           *)
(***************************************************************************)
THEOREM NoneTwice == Spec => []NoDuplicates
<1>1. IInv => NoDuplicates
  BY DEF IInv, Once, NoDuplicates
<1>q. QED
  BY <1>1, InvariantHolds, PTL

(***************************************************************************)
(* What GetCandidatePIDs returns is, in the part of the tree that stood    *)
(* still during the call, exactly the processes without children and those *)
(* whose own pgrep failed, without any below one of the latter, and, with  *)
(* --pgrep, of the name asked for.                                         *)
(***************************************************************************)
THEOREM LeavesOfWhatStood == Spec => []CandidatesAreLeaves
<1>1. IInv => CandidatesAreLeaves
  BY DEF IInv
<1>q. QED
  BY <1>1, InvariantHolds, PTL
=============================================================================
