--------------------------- MODULE Emitter_proof ---------------------------
(***************************************************************************)
(* Proofs about Emitter, for every graph, every order of emission and      *)
(* every combination of flags.                                             *)
(*                                                                         *)
(* What finish delivers is exactly what can be delivered.  One half is the *)
(* order of delivery: the nodes delivered before a node are closed under   *)
(* dependencies and do not contain it.  The other half is about the nodes  *)
(* left over: each waits for one of them, so if nothing they need were     *)
(* missing or cyclic, the one that needs least would wait for one that     *)
(* needs less.                                                             *)
(***************************************************************************)
EXTENDS Emitter, FiniteSetTheorems, SequenceTheorems,
        NaturalsInduction, WellFoundedInduction, TLAPS

Live == {r \in exportEligible : nodes[r] # Nil}

(* The frontier of reachableNodes, before dropUnresolvable.                *)
Frontier == exportEligible \cup Elems(next)

Closed(S) == \A x \in S : DepsIn(nodes, x) \subseteq S

(* The graph: references lead to slots, results to nodes.                  *)
Graph(ns, rs) ==
  /\ \A r \in 1..Len(ns) : ns[r] # Nil => ns[r].deps \subseteq 1..Len(ns)
  /\ publicationRoots \subseteq 1..Len(ns)
  /\ \A r \in Elems(rs) : r \in 1..Len(ns) /\ ns[r] # Nil

GraphInv ==
  /\ Graph(nodes, results)
  /\ phase = "gen" => /\ next = <<>> /\ cursor = 1
                      /\ resolved = {} /\ delivered = <<>>
  /\ phase \in {"pass", "results", "done", "thrown"} => opts \in Option

DeliveryInv == resolved = Elems(delivered) /\ DeliveredInOrder

(* A pass: every live node is delivered, kept for the next pass or still   *)
(* to come, and a pass that has delivered nothing knows why.               *)
InPass ==
  /\ exportEligible = Published
  /\ cursor \in 1..(Len(pending) + 1)
  /\ \A i, j \in 1..Len(pending) : pending[i] = pending[j] => i = j
  /\ \A i, j \in 1..Len(next) : next[i] = next[j] => i = j
  /\ Elems(next) \subseteq {pending[k] : k \in 1..(cursor - 1)} \ resolved
  /\ \A k \in cursor..Len(pending) : pending[k] \notin resolved
  /\ Elems(pending) \subseteq Live
  /\ Live = resolved \cup Elems(next) \cup {pending[k] : k \in cursor..Len(pending)}
  /\ Len(next) <= cursor - 1
  /\ Len(next) = cursor - 1 =>
       \A k \in 1..(cursor - 1) : /\ next[k] = pending[k]
                                  /\ HasUnresolvedDeps(pending[k])

PassInv == phase = "pass" => InPass

(* After the passes: what is left over waits for something left over.      *)
LeftInv ==
  phase \in {"results", "done", "thrown"} =>
    /\ Frontier \subseteq 1..Len(nodes) /\ Closed(Frontier)
    /\ publicationRoots \cup Elems(results) \subseteq Frontier
    /\ resolved \subseteq Frontier
    /\ \A x \in Frontier : nodes[x] # Nil /\ x \notin resolved => HasUnresolvedDeps(x)
    /\ IF phase = "thrown"
         THEN exportEligible = Published /\ Live \ resolved # {}
         ELSE /\ Elems(results) \subseteq resolved
              /\ Live = resolved
              /\ ~opts.keepGoing => next = <<>>

(* stripPackageResults leaves the nodes the other results need.            *)
StripInv ==
  phase \in {"pass", "results", "done"} /\ opts.strip =>
    /\ ~opts.addModules => \A r \in Elems(results) : ~nodes[r].package
    /\ ~opts.keepGoing =>
         {r \in 1..Len(nodes) : nodes[r] # Nil} = ReachableNodes(nodes, Elems(results))

ReturnInv ==
  phase = "done" =>
    /\ Elems(returned) = Elems(results)
    /\ \A i, j \in 1..Len(returned) : returned[i] = returned[j] => i = j
    /\ opts.addModules => {r \in Live : nodes[r].module} \subseteq Elems(results)

EmitterInv ==
  GraphInv /\ DeliveryInv /\ PassInv /\ LeftInv /\ StripInv /\ ReturnInv
-----------------------------------------------------------------------------
(***************************************************************************)
(* Induction, over the members of a set of naturals.                       *)
(***************************************************************************)
LEMMA LeastNat ==
  ASSUME NEW T \in SUBSET Nat, T # {}
  PROVE  \E n \in T : \A m \in T : n <= m
<1>1. PICK n \in T : \A m \in T : ~(<<m, n>> \in OpToRel(<, Nat))
  BY NatLessThanWellFounded, WFMin
<1>2. \A m \in T : ~(m < n)
  BY <1>1 DEF OpToRel
<1> QED
  BY <1>2

LEMMA NatSetInduction ==
  ASSUME NEW T \in SUBSET Nat, 0 \in T, \A n \in T : n + 1 \in T
  PROVE  T = Nat
<1> DEFINE U == Nat \ T
<1> SUFFICES ASSUME U # {} PROVE FALSE
  OBVIOUS
<1>1. U \in SUBSET Nat
  OBVIOUS
<1> HIDE DEF U
<1>2. PICK n \in U : \A m \in U : n <= m
  BY <1>1, LeastNat
<1>3. n # 0 /\ n - 1 \in Nat /\ n - 1 \in T
  BY <1>2 DEF U
<1> QED
  BY <1>2, <1>3 DEF U
-----------------------------------------------------------------------------
(***************************************************************************)
(* The loops of finish over slices.                                        *)
(***************************************************************************)
IsAscending(s, S) ==
  /\ s \in [1..Cardinality(S) -> S]
  /\ Elems(s) = S
  /\ \A i, j \in 1..Cardinality(S) : i < j => s[i] < s[j]

LEMMA IndexSet ==
  ASSUME NEW n \in Nat, NEW S \in SUBSET (1..n)
  PROVE  IsFiniteSet(S) /\ Cardinality(S) \in Nat
<1>1. IsFiniteSet(1..n)
  BY FS_Interval
<1> QED
  BY <1>1, FS_Subset, FS_CardinalityType

LEMMA AscendingExists ==
  \A n \in Nat : \A S \in SUBSET (1..n) : \E s : IsAscending(s, S)
<1> DEFINE T == {n \in Nat : \A S \in SUBSET (1..n) : \E s : IsAscending(s, S)}
<1>1. 0 \in T
  <2> SUFFICES ASSUME NEW S \in SUBSET (1..0) PROVE IsAscending(<<>>, S)
    OBVIOUS
  <2>1. S = {}
    OBVIOUS
  <2>2. Cardinality(S) = 0
    BY <2>1, FS_EmptySet
  <2> QED
    BY <2>1, <2>2 DEF IsAscending, Elems
<1>2. ASSUME NEW n \in T PROVE n + 1 \in T
  <2> SUFFICES ASSUME NEW S \in SUBSET (1..(n + 1)) PROVE \E s : IsAscending(s, S)
    OBVIOUS
  <2>1. CASE n + 1 \notin S
    <3>1. S \in SUBSET (1..n)
      BY <2>1
    <3> QED
      BY <3>1
  <2>2. CASE n + 1 \in S
    <3> DEFINE R == S \ {n + 1}
               c == Cardinality(R)
    <3>1. R \in SUBSET (1..n) /\ S = R \cup {n + 1} /\ n + 1 \notin R
      BY <2>2
    <3>2. PICK r : IsAscending(r, R)
      BY <3>1
    <3>3. IsFiniteSet(R) /\ c \in Nat
      BY <3>1, IndexSet
    <3>4. Cardinality(S) = c + 1
      BY <3>1, <3>3, FS_AddElement
    <3> HIDE DEF R, c
    <3> DEFINE s == [i \in 1..(c + 1) |-> IF i = c + 1 THEN n + 1 ELSE r[i]]
    <3>5. r \in [1..c -> R] /\ Elems(r) = R /\ \A i, j \in 1..c : i < j => r[i] < r[j]
      BY <3>2 DEF IsAscending, c
    <3>6. r \in Seq(R) /\ Len(r) = c
      BY <3>3, <3>5
    <3>7. s \in [1..(c + 1) -> S] /\ s \in Seq(S) /\ Len(s) = c + 1
      BY <3>1, <3>3, <3>5
    <3>8. Elems(s) = S
      <4>1. \A i \in 1..c : s[i] = r[i]
        BY <3>3
      <4>2. s[c + 1] = n + 1
        BY <3>3
      <4>3. R = {r[i] : i \in 1..c}
        BY <3>5, <3>6 DEF Elems
      <4>4. Elems(s) = {s[i] : i \in 1..(c + 1)}
        BY <3>7 DEF Elems
      <4> HIDE DEF s
      <4> QED
        BY <3>1, <3>3, <4>1, <4>2, <4>3, <4>4
    <3>9. \A i, j \in 1..(c + 1) : i < j => s[i] < s[j]
      <4> SUFFICES ASSUME NEW i \in 1..(c + 1), NEW j \in 1..(c + 1), i < j
                   PROVE  s[i] < s[j]
        OBVIOUS
      <4>1. i \in 1..c /\ r[i] \in 1..n
        <5>1. i \in 1..c
          BY <3>3
        <5>2. r[i] \in R
          BY <3>5, <5>1
        <5> QED
          BY <3>1, <5>1, <5>2
      <4>2. CASE j = c + 1
        BY <3>3, <4>1, <4>2
      <4>3. CASE j \in 1..c
        BY <3>3, <3>5, <4>1, <4>3
      <4> QED
        BY <3>3, <4>2, <4>3
    <3>10. IsAscending(s, S)
      BY <3>4, <3>7, <3>8, <3>9 DEF IsAscending
    <3> QED
      BY <3>10
  <2> QED
    BY <2>1, <2>2
<1> HIDE DEF T
<1>3. T = Nat
  <2>1. T \in SUBSET Nat
    BY DEF T
  <2> QED
    BY <1>1, <1>2, <2>1, NatSetInduction
<1> QED
  BY <1>3 DEF T

(* The set in order: all of it, each member once.                          *)
LEMMA AscendingFacts ==
  ASSUME NEW n \in Nat, NEW S \in SUBSET (1..n)
  PROVE  /\ Ascending(S) \in Seq(S) /\ Len(Ascending(S)) = Cardinality(S)
         /\ Elems(Ascending(S)) = S
         /\ \A i, j \in 1..Len(Ascending(S)) :
              Ascending(S)[i] = Ascending(S)[j] => i = j
<1> DEFINE s == Ascending(S)
           c == Cardinality(S)
<1>1. \E f : IsAscending(f, S)
  BY AscendingExists
<1>2. IsAscending(s, S)
  BY <1>1 DEF IsAscending, Ascending
<1>3. c \in Nat
  BY IndexSet
<1> HIDE DEF s, c
<1>4. s \in [1..c -> S] /\ Elems(s) = S /\ \A i, j \in 1..c : i < j => s[i] < s[j]
  BY <1>2 DEF IsAscending, c
<1>5. s \in Seq(S) /\ Len(s) = c
  BY <1>3, <1>4
<1>6. ASSUME NEW i \in 1..c, NEW j \in 1..c, s[i] = s[j] PROVE i = j
  <2>1. s[i] \in Nat /\ s[j] \in Nat
    <3>1. s[i] \in S /\ s[j] \in S
      BY <1>4
    <3>2. S \subseteq Nat
      OBVIOUS
    <3> QED
      BY <3>1, <3>2
  <2>2. ~(i < j) /\ ~(j < i)
    BY <1>4, <1>6, <2>1
  <2> QED
    BY <1>3, <2>2
<1> QED
  BY <1>4, <1>5, <1>6 DEF s, c

(* The elements kept: those at the indices, and once if they are distinct. *)
LEMMA KeptFacts ==
  ASSUME NEW A, NEW s \in Seq(A), NEW I \in SUBSET (1..Len(s))
  PROVE  /\ Kept(s, I) \in Seq(A)
         /\ Elems(Kept(s, I)) = {s[i] : i \in I}
         /\ (\A i, j \in I : s[i] = s[j] => i = j) =>
              \A i, j \in 1..Len(Kept(s, I)) : Kept(s, I)[i] = Kept(s, I)[j] => i = j
<1> DEFINE a == Ascending(I)
           c == Cardinality(I)
           k == Kept(s, I)
<1>1. Len(s) \in Nat /\ c \in Nat
  <2>1. Len(s) \in Nat
    OBVIOUS
  <2> QED
    BY <2>1, IndexSet
<1>2. /\ a \in Seq(I) /\ Len(a) = c /\ Elems(a) = I
      /\ \A i, j \in 1..c : a[i] = a[j] => i = j
  BY <1>1, AscendingFacts
<1> HIDE DEF a, c
<1>3. k = [i \in 1..c |-> s[a[i]]]
  BY DEF Kept, a, c
<1>4. \A i \in 1..c : a[i] \in I /\ s[a[i]] \in A
  <2>1. \A i \in 1..c : a[i] \in I
    BY <1>1, <1>2
  <2>2. \A i \in I : s[i] \in A
    OBVIOUS
  <2> QED
    BY <2>1, <2>2
<1> HIDE DEF k
<1>5. k \in Seq(A) /\ Len(k) = c
  BY <1>1, <1>3, <1>4
<1>6. Elems(k) = {s[i] : i \in I}
  <2>1. Elems(k) = {s[a[i]] : i \in 1..c} /\ I = {a[i] : i \in 1..c}
    BY <1>2, <1>3, <1>5 DEF Elems
  <2> QED
    BY <2>1
<1>7. ASSUME \A i, j \in I : s[i] = s[j] => i = j,
             NEW i \in 1..c, NEW j \in 1..c, k[i] = k[j]
      PROVE  i = j
  BY <1>2, <1>3, <1>4, <1>7
<1> QED
  BY <1>5, <1>6, <1>7 DEF k

LEMMA KeepIfFacts ==
  ASSUME NEW A, NEW s \in Seq(A), NEW S
  PROVE  /\ KeepIf(s, S) \in Seq(A)
         /\ Elems(KeepIf(s, S)) = Elems(s) \cap S
<1> DEFINE I == {i \in 1..Len(s) : s[i] \in S}
<1>1. I \in SUBSET (1..Len(s)) /\ {s[i] : i \in I} = Elems(s) \cap S
  BY DEF Elems
<1> HIDE DEF I
<1>2. KeepIf(s, S) = Kept(s, I)
  BY DEF KeepIf, I
<1> QED
  BY <1>1, <1>2, KeptFacts

(* Every element stays, once.                                              *)
LEMMA DedupFacts ==
  ASSUME NEW A, NEW s \in Seq(A)
  PROVE  LET d == DedupResultRefs(s) IN
         /\ d \in Seq(A) /\ Elems(d) = Elems(s)
         /\ \A i, j \in 1..Len(d) : d[i] = d[j] => i = j
<1> DEFINE I == {i \in 1..Len(s) : \A j \in 1..(i - 1) : s[j] # s[i]}
<1>1. I \in SUBSET (1..Len(s)) /\ Len(s) \in Nat
  OBVIOUS
<1>2. \A i, j \in I : s[i] = s[j] => i = j
  <2> SUFFICES ASSUME NEW i \in I, NEW j \in I, s[i] = s[j] PROVE i = j
    OBVIOUS
  <2>1. ~(i < j) /\ ~(j < i)
    OBVIOUS
  <2> QED
    BY <2>1
<1>3. Elems(s) \subseteq {s[i] : i \in I}
  <2> SUFFICES ASSUME NEW k \in 1..Len(s) PROVE \E i \in I : s[i] = s[k]
    BY DEF Elems
  <2> DEFINE T == {i \in 1..Len(s) : s[i] = s[k]}
  <2>1. T \in SUBSET Nat /\ T # {}
    OBVIOUS
  <2>2. PICK i \in T : \A m \in T : i <= m
    BY <2>1, LeastNat
  <2>3. \A j \in 1..(i - 1) : s[j] # s[i]
    BY <1>1, <2>2
  <2> QED
    BY <2>2, <2>3
<1>4. {s[i] : i \in I} \subseteq Elems(s)
  BY DEF Elems
<1> HIDE DEF I
<1>5. DedupResultRefs(s) = Kept(s, I)
  BY DEF DedupResultRefs, I
<1> DEFINE d == DedupResultRefs(s)
<1>6. /\ d \in Seq(A) /\ Elems(d) = {s[i] : i \in I}
      /\ \A i, j \in 1..Len(d) : d[i] = d[j] => i = j
  BY <1>1, <1>2, <1>5, KeptFacts
<1> HIDE DEF d
<1>7. Elems(d) = Elems(s)
  BY <1>3, <1>4, <1>6
<1> QED
  BY <1>6, <1>7 DEF d
-----------------------------------------------------------------------------
(***************************************************************************)
(* Types.                                                                  *)
(***************************************************************************)
LEMMA NodeFields ==
  ASSUME NEW n \in NodeRec
  PROVE  /\ n # Nil /\ n.deps \subseteq Ref
         /\ n.module \in BOOLEAN /\ n.package \in BOOLEAN
BY NilAssumption, EmitterAssumption DEF NodeRec

LEMMA ReachableInside ==
  ASSUME NEW ns, NEW roots
  PROVE  ReachableNodes(ns, roots) \subseteq DOMAIN ns
BY DEF ReachableNodes

LEMMA RefFacts == MaxNodes \in Nat /\ Ref = 1..MaxNodes
BY EmitterAssumption DEF Ref

(* The nodes and results finish goes on with after the strip, if any.      *)
LEMMA StartTypes ==
  ASSUME TypeOK, NEW ns \in Seq(NodeRec \cup {Nil}), Len(ns) = Len(nodes),
         NEW rs \in Seq(Ref), NEW o \in Option, opts' = o, StartPasses(ns, rs),
         UNCHANGED <<deferred, publicationRoots, cursor, next, resolved, delivered,
                     returned>>
  PROVE  TypeOK'
<1> DEFINE eligible == ReachableNodes(ns, publicationRoots \cup Elems(rs))
           live == {r \in eligible : ns[r] # Nil}
<1>1. DOMAIN ns = 1..Len(nodes) /\ Len(nodes) \in Nat /\ Len(nodes) <= MaxNodes
  BY DEF TypeOK
<1>2. eligible \subseteq DOMAIN ns
  BY ReachableInside
<1>3. live \subseteq 1..MaxNodes /\ eligible \subseteq 1..MaxNodes
  <2> HIDE DEF eligible
  <2>1. 1..Len(nodes) \subseteq 1..MaxNodes
    BY <1>1, RefFacts
  <2> QED
    BY <1>1, <1>2, <2>1
<1>4. /\ nodes' = ns /\ results' = rs /\ exportEligible' = eligible
      /\ pending' = Ascending(live) /\ phase' = "pass"
  BY DEF StartPasses
<1> HIDE DEF eligible, live
<1>5. Ascending(live) \in Seq(live)
  BY <1>3, RefFacts, AscendingFacts
<1>6. Ascending(live) \in Seq(Ref)
  BY <1>3, <1>5, RefFacts, SeqMonotonic
<1> QED
  BY <1>1, <1>3, <1>4, <1>6, RefFacts DEF TypeOK

LEMMA FinishTypes ==
  ASSUME TypeOK, NEW o \in Option, Finish(o)
  PROVE  TypeOK'
<1>1. /\ opts' = o
      /\ UNCHANGED <<deferred, publicationRoots, cursor, next, resolved, delivered,
                     returned>>
  BY DEF Finish
<1> DEFINE rs == KeepIf(results, NotPackages)
           live == ReachableNodes(nodes, Elems(rs))
           ns == [r \in 1..Len(nodes) |-> IF r \in live THEN nodes[r] ELSE Nil]
<1>2. rs \in Seq(Ref)
  BY KeepIfFacts DEF TypeOK
<1>3. ns \in Seq(NodeRec \cup {Nil}) /\ Len(ns) = Len(nodes)
  <2>1. /\ Len(nodes) \in Nat
        /\ \A r \in 1..Len(nodes) : nodes[r] \in NodeRec \cup {Nil}
    BY DEF TypeOK
  <2> HIDE DEF live
  <2>2. ns \in [1..Len(nodes) -> NodeRec \cup {Nil}]
    BY <2>1
  <2> HIDE DEF ns
  <2> QED
    BY <2>1, <2>2
<1>4. \/ StartPasses(nodes, results)
      \/ StartPasses(ns, rs)
      \/ phase' = "panic" /\ UNCHANGED <<nodes, results, exportEligible, pending>>
  BY DEF Finish
<1> HIDE DEF ns, rs
<1>5. CASE StartPasses(nodes, results)
  BY <1>1, <1>5, StartTypes DEF TypeOK
<1>6. CASE StartPasses(ns, rs)
  BY <1>1, <1>2, <1>3, <1>6, StartTypes
<1>7. CASE phase' = "panic" /\ UNCHANGED <<nodes, results, exportEligible, pending>>
  BY <1>1, <1>7 DEF TypeOK
<1> QED
  BY <1>4, <1>5, <1>6, <1>7

(* A step of a pass keeps its node for the next one or delivers it.        *)
LEMMA PassStepCases ==
  ASSUME TypeOK, PassStep
  PROVE  /\ cursor \in 1..Len(pending) /\ cursor' = cursor + 1
         /\ UNCHANGED <<genVars, phase, exportEligible, pending, returned>>
         /\ \E id \in Ref :
              /\ id = pending[cursor]
              /\ \/ /\ HasUnresolvedDeps(id)
                    /\ next' = Append(next, id)
                    /\ UNCHANGED <<resolved, delivered>>
                 \/ /\ ~HasUnresolvedDeps(id)
                    /\ resolved' = resolved \cup {id}
                    /\ delivered' = Append(delivered, id)
                    /\ UNCHANGED next
<1>1. cursor \in 1..Len(pending) /\ pending[cursor] \in Ref
  BY DEF TypeOK, PassStep
<1> QED
  BY <1>1 DEF PassStep

LEMMA TypeStep == TypeOK /\ [Next]_vars => TypeOK'
<1> SUFFICES ASSUME TypeOK, [Next]_vars PROVE TypeOK'
  OBVIOUS
<1> USE RefFacts DEF Unfinished
<1>0. Len(nodes) \in Nat
  BY DEF TypeOK
<1>1. CASE Reserve
  BY <1>0, <1>1 DEF TypeOK, Reserve
<1>2. ASSUME NEW n \in NodeRec, Emit(n) PROVE TypeOK'
  <2>1. Len(nodes) + 1 \in Ref
    BY <1>0, <1>2 DEF Emit
  <2>2. publicationRoots' \subseteq Ref
    BY <1>2, <2>1 DEF TypeOK, Emit, ResolveOrPend
  <2> QED
    BY <1>0, <1>2, <2>2 DEF TypeOK, Emit
<1>3. ASSUME NEW n \in NodeRec, NEW id \in Ref, EmitReserved(n, id) PROVE TypeOK'
  <2>1. publicationRoots' \subseteq Ref
    BY <1>3 DEF TypeOK, EmitReserved, ResolveOrPend
  <2>2. nodes' \in Seq(NodeRec \cup {Nil}) /\ Len(nodes') = Len(nodes)
    BY <1>3 DEF TypeOK, EmitReserved
  <2> QED
    BY <1>3, <2>1, <2>2 DEF TypeOK, EmitReserved
<1>4. ASSUME NEW r \in Ref, Result(r) PROVE TypeOK'
  BY <1>4 DEF TypeOK, Result
<1>5. CASE DeferPublication
  BY <1>5 DEF TypeOK, DeferPublication
<1>6. ASSUME NEW o \in Option, Finish(o) PROVE TypeOK'
  BY <1>6, FinishTypes
<1>7. CASE PassStep
  <2>1. cursor' \in Nat \ {0}
    BY <1>7 DEF TypeOK, PassStep
  <2>2. \A id \in Ref : Append(next, id) \in Seq(Ref) /\ Append(delivered, id) \in Seq(Ref)
    BY DEF TypeOK
  <2>3. next' \in Seq(Ref) /\ delivered' \in Seq(Ref) /\ resolved' \subseteq Ref
    BY <1>7, <2>2, PassStepCases DEF TypeOK
  <2> QED
    BY <1>7, <2>1, <2>3 DEF TypeOK, PassStep, genVars
<1>8. CASE NextPass
  BY <1>8 DEF TypeOK, NextPass, genVars
<1>9. CASE Stuck
  <2>1. KeepIf(results, resolved) \in Seq(Ref)
    BY KeepIfFacts DEF TypeOK
  <2> QED
    BY <1>9, <2>1 DEF TypeOK, Stuck
<1>10. CASE Return
  <2> DEFINE M == {r \in exportEligible : nodes[r] # Nil /\ nodes[r].module}
  <2>1. M \in SUBSET (1..MaxNodes)
    BY DEF TypeOK
  <2>2. ModuleRefs = Ascending(M)
    BY DEF ModuleRefs
  <2> HIDE DEF M
  <2>3. ModuleRefs \in Seq(Ref)
    <3>1. Ascending(M) \in Seq(M)
      BY <2>1, AscendingFacts
    <3> QED
      BY <2>1, <2>2, <3>1, SeqMonotonic
  <2>4. results' \in Seq(Ref)
    <3>1. results \o ModuleRefs \in Seq(Ref)
      BY <2>3, ConcatProperties DEF TypeOK
    <3> QED
      BY <1>10, <3>1 DEF TypeOK, Return
  <2>5. returned' \in Seq(Ref)
    BY <1>10, <2>4, DedupFacts DEF Return
  <2> QED
    BY <1>10, <2>4, <2>5 DEF TypeOK, Return
<1>11. CASE UNCHANGED vars
  BY <1>11 DEF TypeOK, vars
<1> QED
  BY <1>1, <1>2, <1>3, <1>4, <1>5, <1>6, <1>7, <1>8, <1>9, <1>10, <1>11
  DEF Next, Finished

(* In every reachable state references lead inside the slots of the        *)
(* emitter and its lists hold references.                                  *)
THEOREM TypeCorrect == Spec => []TypeOK
<1>1. Init => TypeOK
  <2> SUFFICES ASSUME Init PROVE TypeOK
    OBVIOUS
  <2>1. nodes \in Seq(NodeRec \cup {Nil}) /\ Len(nodes) <= MaxNodes
    BY RefFacts DEF Init
  <2>2. /\ results \in Seq(Ref) /\ pending \in Seq(Ref) /\ next \in Seq(Ref)
        /\ delivered \in Seq(Ref) /\ returned \in Seq(Ref) /\ cursor \in Nat \ {0}
    BY DEF Init
  <2> QED
    BY <2>1, <2>2 DEF Init, TypeOK
<1> QED
  BY <1>1, TypeStep, PTL DEF Spec
-----------------------------------------------------------------------------
(***************************************************************************)
(* reachableNodes: the least set with the roots in it and closed under     *)
(* dependencies.                                                           *)
(***************************************************************************)
LEMMA ReachFacts ==
  ASSUME NEW ns, NEW roots \in SUBSET DOMAIN ns,
         \A x \in DOMAIN ns : DepsIn(ns, x) \subseteq DOMAIN ns
  PROVE  /\ roots \subseteq ReachableNodes(ns, roots)
         /\ \A x \in ReachableNodes(ns, roots) :
              DepsIn(ns, x) \subseteq ReachableNodes(ns, roots)
         /\ \A S \in SUBSET DOMAIN ns :
              roots \subseteq S /\ (\A x \in S : DepsIn(ns, x) \subseteq S) =>
                ReachableNodes(ns, roots) \subseteq S
<1>1. roots \subseteq ReachableNodes(ns, roots)
  BY DEF ReachableNodes
<1>2. \A S \in SUBSET DOMAIN ns :
        roots \subseteq S /\ (\A x \in S : DepsIn(ns, x) \subseteq S) =>
          ReachableNodes(ns, roots) \subseteq S
  BY DEF ReachableNodes
<1>3. ASSUME NEW x \in ReachableNodes(ns, roots), NEW d \in DepsIn(ns, x)
      PROVE  d \in ReachableNodes(ns, roots)
  <2>1. x \in DOMAIN ns
    BY DEF ReachableNodes
  <2>2. d \in DOMAIN ns
    BY <1>3, <2>1
  <2>3. SUFFICES ASSUME NEW S \in SUBSET DOMAIN ns, roots \subseteq S,
                        \A y \in S : DepsIn(ns, y) \subseteq S
                 PROVE  d \in S
    BY <2>2 DEF ReachableNodes
  <2>4. x \in S
    BY <1>2, <1>3, <2>3
  <2> QED
    BY <1>3, <2>3, <2>4
<1> QED
  BY <1>1, <1>2, <1>3

LEMMA DepsInside ==
  ASSUME NEW ns \in Seq(NodeRec \cup {Nil}), NEW rs, Graph(ns, rs)
  PROVE  /\ DOMAIN ns = 1..Len(ns)
         /\ \A x \in DOMAIN ns : DepsIn(ns, x) \subseteq DOMAIN ns
         /\ publicationRoots \cup Elems(rs) \in SUBSET DOMAIN ns
<1>1. DOMAIN ns = 1..Len(ns)
  OBVIOUS
<1> QED
  BY <1>1 DEF Graph, DepsIn
-----------------------------------------------------------------------------
(***************************************************************************)
(* Where finish begins.                                                    *)
(***************************************************************************)
LEMMA StripFacts ==
  ASSUME TypeOK, GraphInv,
         NEW rs, rs = KeepIf(results, NotPackages),
         NEW live, live = ReachableNodes(nodes, Elems(rs)),
         \A r \in live : nodes[r] # Nil,
         NEW ns, ns = [r \in 1..Len(nodes) |-> IF r \in live THEN nodes[r] ELSE Nil]
  PROVE  /\ ns \in Seq(NodeRec \cup {Nil}) /\ Len(ns) = Len(nodes)
         /\ rs \in Seq(Ref)
         /\ Graph(ns, rs)
         /\ \A r \in Elems(rs) : ~ns[r].package
         /\ {r \in 1..Len(ns) : ns[r] # Nil} = ReachableNodes(ns, Elems(rs))
<1>1. /\ Len(nodes) \in Nat
      /\ \A r \in 1..Len(nodes) : nodes[r] \in NodeRec \cup {Nil}
  BY DEF TypeOK
<1>2. ns \in [1..Len(nodes) -> NodeRec \cup {Nil}]
  BY <1>1
<1>3. ns \in Seq(NodeRec \cup {Nil}) /\ Len(ns) = Len(nodes)
  BY <1>1, <1>2
<1>4. rs \in Seq(Ref) /\ Elems(rs) = Elems(results) \cap NotPackages
  BY KeepIfFacts DEF TypeOK
<1>5. /\ DOMAIN nodes = 1..Len(nodes)
      /\ \A x \in DOMAIN nodes : DepsIn(nodes, x) \subseteq DOMAIN nodes
      /\ Elems(rs) \in SUBSET DOMAIN nodes
  BY <1>4, DepsInside DEF GraphInv, TypeOK
<1>6. live \subseteq 1..Len(nodes)
  BY <1>5, ReachableInside
<1>7. Elems(rs) \subseteq live /\ \A x \in live : DepsIn(nodes, x) \subseteq live
  BY <1>5, ReachFacts
<1>8. \A r \in 1..Len(nodes) : /\ r \in live => ns[r] = nodes[r] /\ ns[r] # Nil
                               /\ r \notin live => ns[r] = Nil
  OBVIOUS
<1>9. \A r \in live : ns[r] # Nil /\ ns[r].deps \subseteq live /\ DepsIn(ns, r) = DepsIn(nodes, r)
  BY <1>6, <1>7, <1>8 DEF DepsIn
<1>10. Graph(ns, rs)
  <2>1. \A r \in 1..Len(ns) : ns[r] # Nil => ns[r].deps \subseteq 1..Len(ns)
    BY <1>3, <1>6, <1>8, <1>9
  <2>2. \A r \in Elems(rs) : r \in 1..Len(ns) /\ ns[r] # Nil
    BY <1>3, <1>6, <1>7, <1>9
  <2>3. publicationRoots \subseteq 1..Len(ns)
    BY <1>3 DEF GraphInv, Graph
  <2> QED
    BY <2>1, <2>2, <2>3 DEF Graph
<1>11. \A r \in Elems(rs) : ~ns[r].package
  BY <1>4, <1>6, <1>7, <1>8 DEF NotPackages
<1>12. ReachableNodes(ns, Elems(rs)) = live
  <2>1. /\ DOMAIN ns = 1..Len(nodes) /\ Elems(rs) \in SUBSET DOMAIN ns
        /\ \A x \in DOMAIN ns : DepsIn(ns, x) \subseteq DOMAIN ns
    BY <1>3, <1>10, DepsInside
  <2>2. ReachableNodes(ns, Elems(rs)) \subseteq live
    <3>1. live \in SUBSET DOMAIN ns /\ \A x \in live : DepsIn(ns, x) \subseteq live
      BY <1>6, <1>7, <1>9, <2>1
    <3> QED
      BY <1>7, <2>1, <3>1, ReachFacts
  <2>3. live \subseteq ReachableNodes(ns, Elems(rs))
    <3> DEFINE R == ReachableNodes(ns, Elems(rs))
    <3>1. Elems(rs) \subseteq R /\ \A x \in R : DepsIn(ns, x) \subseteq R
      BY <2>1, ReachFacts
    <3>2. R \in SUBSET DOMAIN nodes
      BY <1>5, <2>1, ReachableInside
    <3> HIDE DEF R
    <3>3. \A x \in R : DepsIn(nodes, x) \subseteq R
      BY <1>9, <2>2, <3>1 DEF R
    <3>4. live \subseteq R
      BY <1>5, <3>1, <3>2, <3>3, ReachFacts
    <3> QED
      BY <3>4 DEF R
  <2> QED
    BY <2>2, <2>3
<1> QED
  BY <1>3, <1>4, <1>6, <1>8, <1>10, <1>11, <1>12

(* The first pass begins with every live node pending.                     *)
LEMMA StartInv ==
  ASSUME TypeOK, GraphInv, phase = "gen",
         NEW ns \in Seq(NodeRec \cup {Nil}), Len(ns) = Len(nodes),
         NEW rs \in Seq(Ref), Graph(ns, rs),
         NEW o \in Option, opts' = o, StartPasses(ns, rs),
         UNCHANGED <<deferred, publicationRoots, cursor, next, resolved, delivered,
                     returned>>
  PROVE  GraphInv' /\ DeliveryInv' /\ PassInv' /\ LeftInv' /\ ReturnInv'
<1> DEFINE eligible == ReachableNodes(ns, publicationRoots \cup Elems(rs))
           live == {r \in eligible : ns[r] # Nil}
<1>1. DOMAIN ns = 1..Len(ns) /\ Len(ns) \in Nat
  OBVIOUS
<1>2. eligible \subseteq 1..Len(ns)
  BY <1>1, ReachableInside
<1>3. /\ nodes' = ns /\ results' = rs /\ exportEligible' = eligible
      /\ pending' = Ascending(live) /\ phase' = "pass"
  BY DEF StartPasses
<1>4. /\ next' = <<>> /\ cursor' = 1 /\ resolved' = {} /\ delivered' = <<>>
      /\ UNCHANGED publicationRoots
  BY DEF GraphInv
<1>5. Live' = live /\ live \subseteq 1..Len(ns)
  BY <1>2, <1>3 DEF Live
<1>6. Published' = eligible
  BY <1>3, <1>4 DEF Published
<1> HIDE DEF eligible, live
<1>7. /\ pending' \in Seq(live) /\ Elems(pending') = live
      /\ \A i, j \in 1..Len(pending') : pending'[i] = pending'[j] => i = j
  BY <1>1, <1>3, <1>5, AscendingFacts
<1>8. GraphInv'
  BY <1>3, <1>4 DEF GraphInv, Graph
<1>9. DeliveryInv'
  BY <1>4 DEF DeliveryInv, DeliveredInOrder, Elems
<1>10. PassInv'
  <2>1. Elems(next') = {} /\ Len(next') = 0
    BY <1>4 DEF Elems
  <2>2. Len(pending') \in Nat
    BY <1>7
  <2>3. {pending'[k] : k \in cursor'..Len(pending')} = live
    BY <1>4, <1>7 DEF Elems
  <2> QED
    BY <1>3, <1>4, <1>5, <1>6, <1>7, <2>1, <2>2, <2>3 DEF PassInv, InPass
<1> QED
  BY <1>3, <1>8, <1>9, <1>10 DEF LeftInv, ReturnInv

LEMMA FinishInv ==
  ASSUME TypeOK, EmitterInv, NEW o \in Option, Finish(o)
  PROVE  EmitterInv'
<1>1. /\ phase = "gen" /\ opts' = o
      /\ UNCHANGED <<deferred, publicationRoots, cursor, next, resolved, delivered,
                     returned>>
  BY DEF Finish
<1>2. GraphInv
  BY DEF EmitterInv
<1>3. PICK rs, live, ns :
        /\ rs = KeepIf(results, NotPackages)
        /\ live = ReachableNodes(nodes, Elems(rs))
        /\ ns = [r \in 1..Len(nodes) |-> IF r \in live THEN nodes[r] ELSE Nil]
  OBVIOUS
<1>4. CASE ~o.strip
  <2>1. StartPasses(nodes, results)
    BY <1>4 DEF Finish
  <2>2. nodes \in Seq(NodeRec \cup {Nil}) /\ results \in Seq(Ref) /\ Graph(nodes, results)
    BY <1>2 DEF TypeOK, GraphInv
  <2>3. GraphInv' /\ DeliveryInv' /\ PassInv' /\ LeftInv' /\ ReturnInv'
    BY <1>1, <1>2, <2>1, <2>2, StartInv
  <2>4. StripInv'
    BY <1>1, <1>4 DEF StripInv
  <2> QED
    BY <2>3, <2>4 DEF EmitterInv
<1>5. CASE o.strip /\ \E r \in live : nodes[r] = Nil
  <2>1. phase' = "panic" /\ UNCHANGED <<nodes, results, exportEligible, pending>>
    BY <1>3, <1>5 DEF Finish
  <2>2. GraphInv'
    BY <1>1, <1>2, <2>1 DEF GraphInv, Graph
  <2>3. DeliveryInv'
    BY <1>1, <2>1 DEF EmitterInv, DeliveryInv, DeliveredInOrder
  <2> QED
    BY <2>1, <2>2, <2>3 DEF EmitterInv, PassInv, LeftInv, StripInv, ReturnInv
<1>6. CASE o.strip /\ \A r \in live : nodes[r] # Nil
  <2>1. StartPasses(ns, rs)
    BY <1>3, <1>6 DEF Finish
  <2>2. /\ ns \in Seq(NodeRec \cup {Nil}) /\ Len(ns) = Len(nodes)
        /\ rs \in Seq(Ref) /\ Graph(ns, rs)
        /\ \A r \in Elems(rs) : ~ns[r].package
        /\ {r \in 1..Len(ns) : ns[r] # Nil} = ReachableNodes(ns, Elems(rs))
    BY <1>2, <1>3, <1>6, StripFacts
  <2>3. GraphInv' /\ DeliveryInv' /\ PassInv' /\ LeftInv' /\ ReturnInv'
    BY <1>1, <1>2, <2>1, <2>2, StartInv
  <2>4. nodes' = ns /\ results' = rs
    BY <2>1 DEF StartPasses
  <2>5. StripInv'
    BY <2>2, <2>4 DEF StripInv
  <2> QED
    BY <2>3, <2>5 DEF EmitterInv
<1> QED
  BY <1>4, <1>5, <1>6

(* Generation: nothing but the graph grows.                                *)
LEMMA GenStep ==
  ASSUME TypeOK, EmitterInv,
         \/ Reserve \/ DeferPublication
         \/ \E n \in NodeRec : Emit(n)
         \/ \E n \in NodeRec, id \in Ref : EmitReserved(n, id)
         \/ \E r \in Ref : Result(r)
  PROVE  EmitterInv'
<1> USE DEF Unfinished
<1>1. phase = "gen" /\ UNCHANGED Unfinished
  BY DEF Reserve, DeferPublication, Emit, EmitReserved, Result
<1>2. Graph(nodes, results) /\ Len(nodes) \in Nat /\ next = <<>> /\ cursor = 1
      /\ resolved = {} /\ delivered = <<>>
  BY <1>1 DEF EmitterInv, GraphInv, TypeOK
<1>3. Graph(nodes, results)'
  <2>1. CASE Reserve
    <3>1. Len(nodes') = Len(nodes) + 1 /\ nodes'[Len(nodes) + 1] = Nil
          /\ \A r \in 1..Len(nodes) : nodes'[r] = nodes[r]
      BY <2>1 DEF Reserve, TypeOK
    <3> QED
      BY <1>2, <2>1, <3>1 DEF Reserve, Graph
  <2>2. ASSUME NEW n \in NodeRec, Emit(n) PROVE Graph(nodes, results)'
    <3>1. Len(nodes') = Len(nodes) + 1 /\ nodes'[Len(nodes) + 1] = n
          /\ \A r \in 1..Len(nodes) : nodes'[r] = nodes[r]
      BY <2>2 DEF Emit, TypeOK
    <3>2. publicationRoots' \subseteq publicationRoots \cup {Len(nodes) + 1}
      BY <2>2 DEF Emit, ResolveOrPend
    <3> QED
      BY <1>2, <2>2, <3>1, <3>2 DEF Emit, Graph
  <2>3. ASSUME NEW n \in NodeRec, NEW id \in Ref, EmitReserved(n, id)
        PROVE  Graph(nodes, results)'
    <3>1. /\ Len(nodes') = Len(nodes) /\ id \in 1..Len(nodes) /\ n # Nil
          /\ \A r \in 1..Len(nodes) : nodes'[r] = IF r = id THEN n ELSE nodes[r]
      BY <2>3, NodeFields DEF EmitReserved, TypeOK
    <3>2. publicationRoots' \subseteq publicationRoots \cup {id}
      BY <2>3 DEF EmitReserved, ResolveOrPend
    <3> QED
      BY <1>2, <2>3, <3>1, <3>2 DEF EmitReserved, Graph
  <2>4. ASSUME NEW r \in Ref, Result(r) PROVE Graph(nodes, results)'
    <3>1. Elems(results') \subseteq Elems(results) \cup {r}
      BY <2>4 DEF Result, TypeOK, Elems
    <3> QED
      BY <1>2, <2>4, <3>1 DEF Result, Graph
  <2>5. CASE DeferPublication
    BY <1>2, <2>5 DEF DeferPublication, Graph
  <2> QED
    BY <2>1, <2>2, <2>3, <2>4, <2>5
<1>4. GraphInv' /\ DeliveryInv'
  BY <1>1, <1>2, <1>3 DEF GraphInv, DeliveryInv, DeliveredInOrder, Elems
<1> QED
  BY <1>1, <1>4 DEF EmitterInv, PassInv, LeftInv, StripInv, ReturnInv
-----------------------------------------------------------------------------
(***************************************************************************)
(* The passes.                                                             *)
(***************************************************************************)
LEMMA AppendElems ==
  ASSUME NEW A, NEW s \in Seq(A), NEW x \in A
  PROVE  /\ Len(Append(s, x)) = Len(s) + 1 /\ Len(s) \in Nat
         /\ \A i \in 1..Len(s) : Append(s, x)[i] = s[i]
         /\ Append(s, x)[Len(s) + 1] = x
         /\ Elems(Append(s, x)) = Elems(s) \cup {x}
<1>1. /\ Len(Append(s, x)) = Len(s) + 1 /\ Len(s) \in Nat
      /\ \A i \in 1..Len(s) : Append(s, x)[i] = s[i]
      /\ Append(s, x)[Len(s) + 1] = x
  OBVIOUS
<1>2. Elems(Append(s, x)) = Elems(s) \cup {x}
  BY <1>1 DEF Elems
<1> QED
  BY <1>1, <1>2

LEMMA DeliveryKept ==
  ASSUME DeliveryInv, UNCHANGED <<nodes, resolved, delivered>>
  PROVE  DeliveryInv'
<1>1. DeliveredInOrder' = DeliveredInOrder
  BY DEF DeliveredInOrder
<1> QED
  BY <1>1 DEF DeliveryInv, Elems

LEMMA PassStepDelivers ==
  ASSUME TypeOK, EmitterInv, PassStep
  PROVE  DeliveryInv'
<1>1. UNCHANGED nodes /\ phase = "pass" /\ cursor \in 1..Len(pending)
  BY PassStepCases DEF genVars, PassStep
<1>2. PICK id \in Ref :
        /\ id = pending[cursor]
        /\ \/ UNCHANGED <<resolved, delivered>>
           \/ /\ ~HasUnresolvedDeps(id)
              /\ resolved' = resolved \cup {id}
              /\ delivered' = Append(delivered, id)
  BY PassStepCases
<1>3. CASE UNCHANGED <<resolved, delivered>>
  BY <1>1, <1>3, DeliveryKept DEF EmitterInv
<1>4. CASE /\ ~HasUnresolvedDeps(id)
           /\ resolved' = resolved \cup {id}
           /\ delivered' = Append(delivered, id)
  <2>1. id \notin resolved
    <3>1. cursor \in cursor..Len(pending)
      BY <1>1
    <3> QED
      BY <1>1, <1>2, <3>1 DEF EmitterInv, PassInv, InPass
  <2>2. nodes[id].deps \subseteq resolved
    BY <1>4 DEF HasUnresolvedDeps
  <2>3. /\ Len(delivered') = Len(delivered) + 1 /\ Len(delivered) \in Nat
        /\ \A i \in 1..Len(delivered) : delivered'[i] = delivered[i]
        /\ delivered'[Len(delivered) + 1] = id
        /\ Elems(delivered') = Elems(delivered) \cup {id}
    BY <1>4, AppendElems DEF TypeOK
  <2>4. resolved = Elems(delivered)
    BY DEF EmitterInv, DeliveryInv
  <2>5. DeliveredInOrder'
    <3> SUFFICES ASSUME NEW i \in 1..Len(delivered')
                 PROVE  LET earlier == {delivered'[j] : j \in 1..(i - 1)} IN
                        /\ nodes[delivered'[i]].deps \subseteq earlier
                        /\ delivered'[i] \notin earlier
      BY <1>1 DEF DeliveredInOrder
    <3>1. {delivered'[j] : j \in 1..(i - 1)} = {delivered[j] : j \in 1..(i - 1)}
      BY <2>3
    <3>2. CASE i \in 1..Len(delivered)
      BY <2>3, <3>1, <3>2 DEF EmitterInv, DeliveryInv, DeliveredInOrder
    <3>3. CASE i = Len(delivered) + 1
      <4>1. {delivered[j] : j \in 1..(i - 1)} = resolved
        BY <2>3, <2>4, <3>3 DEF Elems
      <4> QED
        BY <2>1, <2>2, <2>3, <3>1, <3>3, <4>1
    <3> QED
      BY <2>3, <3>2, <3>3
  <2> QED
    BY <1>4, <2>3, <2>4, <2>5 DEF DeliveryInv
<1> QED
  BY <1>2, <1>3, <1>4

LEMMA PassStepPassInv ==
  ASSUME TypeOK, EmitterInv, PassStep
  PROVE  PassInv'
<1>1. /\ cursor \in 1..Len(pending) /\ cursor' = cursor + 1 /\ phase = "pass"
      /\ UNCHANGED <<nodes, results, publicationRoots, phase, exportEligible, pending>>
      /\ Len(pending) \in Nat /\ Len(next) \in Nat
  BY PassStepCases DEF genVars, PassStep, TypeOK
<1>2. PICK id \in Ref :
        /\ id = pending[cursor]
        /\ \/ /\ HasUnresolvedDeps(id)
              /\ next' = Append(next, id)
              /\ UNCHANGED <<resolved, delivered>>
           \/ /\ ~HasUnresolvedDeps(id)
              /\ resolved' = resolved \cup {id}
              /\ delivered' = Append(delivered, id)
              /\ UNCHANGED next
  BY PassStepCases
<1>3. Published' = Published /\ Live' = Live
  BY <1>1 DEF Published, Live
<1>4. InPass
  BY <1>1 DEF EmitterInv, PassInv
<1>5. /\ \A k \in cursor..Len(pending) : k = cursor \/ k \in cursor'..Len(pending)
      /\ \A k \in cursor'..Len(pending) : k \in cursor..Len(pending) /\ k # cursor
      /\ cursor \in cursor..Len(pending)
      /\ \A k \in 1..(cursor - 1) : k \in 1..Len(pending) /\ k # cursor
      /\ \A k \in cursor'..Len(pending) : k \in 1..Len(pending)
      /\ \A k \in 1..(cursor' - 1) : k = cursor \/ k \in 1..(cursor - 1)
      /\ \A k \in 1..(cursor - 1) : k \in 1..(cursor' - 1)
      /\ cursor \in 1..(cursor' - 1)
  BY <1>1
<1> DEFINE passed == {pending[k] : k \in 1..(cursor - 1)}
           ahead == {pending[k] : k \in cursor'..Len(pending)}
<1>6. id \notin resolved /\ id \notin passed /\ id \notin ahead
  BY <1>1, <1>2, <1>4, <1>5 DEF InPass
<1>7. /\ {pending[k] : k \in 1..(cursor' - 1)} = passed \cup {id}
      /\ {pending[k] : k \in cursor..Len(pending)} = ahead \cup {id}
  BY <1>2, <1>5
<1>8. /\ Elems(next) \subseteq passed \ resolved
      /\ Live = resolved \cup Elems(next) \cup ahead \cup {id}
      /\ Len(next) <= cursor - 1
  BY <1>4, <1>7 DEF InPass
<1>9. cursor' \in 1..(Len(pending) + 1)
  BY <1>1
<1>10. CASE /\ HasUnresolvedDeps(id)
            /\ next' = Append(next, id)
            /\ UNCHANGED <<resolved, delivered>>
  <2>1. /\ Len(next') = Len(next) + 1
        /\ \A i \in 1..Len(next) : next'[i] = next[i]
        /\ next'[Len(next) + 1] = id
        /\ Elems(next') = Elems(next) \cup {id}
    BY <1>10, AppendElems DEF TypeOK
  <2>2. \A i, j \in 1..Len(next') : next'[i] = next'[j] => i = j
    <3>1. \A i \in 1..Len(next) : next[i] # id
      BY <1>6, <1>8 DEF Elems
    <3>2. \A i \in 1..Len(next') : i \in 1..Len(next) \/ i = Len(next) + 1
      BY <1>1, <2>1
    <3> QED
      BY <1>4, <2>1, <3>1, <3>2 DEF InPass
  <2>3. Len(next') = cursor' - 1 =>
          \A k \in 1..(cursor' - 1) : /\ next'[k] = pending[k]
                                      /\ HasUnresolvedDeps(pending[k])'
    <3> SUFFICES ASSUME Len(next') = cursor' - 1, NEW k \in 1..(cursor' - 1)
                 PROVE  next'[k] = pending[k] /\ HasUnresolvedDeps(pending[k])
      BY <1>1, <1>10 DEF HasUnresolvedDeps
    <3>1. Len(next) = cursor - 1
      BY <1>1, <2>1
    <3>2. CASE k = cursor
      BY <1>2, <1>10, <2>1, <3>1, <3>2
    <3>3. CASE k \in 1..(cursor - 1)
      BY <1>4, <2>1, <3>1, <3>3 DEF InPass
    <3> QED
      BY <1>5, <3>2, <3>3
  <2>4. Len(next') <= cursor' - 1
    BY <1>1, <1>8, <2>1
  <2>5. Live = resolved' \cup Elems(next') \cup ahead
    BY <1>8, <1>10, <2>1
  <2>6. Elems(next') \subseteq (passed \cup {id}) \ resolved'
    BY <1>6, <1>8, <1>10, <2>1
  <2>7. InPass'
    BY <1>1, <1>3, <1>4, <1>5, <1>7, <1>9, <1>10, <2>2, <2>3, <2>4, <2>5, <2>6 DEF InPass
  <2> QED
    BY <2>7 DEF PassInv
<1>11. CASE /\ ~HasUnresolvedDeps(id)
            /\ resolved' = resolved \cup {id}
            /\ UNCHANGED next
  <2>1. Elems(next') \subseteq (passed \cup {id}) \ resolved'
    BY <1>6, <1>8, <1>11
  <2>2. Live = resolved' \cup Elems(next') \cup ahead
    BY <1>8, <1>11
  <2>3. \A k \in cursor'..Len(pending) : pending[k] \notin resolved'
    BY <1>4, <1>5, <1>6, <1>11 DEF InPass
  <2>4. Len(next') < cursor' - 1
    BY <1>1, <1>8, <1>11
  <2>5. InPass'
    BY <1>1, <1>3, <1>4, <1>7, <1>9, <1>11, <2>1, <2>2, <2>3, <2>4 DEF InPass
  <2> QED
    BY <2>5 DEF PassInv
<1> QED
  BY <1>2, <1>10, <1>11

LEMMA GraphKept ==
  ASSUME GraphInv, UNCHANGED <<nodes, results, publicationRoots, opts>>,
         phase # "gen", phase' # "gen",
         phase' \in {"pass", "results", "done", "thrown"} =>
           phase \in {"pass", "results", "done", "thrown"}
  PROVE  GraphInv'
BY DEF GraphInv, Graph

LEMMA PassStepInv ==
  ASSUME TypeOK, EmitterInv, PassStep
  PROVE  EmitterInv'
<1>1. UNCHANGED <<opts, nodes, results, publicationRoots, phase>> /\ phase = "pass"
  BY DEF PassStep, genVars
<1>2. GraphInv'
  BY <1>1, GraphKept DEF EmitterInv
<1>3. StripInv'
  BY <1>1 DEF EmitterInv, StripInv
<1> QED
  BY <1>1, <1>2, <1>3, PassStepDelivers, PassStepPassInv
  DEF EmitterInv, LeftInv, ReturnInv

(* What the frontier is, while the passes last.                            *)
LEMMA FrontierFacts ==
  ASSUME TypeOK, GraphInv, exportEligible = Published
  PROVE  /\ exportEligible \subseteq 1..Len(nodes) /\ Closed(exportEligible)
         /\ publicationRoots \cup Elems(results) \subseteq exportEligible
<1>1. /\ DOMAIN nodes = 1..Len(nodes)
      /\ \A x \in DOMAIN nodes : DepsIn(nodes, x) \subseteq DOMAIN nodes
      /\ publicationRoots \cup Elems(results) \in SUBSET DOMAIN nodes
  BY DepsInside DEF TypeOK, GraphInv
<1> QED
  BY <1>1, ReachFacts, ReachableInside DEF Published, Closed

LEMMA NextPassInv ==
  ASSUME TypeOK, EmitterInv, NextPass
  PROVE  EmitterInv'
<1>1. /\ UNCHANGED <<opts, nodes, results, publicationRoots, exportEligible,
                     resolved, delivered>>
      /\ phase = "pass" /\ cursor > Len(pending)
      /\ pending' = next /\ next' = <<>> /\ cursor' = 1
      /\ phase' = IF next = <<>> THEN "results" ELSE "pass"
  BY DEF NextPass, genVars
<1>2. InPass /\ GraphInv /\ opts \in Option
  BY <1>1 DEF EmitterInv, PassInv, GraphInv
<1>3. /\ Len(pending) \in Nat /\ Len(next) \in Nat /\ cursor = Len(pending) + 1
      /\ {pending[k] : k \in cursor..Len(pending)} = {}
  BY <1>1, <1>2 DEF TypeOK, InPass
<1>4. GraphInv' /\ DeliveryInv'
  BY <1>1, GraphKept, DeliveryKept DEF EmitterInv
<1>5. Live' = Live /\ Published' = Published /\ Elems(next') = {} /\ Len(next') = 0
  BY <1>1 DEF Live, Published, Elems
<1>6. Live = resolved \cup Elems(next) /\ Elems(next) \cap resolved = {}
  BY <1>2, <1>3 DEF InPass
<1>7. PassInv'
  <2> SUFFICES InPass'
    BY DEF PassInv
  <2>1. {pending'[k] : k \in cursor'..Len(pending')} = Elems(next)
    BY <1>1 DEF Elems
  <2>2. \A k \in cursor'..Len(pending') : pending'[k] \notin resolved'
    BY <1>1, <1>6 DEF Elems
  <2>3. Elems(pending') \subseteq Live
    BY <1>1, <1>6
  <2> QED
    BY <1>1, <1>2, <1>3, <1>5, <1>6, <2>1, <2>2, <2>3 DEF InPass
<1>8. LeftInv'
  <2> SUFFICES ASSUME next = <<>>, phase' = "results" PROVE LeftInv'
    BY <1>1 DEF LeftInv
  <2>1. Elems(next) = {} /\ Live = resolved
    BY <1>6 DEF Elems
  <2>2. Frontier' = exportEligible
    BY <1>1, <1>5 DEF Frontier
  <2>3. /\ exportEligible \subseteq 1..Len(nodes) /\ Closed(exportEligible)
        /\ publicationRoots \cup Elems(results) \subseteq exportEligible
    BY <1>2, FrontierFacts DEF InPass
  <2>4. Closed(Frontier)'
    BY <1>1, <2>2, <2>3 DEF Closed
  <2>5. resolved \subseteq exportEligible /\ Elems(results) \subseteq resolved
    BY <1>2, <2>1, <2>3 DEF Live, GraphInv, Graph
  <2>6. \A x \in exportEligible : nodes[x] # Nil => x \in resolved
    BY <2>1 DEF Live
  <2> QED
    BY <1>1, <1>5, <2>1, <2>2, <2>3, <2>4, <2>5, <2>6 DEF LeftInv
<1>9. StripInv'
  BY <1>1 DEF EmitterInv, StripInv
<1> QED
  BY <1>1, <1>4, <1>7, <1>8, <1>9 DEF EmitterInv, ReturnInv

(* A pass that has delivered nothing has kept every pending node.          *)
LEMMA StuckInv ==
  ASSUME TypeOK, EmitterInv, Stuck
  PROVE  EmitterInv'
<1>1. /\ UNCHANGED <<opts, nodes, publicationRoots, pending, next, resolved, delivered>>
      /\ phase = "pass" /\ cursor > Len(pending) /\ pending # <<>>
      /\ Len(next) = Len(pending)
  BY DEF Stuck
<1>2. InPass /\ GraphInv /\ opts \in Option
  BY <1>1 DEF EmitterInv, PassInv, GraphInv
<1>3. /\ Len(pending) \in Nat \ {0} /\ cursor = Len(pending) + 1
      /\ {pending[k] : k \in cursor..Len(pending)} = {}
  BY <1>1, <1>2 DEF TypeOK, InPass
<1>4. Live = resolved \cup Elems(next) /\ Elems(next) \cap resolved = {}
  BY <1>2, <1>3 DEF InPass
<1>5. \A x \in Elems(next) : HasUnresolvedDeps(x)
  <2>1. Len(next) = cursor - 1
    BY <1>1, <1>3
  <2> QED
    BY <1>2, <2>1 DEF InPass, Elems
<1>6. Elems(next) # {}
  <2>1. 1 \in 1..Len(next)
    BY <1>1, <1>3
  <2> QED
    BY <2>1 DEF Elems
<1>7. /\ exportEligible \subseteq 1..Len(nodes) /\ Closed(exportEligible)
      /\ publicationRoots \cup Elems(results) \subseteq exportEligible
  BY <1>2, FrontierFacts DEF InPass
<1>8. Elems(next) \subseteq exportEligible /\ resolved \subseteq exportEligible
  BY <1>4 DEF Live
<1>9. DeliveryInv'
  BY <1>1, DeliveryKept DEF EmitterInv
<1>10. \A x \in exportEligible : nodes[x] # Nil /\ x \notin resolved => HasUnresolvedDeps(x)
  BY <1>4, <1>5 DEF Live
<1>11. \A x : HasUnresolvedDeps(x)' <=> HasUnresolvedDeps(x)
  BY <1>1 DEF HasUnresolvedDeps
<1>12. CASE opts.keepGoing
  <2>1. /\ phase' = "results" /\ exportEligible' = exportEligible \ Elems(next)
        /\ results' = KeepIf(results, resolved)
    BY <1>12 DEF Stuck
  <2>2. Elems(results') = Elems(results) \cap resolved
    BY <2>1, KeepIfFacts DEF TypeOK
  <2>3. GraphInv'
    BY <1>1, <1>2, <2>1, <2>2 DEF GraphInv, Graph
  <2>4. Frontier' = exportEligible
    BY <1>1, <1>8, <2>1 DEF Frontier
  <2>5. Live' = resolved
    BY <1>1, <1>4, <2>1 DEF Live
  <2>6. Closed(Frontier)'
    BY <1>1, <1>7, <2>4 DEF Closed
  <2>7. LeftInv'
    BY <1>1, <1>7, <1>8, <1>10, <1>11, <1>12, <2>1, <2>2, <2>4, <2>5, <2>6 DEF LeftInv
  <2>8. StripInv'
    BY <1>1, <1>12, <2>1, <2>2 DEF EmitterInv, StripInv
  <2> QED
    BY <1>9, <2>1, <2>3, <2>7, <2>8 DEF EmitterInv, PassInv, ReturnInv
<1>13. CASE ~opts.keepGoing
  <2>1. phase' = "thrown" /\ UNCHANGED <<results, exportEligible>>
    BY <1>13 DEF Stuck
  <2>2. GraphInv'
    BY <1>1, <1>2, <2>1, GraphKept
  <2>3. Frontier' = exportEligible /\ Live' = Live /\ Published' = Published
    BY <1>1, <1>8, <2>1 DEF Frontier, Live, Published
  <2>4. Closed(Frontier)'
    BY <1>1, <1>7, <2>3 DEF Closed
  <2>5. exportEligible' = Published' /\ Live' \ resolved' # {}
    BY <1>1, <1>2, <1>4, <1>6, <2>1, <2>3 DEF InPass
  <2>6. LeftInv'
    BY <1>1, <1>7, <1>8, <1>10, <1>11, <2>1, <2>3, <2>4, <2>5 DEF LeftInv
  <2> QED
    BY <1>9, <2>1, <2>2, <2>6 DEF EmitterInv, PassInv, StripInv, ReturnInv
<1> QED
  BY <1>12, <1>13
-----------------------------------------------------------------------------
(***************************************************************************)
(* What finish returns.                                                    *)
(***************************************************************************)
LEMMA ConcatElems ==
  ASSUME NEW A, NEW s \in Seq(A), NEW t \in Seq(A)
  PROVE  Elems(s \o t) = Elems(s) \cup Elems(t)
<1>1. /\ Len(s) \in Nat /\ Len(t) \in Nat /\ Len(s \o t) = Len(s) + Len(t)
      /\ \A i \in 1..Len(s) : (s \o t)[i] = s[i]
      /\ \A i \in 1..Len(t) : (s \o t)[Len(s) + i] = t[i]
  BY ConcatProperties
<1>2. Elems(s) \cup Elems(t) \subseteq Elems(s \o t)
  <2>1. \A i \in 1..Len(t) : Len(s) + i \in 1..Len(s \o t)
    BY <1>1
  <2>2. \A i \in 1..Len(s) : i \in 1..Len(s \o t)
    BY <1>1
  <2>3. Elems(s) \subseteq Elems(s \o t)
    BY <1>1, <2>2 DEF Elems
  <2>4. ASSUME NEW i \in 1..Len(t) PROVE t[i] \in Elems(s \o t)
    BY <1>1, <2>1 DEF Elems
  <2>5. Elems(t) \subseteq Elems(s \o t)
    BY <2>4 DEF Elems
  <2> QED
    BY <2>3, <2>5
<1>3. Elems(s \o t) \subseteq Elems(s) \cup Elems(t)
  <2> SUFFICES ASSUME NEW i \in 1..Len(s \o t)
               PROVE  (s \o t)[i] \in Elems(s) \cup Elems(t)
    BY DEF Elems
  <2>1. CASE i \in 1..Len(s)
    BY <1>1, <2>1 DEF Elems
  <2>2. CASE i \notin 1..Len(s)
    <3>1. i - Len(s) \in 1..Len(t) /\ Len(s) + (i - Len(s)) = i
      BY <1>1, <2>2
    <3>2. (s \o t)[i] = t[i - Len(s)]
      BY <1>1, <3>1
    <3> QED
      BY <3>1, <3>2 DEF Elems
  <2> QED
    BY <2>1, <2>2
<1> QED
  BY <1>2, <1>3

LEMMA ReturnStepInv ==
  ASSUME TypeOK, EmitterInv, Return
  PROVE  EmitterInv'
<1> DEFINE M == {r \in exportEligible : nodes[r] # Nil /\ nodes[r].module}
<1>1. /\ UNCHANGED <<opts, nodes, publicationRoots, exportEligible, next,
                     resolved, delivered>>
      /\ phase = "results" /\ phase' = "done"
      /\ returned' = DedupResultRefs(results')
      /\ results' = IF opts.addModules THEN results \o ModuleRefs ELSE results
  BY DEF Return
<1>2. /\ Graph(nodes, results) /\ opts \in Option
      /\ Frontier \subseteq 1..Len(nodes) /\ Closed(Frontier)
      /\ publicationRoots \cup Elems(results) \subseteq Frontier
      /\ resolved \subseteq Frontier
      /\ \A x \in Frontier : nodes[x] # Nil /\ x \notin resolved => HasUnresolvedDeps(x)
      /\ Elems(results) \subseteq resolved
      /\ Live = resolved
      /\ ~opts.keepGoing => next = <<>>
  BY <1>1 DEF EmitterInv, GraphInv, LeftInv
<1>3. Elems(ModuleRefs) = M /\ ModuleRefs \in Seq(Ref)
  <2>1. M \in SUBSET (1..MaxNodes) /\ MaxNodes \in Nat
    BY RefFacts DEF TypeOK
  <2>2. ModuleRefs = Ascending(M)
    BY DEF ModuleRefs
  <2> HIDE DEF M
  <2>3. Ascending(M) \in Seq(M) /\ Elems(Ascending(M)) = M
    BY <2>1, AscendingFacts
  <2> QED
    BY <2>1, <2>2, <2>3, RefFacts, SeqMonotonic
<1>4. M \subseteq Live
  BY DEF Live
<1>5. Elems(results') = IF opts.addModules THEN Elems(results) \cup M ELSE Elems(results)
  <2>1. Elems(results \o ModuleRefs) = Elems(results) \cup Elems(ModuleRefs)
    BY <1>3, ConcatElems DEF TypeOK
  <2> QED
    BY <1>1, <1>3, <2>1
<1>6. Elems(results) \subseteq Elems(results') /\ Elems(results') \subseteq resolved
  BY <1>2, <1>4, <1>5
<1>7. \A r \in resolved : r \in 1..Len(nodes) /\ nodes[r] # Nil
  BY <1>2 DEF Live
<1>8. GraphInv'
  BY <1>1, <1>2, <1>6, <1>7 DEF GraphInv, Graph
<1>9. DeliveryInv'
  BY <1>1, DeliveryKept DEF EmitterInv
<1>10. /\ Live' = Live /\ Frontier' = Frontier
       /\ \A x : HasUnresolvedDeps(x)' <=> HasUnresolvedDeps(x)
  BY <1>1 DEF Live, Frontier, HasUnresolvedDeps
<1>11. LeftInv'
  <2>1. Closed(Frontier)'
    BY <1>1, <1>2, <1>10 DEF Closed
  <2>2. publicationRoots \cup Elems(results') \subseteq Frontier
    BY <1>2, <1>6
  <2> QED
    BY <1>1, <1>2, <1>6, <1>10, <2>1, <2>2 DEF LeftInv
<1>12. StripInv'
  <2> SUFFICES ASSUME opts.strip
               PROVE  /\ ~opts.addModules => \A r \in Elems(results') : ~nodes[r].package
                      /\ ~opts.keepGoing => {r \in 1..Len(nodes) : nodes[r] # Nil}
                                              = ReachableNodes(nodes, Elems(results'))
    BY <1>1 DEF StripInv
  <2>1. /\ ~opts.addModules => \A r \in Elems(results) : ~nodes[r].package
        /\ ~opts.keepGoing => {r \in 1..Len(nodes) : nodes[r] # Nil}
                                = ReachableNodes(nodes, Elems(results))
    BY <1>1 DEF EmitterInv, StripInv
  <2>2. ASSUME ~opts.keepGoing
        PROVE  ReachableNodes(nodes, Elems(results')) = ReachableNodes(nodes, Elems(results))
    <3> DEFINE N == ReachableNodes(nodes, Elems(results))
               R == ReachableNodes(nodes, Elems(results'))
    <3>1. /\ DOMAIN nodes = 1..Len(nodes)
          /\ \A x \in DOMAIN nodes : DepsIn(nodes, x) \subseteq DOMAIN nodes
      BY <1>2, DepsInside DEF TypeOK
    <3>2. /\ Elems(results') \in SUBSET DOMAIN nodes
          /\ Elems(results) \in SUBSET DOMAIN nodes
      BY <1>6, <1>7, <3>1
    <3>3. /\ N \in SUBSET DOMAIN nodes /\ \A x \in N : DepsIn(nodes, x) \subseteq N
          /\ R \in SUBSET DOMAIN nodes /\ \A x \in R : DepsIn(nodes, x) \subseteq R
          /\ Elems(results') \subseteq R
      BY <3>1, <3>2, ReachFacts, ReachableInside
    <3>4. Elems(results') \subseteq N
      BY <1>6, <1>7, <2>1, <2>2
    <3>5. R \subseteq N
      BY <3>1, <3>2, <3>3, <3>4, ReachFacts
    <3>6. N \subseteq R
      BY <1>6, <3>1, <3>2, <3>3, ReachFacts
    <3> QED
      BY <3>5, <3>6
  <2> QED
    BY <1>5, <2>1, <2>2
<1>13. ReturnInv'
  <2>1. results' \in Seq(Ref)
    BY TypeStep DEF TypeOK, Next
  <2>2. /\ Elems(returned') = Elems(results')
        /\ \A i, j \in 1..Len(returned') : returned'[i] = returned'[j] => i = j
    <3>1. PICK rs, d : rs = results' /\ d = DedupResultRefs(rs)
      OBVIOUS
    <3>2. Elems(d) = Elems(rs) /\ \A i, j \in 1..Len(d) : d[i] = d[j] => i = j
      BY <2>1, <3>1, DedupFacts
    <3> QED
      BY <1>1, <3>1, <3>2
  <2>3. opts.addModules => {r \in Live : nodes[r].module} \subseteq Elems(results')
    BY <1>5 DEF Live
  <2> QED
    BY <1>1, <1>10, <2>2, <2>3 DEF ReturnInv
<1> QED
  BY <1>1, <1>8, <1>9, <1>11, <1>12, <1>13 DEF EmitterInv, PassInv

LEMMA EmitterInvInit == Init => EmitterInv
<1> SUFFICES ASSUME Init PROVE EmitterInv
  OBVIOUS
<1>1. Elems(<<>>) = {} /\ Len(<<>>) = 0
  BY DEF Elems
<1>2. GraphInv
  BY <1>1 DEF Init, GraphInv, Graph
<1>3. DeliveryInv
  BY <1>1 DEF Init, DeliveryInv, DeliveredInOrder
<1> QED
  BY <1>2, <1>3 DEF Init, EmitterInv, PassInv, LeftInv, StripInv, ReturnInv

LEMMA EmitterInvStep == TypeOK /\ EmitterInv /\ [Next]_vars => EmitterInv'
<1> SUFFICES ASSUME TypeOK, EmitterInv, [Next]_vars PROVE EmitterInv'
  OBVIOUS
<1>1. CASE UNCHANGED vars
  <2>1. GraphInv' /\ DeliveryInv'
    BY <1>1, DeliveryKept DEF vars, EmitterInv, GraphInv, Graph
  <2>2. PassInv'
    <3>1. /\ Published' = Published /\ Live' = Live
          /\ \A x : HasUnresolvedDeps(x)' <=> HasUnresolvedDeps(x)
      BY <1>1 DEF vars, Published, Live, HasUnresolvedDeps
    <3>2. /\ UNCHANGED <<phase, exportEligible, pending, cursor, next, resolved>>
          /\ Elems(next)' = Elems(next) /\ Elems(pending)' = Elems(pending)
      BY <1>1 DEF vars, Elems
    <3>3. InPass => InPass'
      BY <3>1, <3>2 DEF InPass
    <3> QED
      BY <3>2, <3>3 DEF EmitterInv, PassInv
  <2>3. LeftInv'
    BY <1>1 DEF vars, EmitterInv, LeftInv, Frontier, Closed, Live, Published, HasUnresolvedDeps
  <2>4. StripInv' /\ ReturnInv'
    BY <1>1 DEF vars, EmitterInv, StripInv, ReturnInv, Live
  <2> QED
    BY <2>1, <2>2, <2>3, <2>4 DEF EmitterInv
<1> QED
  BY <1>1, GenStep, FinishInv, PassStepInv, NextPassInv, StuckInv, ReturnStepInv
  DEF Next, Finished

(* In every reachable state the passes account for every published node.   *)
THEOREM EmitterInvariant == Spec => [](TypeOK /\ EmitterInv)
<1> QED
  BY EmitterInvInit, EmitterInvStep, TypeCorrect, PTL DEF Spec

(* onNode is given every node after its dependencies, and once, for every  *)
(* graph and every order in which the generator filled its slots.          *)
THEOREM DeliveredInOrderHolds == Spec => []DeliveredInOrder
<1>1. EmitterInv => DeliveredInOrder
  BY DEF EmitterInv, DeliveryInv
<1> QED
  BY <1>1, EmitterInvariant, PTL

(* What finish returns has been delivered, has no repetition, and with     *)
(* --add-modules-to-results contains every module that was delivered.      *)
THEOREM ResultsDeliveredHolds == Spec => []ResultsDelivered
<1>1. EmitterInv => ResultsDelivered
  BY DEF EmitterInv, ResultsDelivered, ReturnInv, LeftInv, DeliveryInv
<1> QED
  BY <1>1, EmitterInvariant, PTL
-----------------------------------------------------------------------------
(***************************************************************************)
(* What can be delivered.                                                  *)
(***************************************************************************)
Above(x) == ReachableNodes(nodes, DepsIn(nodes, x))

LEMMA GraphFacts ==
  ASSUME TypeOK, GraphInv
  PROVE  /\ DOMAIN nodes = 1..Len(nodes) /\ Len(nodes) \in Nat
         /\ \A x \in DOMAIN nodes : DepsIn(nodes, x) \subseteq DOMAIN nodes
         /\ publicationRoots \cup Elems(results) \in SUBSET DOMAIN nodes
<1>1. Len(nodes) \in Nat
  BY DEF TypeOK
<1> QED
  BY <1>1, DepsInside DEF TypeOK, GraphInv

(* Nodes each of which needs another of them: one needs itself, as a node  *)
(* with the least needs cannot need one with fewer.                        *)
LEMMA WaitingIsCyclic ==
  ASSUME TypeOK, GraphInv, NEW U \in SUBSET DOMAIN nodes, U # {},
         \A x \in U : \E d \in DepsIn(nodes, x) : d \in U
  PROVE  \E x \in U : x \in Above(x)
<1> SUFFICES ASSUME \A x \in U : x \notin Above(x) PROVE FALSE
  OBVIOUS
<1>1. \A x \in U : IsFiniteSet(Above(x)) /\ Cardinality(Above(x)) \in Nat
  <2> SUFFICES ASSUME NEW x \in U
               PROVE  IsFiniteSet(Above(x)) /\ Cardinality(Above(x)) \in Nat
    OBVIOUS
  <2>1. Above(x) \in SUBSET (1..Len(nodes))
    BY GraphFacts, ReachableInside DEF Above
  <2> QED
    BY <2>1, GraphFacts, IndexSet
<1> DEFINE T == {Cardinality(Above(x)) : x \in U}
<1>2. T \in SUBSET Nat /\ T # {}
  BY <1>1
<1>3. PICK x \in U : \A y \in U : Cardinality(Above(x)) <= Cardinality(Above(y))
  <2> HIDE DEF T
  <2>1. PICK n \in T : \A m \in T : n <= m
    BY <1>2, LeastNat
  <2> QED
    BY <2>1 DEF T
<1>4. PICK d \in U : d \in DepsIn(nodes, x)
  OBVIOUS
<1>5. /\ DepsIn(nodes, x) \in SUBSET DOMAIN nodes
      /\ DepsIn(nodes, d) \in SUBSET DOMAIN nodes
      /\ \A y \in DOMAIN nodes : DepsIn(nodes, y) \subseteq DOMAIN nodes
  BY GraphFacts
<1>6. /\ DepsIn(nodes, x) \subseteq Above(x)
      /\ \A y \in Above(x) : DepsIn(nodes, y) \subseteq Above(x)
      /\ Above(x) \in SUBSET DOMAIN nodes
  BY <1>5, ReachFacts, ReachableInside DEF Above
<1>7. d \in Above(x) /\ DepsIn(nodes, d) \subseteq Above(x)
  BY <1>4, <1>6
<1>8. Above(d) \subseteq Above(x)
  BY <1>5, <1>6, <1>7, ReachFacts DEF Above
<1>9. Above(d) # Above(x)
  BY <1>4, <1>7
<1>10. Cardinality(Above(d)) < Cardinality(Above(x))
  BY <1>1, <1>8, <1>9, FS_Subset
<1> QED
  BY <1>1, <1>3, <1>10

LEMMA NeedsFacts ==
  ASSUME TypeOK, GraphInv, NEW r \in DOMAIN nodes
  PROVE  /\ r \in Needs(r) /\ Needs(r) \in SUBSET DOMAIN nodes
         /\ \A x \in Needs(r) : DepsIn(nodes, x) \subseteq Needs(r)
         /\ \A S \in SUBSET DOMAIN nodes : r \in S /\ Closed(S) => Needs(r) \subseteq S
<1>1. {r} \in SUBSET DOMAIN nodes
  OBVIOUS
<1> QED
  BY <1>1, GraphFacts, ReachFacts, ReachableInside DEF Needs, Closed

(* What has been delivered needs nothing that is missing or cyclic.        *)
LEMMA DeliveredIsDeliverable ==
  ASSUME TypeOK, GraphInv, DeliveryInv,
         \A x \in resolved : x \in DOMAIN nodes /\ nodes[x] # Nil
  PROVE  Closed(resolved) /\ \A r \in resolved : Deliverable(r)
<1>1. resolved = {delivered[i] : i \in 1..Len(delivered)} /\ Len(delivered) \in Nat
  BY DEF DeliveryInv, Elems, TypeOK
<1> DEFINE earlier(i) == {delivered[j] : j \in 1..(i - 1)}
<1>2. \A i \in 1..Len(delivered) : /\ DepsIn(nodes, delivered[i]) \subseteq earlier(i)
                                   /\ delivered[i] \notin earlier(i)
  BY <1>1 DEF DeliveryInv, DeliveredInOrder, DepsIn
<1>3. \A i \in 1..Len(delivered) :
        \A j \in 1..(i - 1) : j \in 1..Len(delivered) /\ \A k \in 1..(j - 1) : k \in 1..(i - 1)
  BY <1>1
<1>4. \A i \in 1..Len(delivered) : earlier(i) \subseteq resolved /\ Closed(earlier(i))
  <2> SUFFICES ASSUME NEW i \in 1..Len(delivered), NEW j \in 1..(i - 1)
               PROVE  /\ delivered[j] \in resolved
                      /\ DepsIn(nodes, delivered[j]) \subseteq earlier(i)
    BY DEF Closed
  <2>1. j \in 1..Len(delivered) /\ \A k \in 1..(j - 1) : k \in 1..(i - 1)
    BY <1>3
  <2>2. earlier(j) \subseteq earlier(i)
    BY <2>1
  <2>3. DepsIn(nodes, delivered[j]) \subseteq earlier(j)
    BY <1>2, <2>1
  <2> QED
    BY <1>1, <2>1, <2>2, <2>3
<1>5. Closed(resolved)
  BY <1>1, <1>2, <1>4 DEF Closed
<1>6. ASSUME NEW x \in resolved PROVE x \notin Above(x)
  <2>1. PICK i \in 1..Len(delivered) : x = delivered[i]
    BY <1>1
  <2>2. PICK S : S = earlier(i)
    OBVIOUS
  <2>3. /\ DepsIn(nodes, x) \subseteq S /\ x \notin S /\ S \subseteq resolved
        /\ \A y \in S : DepsIn(nodes, y) \subseteq S
    BY <1>2, <1>4, <2>1, <2>2 DEF Closed
  <2>4. S \in SUBSET DOMAIN nodes /\ DepsIn(nodes, x) \in SUBSET DOMAIN nodes
    BY <2>3
  <2>5. Above(x) \subseteq S
    BY <2>3, <2>4, GraphFacts, ReachFacts DEF Above
  <2> QED
    BY <2>3, <2>5
<1>7. ASSUME NEW r \in resolved PROVE Needs(r) \subseteq resolved
  <2>1. resolved \in SUBSET DOMAIN nodes /\ r \in DOMAIN nodes
    OBVIOUS
  <2> QED
    BY <1>5, <2>1, NeedsFacts
<1> QED
  BY <1>5, <1>6, <1>7 DEF Deliverable, Above

(* What is left over cannot be delivered.                                  *)
LEMMA LeftIsNotDeliverable ==
  ASSUME TypeOK, GraphInv, NEW F \in SUBSET DOMAIN nodes, Closed(F),
         \A x \in F : nodes[x] # Nil /\ x \notin resolved => HasUnresolvedDeps(x),
         NEW r \in F, r \notin resolved
  PROVE  ~Deliverable(r)
<1> SUFFICES ASSUME Deliverable(r) PROVE FALSE
  OBVIOUS
<1>1. /\ r \in Needs(r) /\ Needs(r) \in SUBSET DOMAIN nodes /\ Needs(r) \subseteq F
      /\ \A x \in Needs(r) : DepsIn(nodes, x) \subseteq Needs(r)
  BY NeedsFacts
<1> DEFINE U == Needs(r) \ resolved
<1>2. ASSUME NEW x \in U PROVE \E d \in DepsIn(nodes, x) : d \in U
  <2>1. nodes[x] # Nil
    BY DEF Deliverable
  <2>2. HasUnresolvedDeps(x)
    BY <1>1, <2>1
  <2>3. PICK d \in DepsIn(nodes, x) : d \notin resolved
    BY <2>1, <2>2 DEF HasUnresolvedDeps, DepsIn
  <2> QED
    BY <1>1, <2>3
<1>3. U \in SUBSET DOMAIN nodes /\ U # {}
  BY <1>1
<1> HIDE DEF U
<1>4. PICK x \in U : x \in Above(x)
  BY <1>2, <1>3, WaitingIsCyclic
<1> QED
  BY <1>4 DEF Deliverable, Above, U

LEMMA FinishIsExact == TypeOK /\ EmitterInv => FinishExact
<1> SUFFICES ASSUME TypeOK, EmitterInv, phase \in {"done", "thrown"} PROVE FinishExact
  BY DEF FinishExact
<1>1. GraphInv /\ DeliveryInv /\ resolved = Elems(delivered)
  BY DEF EmitterInv, DeliveryInv
<1>2. /\ Frontier \in SUBSET DOMAIN nodes /\ Closed(Frontier)
      /\ publicationRoots \cup Elems(results) \subseteq Frontier
      /\ \A x \in Frontier : nodes[x] # Nil /\ x \notin resolved => HasUnresolvedDeps(x)
  BY <1>1, GraphFacts DEF EmitterInv, LeftInv
<1>3. CASE phase = "done"
  <2>1. Live = resolved
    BY <1>3 DEF EmitterInv, LeftInv
  <2>2. \A x \in resolved : x \in DOMAIN nodes /\ nodes[x] # Nil
    BY <1>2, <2>1 DEF Live, Frontier
  <2>3. \A r \in resolved : Deliverable(r)
    BY <1>1, <2>2, DeliveredIsDeliverable
  <2>4. Published \subseteq Frontier
    BY <1>1, <1>2, GraphFacts, ReachFacts DEF Published, Closed
  <2>5. \A r \in Frontier : r \notin resolved => ~Deliverable(r)
    BY <1>1, <1>2, LeftIsNotDeliverable
  <2> QED
    BY <1>1, <1>3, <2>3, <2>4, <2>5 DEF FinishExact
<1>4. CASE phase = "thrown"
  <2>1. PICK r \in exportEligible : r \notin resolved
    BY <1>4 DEF EmitterInv, LeftInv, Live
  <2>2. r \in Published /\ r \in Frontier
    BY <1>4, <2>1 DEF EmitterInv, LeftInv, Frontier
  <2>3. ~Deliverable(r)
    BY <1>1, <1>2, <2>1, <2>2, LeftIsNotDeliverable
  <2> QED
    BY <1>4, <2>2, <2>3 DEF FinishExact
<1> QED
  BY <1>3, <1>4

(* finish delivers, of what is published, exactly the nodes that need no   *)
(* empty slot and no cycle, and throws only when some published node does; *)
(* for every graph, whatever order the passes met the nodes in.            *)
THEOREM FinishExactHolds == Spec => []FinishExact
<1> QED
  BY FinishIsExact, EmitterInvariant, PTL

LEMMA StripIsExact == TypeOK /\ EmitterInv => StripExact
<1> SUFFICES ASSUME TypeOK, EmitterInv, phase = "done", opts.strip PROVE StripExact
  BY DEF StripExact
<1> DEFINE needed == ReachableNodes(nodes, Elems(results))
<1>1. GraphInv /\ DeliveryInv /\ resolved = Elems(delivered)
  BY DEF EmitterInv, DeliveryInv
<1>2. /\ Live = resolved /\ Elems(results) \subseteq resolved
      /\ Frontier \in SUBSET DOMAIN nodes
  BY <1>1, GraphFacts DEF EmitterInv, LeftInv
<1>3. \A x \in resolved : x \in DOMAIN nodes /\ nodes[x] # Nil
  BY <1>2 DEF Live, Frontier
<1>4. Closed(resolved)
  BY <1>1, <1>3, DeliveredIsDeliverable
<1>5. resolved \in SUBSET DOMAIN nodes /\ Elems(results) \in SUBSET DOMAIN nodes
  BY <1>2, <1>3
<1>6. needed \subseteq resolved
  BY <1>1, <1>2, <1>4, <1>5, GraphFacts, ReachFacts DEF Closed
<1>7. ASSUME ~opts.keepGoing PROVE resolved \subseteq needed
  <2>1. {r \in 1..Len(nodes) : nodes[r] # Nil} = needed
    BY <1>7 DEF EmitterInv, StripInv
  <2> HIDE DEF needed
  <2> QED
    BY <1>1, <1>3, <2>1, GraphFacts
<1>8. ~opts.addModules => \A r \in Elems(returned) : ~nodes[r].package
  BY DEF EmitterInv, StripInv, ReturnInv
<1> QED
  BY <1>1, <1>6, <1>7, <1>8 DEF StripExact

(* --strip-packages-from-results: the results finish returns are not       *)
(* packages, all they need is delivered and, without -k, nothing else is,  *)
(* however much had been published before the strip.                       *)
THEOREM StripExactHolds == Spec => []StripExact
<1> QED
  BY StripIsExact, EmitterInvariant, PTL
=============================================================================
