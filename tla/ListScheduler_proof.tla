----------------------- MODULE ListScheduler_proof -----------------------
(*************************************************************************)
(* Proofs about listSchedule, for every set of graphs; and, in the end,  *)
(* that the graphs of traces are as the last of them suppose.            *)
(*************************************************************************)
EXTENDS ListScheduler, IR_proof, SequenceTheorems

(* Sequences: what Append, Tail and RemoveAt do to the set of elements.  *)
LEMMA AppendElements ==
    ASSUME NEW S, NEW s \in Seq(S), NEW x \in S
    PROVE  /\ Append(s, x) \in Seq(S)
           /\ Len(Append(s, x)) = Len(s) + 1
           /\ \A i \in 1..Len(s) : Append(s, x)[i] = s[i]
           /\ Append(s, x)[Len(s) + 1] = x
           /\ ToSet(Append(s, x)) = ToSet(s) \cup {x}
           /\ IsInjective(s) /\ x \notin ToSet(s) => IsInjective(Append(s, x))
<1>1. /\ Append(s, x) \in Seq(S)
      /\ Len(Append(s, x)) = Len(s) + 1
      /\ \A i \in 1..Len(s) : Append(s, x)[i] = s[i]
      /\ Append(s, x)[Len(s) + 1] = x
  OBVIOUS
<1>2. DOMAIN Append(s, x) = 1..(Len(s) + 1) /\ DOMAIN s = 1..Len(s)
  OBVIOUS
<1>3. ToSet(Append(s, x)) = ToSet(s) \cup {x}
  BY <1>1, <1>2 DEF ToSet
<1>4. IsInjective(s) /\ x \notin ToSet(s) => IsInjective(Append(s, x))
  BY <1>1, <1>2 DEF ToSet, IsInjective
<1> QED BY <1>1, <1>3, <1>4

(* Taking the head off a sequence takes one element off its set.         *)
LEMMA TailElements ==
    ASSUME NEW S, NEW s \in Seq(S), s /= <<>>
    PROVE  /\ Tail(s) \in Seq(S) /\ Head(s) \in S
           /\ ToSet(s) = ToSet(Tail(s)) \cup {Head(s)}
           /\ IsInjective(s) => IsInjective(Tail(s)) /\ Head(s) \notin ToSet(Tail(s))
<1>1. /\ Len(s) \in Nat \ {0} /\ Head(s) = s[1] /\ DOMAIN s = 1..Len(s)
      /\ Tail(s) \in Seq(S) /\ Head(s) \in S
      /\ DOMAIN Tail(s) = 1..(Len(s) - 1)
      /\ \A i \in 1..(Len(s) - 1) : Tail(s)[i] = s[i+1]
  OBVIOUS
<1>2. ToSet(s) \subseteq ToSet(Tail(s)) \cup {Head(s)}
  <2> SUFFICES ASSUME NEW i \in 1..Len(s) PROVE s[i] \in ToSet(Tail(s)) \cup {Head(s)}
    BY <1>1 DEF ToSet
  <2>1. CASE i = 1
    BY <2>1, <1>1
  <2>2. CASE i /= 1
    <3>1. i - 1 \in 1..(Len(s) - 1) /\ Tail(s)[i-1] = s[i]
      BY <2>2, <1>1
    <3> QED BY <3>1, <1>1 DEF ToSet
  <2> QED BY <2>1, <2>2
<1>3. ToSet(Tail(s)) \cup {Head(s)} \subseteq ToSet(s)
  BY <1>1 DEF ToSet
<1>4. IsInjective(s) => IsInjective(Tail(s)) /\ Head(s) \notin ToSet(Tail(s))
  BY <1>1 DEF ToSet, IsInjective
<1> QED BY <1>1, <1>2, <1>3, <1>4

(* The sequence readyQueue.erase leaves, position by position.           *)
LEMMA RemoveAtType ==
    ASSUME NEW S, NEW s \in Seq(S), NEW k \in 1..Len(s)
    PROVE  /\ RemoveAt(s, k) \in Seq(S)
           /\ DOMAIN RemoveAt(s, k) = 1..(Len(s) - 1)
           /\ \A i \in 1..(Len(s) - 1) :
                 RemoveAt(s, k)[i] = IF i < k THEN s[i] ELSE s[i+1]
<1> DEFINE r == RemoveAt(s, k)
           a == SubSeq(s, 1, k - 1)
           b == SubSeq(s, k + 1, Len(s))
<1>1. /\ a \in Seq(S) /\ Len(a) = k - 1
      /\ \A i \in 1..(k-1) : a[i] = s[i]
  BY SubSeqProperties
<1>2. /\ b \in Seq(S) /\ Len(b) = Len(s) - k
      /\ \A i \in 1..(Len(s) - k) : b[i] = s[i + k]
  BY SubSeqProperties
<1>3. r = a \o b
  BY DEF RemoveAt
<1> HIDE DEF a, b, r
<1>4. /\ r \in Seq(S) /\ Len(r) = Len(a) + Len(b)
      /\ \A i \in 1..(Len(a) + Len(b)) :
            r[i] = IF i <= Len(a) THEN a[i] ELSE b[i - Len(a)]
  BY <1>1, <1>2, <1>3, ConcatProperties
<1>5. Len(r) = Len(s) - 1
  BY <1>1, <1>2, <1>4
<1>6. ASSUME NEW i \in 1..(Len(s) - 1)
      PROVE  r[i] = IF i < k THEN s[i] ELSE s[i+1]
  <2>1. CASE i < k
    <3>1. i \in 1..(k-1) /\ i \in 1..(Len(a) + Len(b)) /\ i <= Len(a)
      BY <2>1, <1>1, <1>2
    <3>2. r[i] = a[i]
      BY <3>1, <1>4
    <3> QED BY <3>1, <3>2, <1>1, <2>1
  <2>2. CASE i >= k
    <3>1. i - (k-1) \in 1..(Len(s) - k) /\ ~(i <= k - 1)
      BY <2>2
    <3>2. r[i] = b[i - (k-1)]
      BY <3>1, <1>1, <1>2, <1>4
    <3> QED BY <3>1, <3>2, <1>2, <2>2
  <2> QED BY <2>1, <2>2
<1> QED BY <1>4, <1>5, <1>6 DEF r

(* It is a sequence over the same set.                                   *)
LEMMA RemoveAtInSeq ==
    ASSUME NEW S, NEW s \in Seq(S), NEW k \in 1..Len(s)
    PROVE  RemoveAt(s, k) \in Seq(S)
BY RemoveAtType

(* Erasing a position of an injective sequence erases its element.       *)
LEMMA RemoveAtElements ==
    ASSUME NEW S, NEW s \in Seq(S), NEW k \in 1..Len(s), IsInjective(s)
    PROVE  /\ IsInjective(RemoveAt(s, k))
           /\ ToSet(RemoveAt(s, k)) = ToSet(s) \ {s[k]}
<1> DEFINE r == RemoveAt(s, k)
<1>1. /\ DOMAIN r = 1..(Len(s) - 1) /\ DOMAIN s = 1..Len(s)
      /\ \A i \in 1..(Len(s) - 1) : r[i] = IF i < k THEN s[i] ELSE s[i+1]
  BY RemoveAtType
<1>2. IsInjective(r)
  <2> SUFFICES ASSUME NEW i \in 1..(Len(s) - 1), NEW j \in 1..(Len(s) - 1), r[i] = r[j]
               PROVE  i = j
    BY <1>1 DEF IsInjective
  <2>1. \A m, n \in 1..Len(s) : s[m] = s[n] => m = n
    BY <1>1 DEF IsInjective
  <2> HIDE DEF r
  <2> QED BY <1>1, <2>1
<1>3. ToSet(r) \subseteq ToSet(s) \ {s[k]}
  BY <1>1 DEF IsInjective, ToSet
<1>4. ToSet(s) \ {s[k]} \subseteq ToSet(r)
  <2> SUFFICES ASSUME NEW i \in 1..Len(s), s[i] /= s[k] PROVE s[i] \in ToSet(r)
    BY <1>1 DEF ToSet
  <2>1. CASE i < k
    BY <2>1, <1>1 DEF ToSet
  <2>2. CASE i > k
    <3>1. i - 1 \in 1..(Len(s) - 1) /\ r[i-1] = s[i]
      BY <2>2, <1>1
    <3> QED BY <3>1, <1>1 DEF ToSet
  <2> QED BY <2>1, <2>2
<1> QED BY <1>1, <1>2, <1>3, <1>4
-----------------------------------------------------------------------------
(* A sequence has finitely many elements.                                *)
LEMMA SequenceElementsFinite ==
    ASSUME NEW S, NEW s \in Seq(S)
    PROVE  IsFiniteSet(ToSet(s))
<1>1. IsFiniteSet(1..Len(s))
  BY FS_Interval
<1>2. s \in Surjection(1..Len(s), ToSet(s))
  BY DEF Surjection, ToSet
<1> QED BY <1>1, <1>2, FS_Surjection

(* They are the values at its positions.                                 *)
LEMMA SequenceElements ==
    ASSUME NEW S, NEW s \in Seq(S)
    PROVE  /\ ToSet(s) = {s[i] : i \in 1..Len(s)}
           /\ ToSet(s) \subseteq S
BY DEF ToSet

(* What a graph in Graphs guarantees, and that its sets are finite.      *)
LEMMA GraphFacts ==
    ASSUME NEW g \in Graphs
    PROVE  /\ IsGraph(g)
           /\ IsFiniteSet(NodesOf(g))
           /\ \A n \in NodesOf(g) : PredsOf(g, n) \subseteq NodesOf(g)
           /\ \A n \in NodesOf(g) : IsFiniteSet(PredsOf(g, n))
<1>1. IsGraph(g)
  BY GraphsAssumption
<1>2. IsFiniteSet(NodesOf(g))
  BY <1>1, SequenceElementsFinite DEF IsGraph, NodesOf
<1>3. \A n \in NodesOf(g) : PredsOf(g, n) \subseteq NodesOf(g)
  BY DEF PredsOf
<1> QED BY <1>1, <1>2, <1>3, FS_Subset

(* updateLiveSet keeps the live set within the values.                   *)
LEMMA LiveAfterType ==
    ASSUME NEW g \in Graphs, NEW n \in NodesOf(g), NEW live \in SUBSET Value, IsFiniteSet(live)
    PROVE  /\ LiveAfter(g, n, live) \subseteq Value
           /\ IsFiniteSet(LiveAfter(g, n, live))
           /\ Cardinality(LiveAfter(g, n, live)) \in Nat
<1>1. LiveAfter(g, n, live) \subseteq Value
  BY GraphFacts DEF IsGraph, LiveAfter
<1>2. IsFiniteSet(live \cup g.result[n])
  BY GraphFacts, FS_Union DEF IsGraph
<1>3. LiveAfter(g, n, live) \subseteq live \cup g.result[n]
  BY DEF LiveAfter
<1> QED BY <1>1, <1>2, <1>3, FS_Subset, FS_CardinalityType

(* The state in which the two loops of a call begin, whatever pressure   *)
(* earlier calls have reached.                                           *)
Starts ==
    /\ graph \in Graphs
    /\ usePressure \in BOOLEAN
    /\ pc = "leaves"
    /\ worklist = graph.nodes
    /\ predCount = [n \in NodesOf(graph) |-> Cardinality(PredsOf(graph, n))]
    /\ readyQueue = <<>>
    /\ currentLive = graph.live
    /\ schedule = <<>>
    /\ peak \in Nat

(* The first call starts in such a state.                                *)
LEMMA InitStarts == Init => Starts
<1> SUFFICES ASSUME Init PROVE Starts
  OBVIOUS
<1>1. IsGraph(graph)
  BY GraphFacts DEF Init
<1>2. peak \in Nat
  BY <1>1, FS_CardinalityType DEF Init, IsGraph
<1> QED BY <1>2 DEF Init, Starts

(* A call starts well typed.                                             *)
LEMMA StartTypeOK == Starts => TypeOK
<1> SUFFICES ASSUME Starts PROVE TypeOK
  OBVIOUS
<1>1. IsGraph(graph) /\ \A n \in NodesOf(graph) : IsFiniteSet(PredsOf(graph, n))
  BY GraphFacts DEF Starts
<1>2. predCount \in [NodesOf(graph) -> Int]
  BY <1>1, FS_CardinalityType DEF Starts
<1> QED BY <1>1, <1>2 DEF Starts, TypeOK, StateOK, IsGraph

(* No step of it breaks a type.                                          *)
LEMMA TypeStep == TypeOK /\ [Next]_vars => TypeOK'
<1> SUFFICES ASSUME TypeOK, [Next]_vars PROVE TypeOK'
  OBVIOUS
<1>1. IsGraph(graph)
  BY GraphFacts DEF TypeOK, StateOK
<1>2. CASE CollectLeaf
  <2>1. Head(worklist) \in NodesOf(graph) /\ Tail(worklist) \in Seq(NodesOf(graph))
    BY <1>2, TailElements DEF TypeOK, StateOK, CollectLeaf
  <2>2. Enqueued(Head(worklist)) \in Seq(NodesOf(graph))
    BY <2>1, AppendElements DEF TypeOK, StateOK, Enqueued
  <2> QED BY <1>2, <2>1, <2>2 DEF TypeOK, StateOK, CollectLeaf
<1>3. CASE Pick
  <2> PICK k \in 1..Len(readyQueue) :
          /\ schedule' = Append(schedule, readyQueue[k])
          /\ readyQueue' = RemoveAt(readyQueue, k)
          /\ currentLive' = LiveAfter(graph, readyQueue[k], currentLive)
          /\ worklist' = graph.succ[readyQueue[k]]
    BY <1>3 DEF Pick
  <2>1. readyQueue[k] \in NodesOf(graph)
    BY DEF TypeOK, StateOK
  <2>2. schedule' \in Seq(NodesOf(graph)) /\ worklist' \in Seq(NodesOf(graph))
    <3>1. schedule \in Seq(NodesOf(graph))
      BY DEF TypeOK, StateOK
    <3>2. Append(schedule, readyQueue[k]) \in Seq(NodesOf(graph))
      BY <3>1, <2>1, AppendElements
    <3>3. graph.succ[readyQueue[k]] \in Seq(NodesOf(graph))
      BY <2>1, <1>1 DEF IsGraph
    <3> QED BY <3>2, <3>3
  <2>3. readyQueue' \in Seq(NodesOf(graph))
    <3>1. readyQueue \in Seq(NodesOf(graph))
      BY DEF TypeOK, StateOK
    <3>2. RemoveAt(readyQueue, k) \in Seq(NodesOf(graph))
      BY <3>1, RemoveAtInSeq
    <3> QED BY <3>2
  <2>4. /\ currentLive' \subseteq Value /\ IsFiniteSet(currentLive')
        /\ Cardinality(currentLive') \in Nat
    BY <2>1, LiveAfterType DEF TypeOK, StateOK
  <2> QED BY <1>3, <2>2, <2>3, <2>4 DEF TypeOK, StateOK, Pick, Larger
<1>4. CASE Release
  <2>1. Head(worklist) \in NodesOf(graph) /\ Tail(worklist) \in Seq(NodesOf(graph))
    BY <1>4, TailElements DEF TypeOK, StateOK, Release
  <2>2. Enqueued(Head(worklist)) \in Seq(NodesOf(graph))
    BY <2>1, AppendElements DEF TypeOK, StateOK, Enqueued
  <2> QED BY <1>4, <2>1, <2>2 DEF TypeOK, StateOK, Release
<1>5. CASE Return
  BY <1>5 DEF TypeOK, StateOK, Return
<1>6. CASE UNCHANGED vars
  BY <1>6 DEF TypeOK, StateOK, vars
<1> QED BY <1>2, <1>3, <1>4, <1>5, <1>6 DEF Next

(* Every variable keeps its type.                                        *)
THEOREM TypeCorrect == Spec => []TypeOK
BY InitStarts, StartTypeOK, TypeStep, PTL DEF Spec
-----------------------------------------------------------------------------
(* The inductive invariant, one lemma per step of listSchedule.          *)
LEMMA StartIInv == Starts => IInv
<1> SUFFICES ASSUME Starts PROVE IInv
  OBVIOUS
<1>0. TypeOK
  BY StartTypeOK
<1>1. IsGraph(graph) /\ graph \in Graphs
  BY <1>0, GraphFacts DEF TypeOK, StateOK
<1>2. Scheduled = {} /\ ToSet(readyQueue) = {} /\ ToSet(worklist) = NodesOf(graph)
  BY DEF Starts, Scheduled, ToSet, NodesOf
<1>3. PredCountExact
  <2> SUFFICES ASSUME NEW n \in NodesOf(graph)
               PROVE  predCount[n] = Cardinality(Unscheduled(n))
    <3>1. pc /= "release"
      BY DEF Starts
    <3> DEFINE c(n) == Cardinality(Unscheduled(n))
    <3>2. \A n \in NodesOf(graph) : c(n) \in Nat
      BY <1>1, <1>2, GraphFacts, FS_CardinalityType DEF Unscheduled
    <3> QED BY <3>1, <3>2 DEF PredCountExact
  <2>1. Unscheduled(n) = PredsOf(graph, n)
    BY <1>2 DEF Unscheduled
  <2> QED BY <2>1 DEF Starts
<1>4. QueueInv
  BY <1>1, <1>2 DEF QueueInv, IsGraph, Starts, IsInjective
<1>5. WorklistInv
  BY <1>1, <1>2 DEF WorklistInv, IsGraph, Starts
<1>6. ScheduleInv /\ DependenceOrder
  BY <1>2 DEF ScheduleInv, DependenceOrder, Starts, IsInjective
<1> QED BY <1>0, <1>3, <1>4, <1>5, <1>6 DEF IInv, CallInv

(* A node counted at zero has no unscheduled predecessor, and one that   *)
(* the inner loop has still to visit is not at zero.                     *)
LEMMA CountFacts ==
    ASSUME TypeOK, PredCountExact, NEW n \in NodesOf(graph)
    PROVE  /\ IsFiniteSet(Unscheduled(n)) /\ Cardinality(Unscheduled(n)) \in Nat
           /\ predCount[n] = 0 => Unscheduled(n) = {}
           /\ pc = "release" /\ n \in ToSet(worklist) => predCount[n] >= 1
<1>1. IsFiniteSet(Unscheduled(n)) /\ Cardinality(Unscheduled(n)) \in Nat
  BY GraphFacts, FS_Subset, FS_CardinalityType DEF TypeOK, StateOK, Unscheduled
<1>2. predCount[n] = 0 => Unscheduled(n) = {}
  BY <1>1, FS_EmptySet DEF PredCountExact
<1> QED BY <1>1, <1>2 DEF PredCountExact

(* push_back of a node that is not queued queues it once.                *)
LEMMA EnqueuedElements ==
    ASSUME TypeOK, IsInjective(readyQueue),
           NEW n \in NodesOf(graph), n \notin ToSet(readyQueue)
    PROVE  /\ IsInjective(Enqueued(n))
           /\ ToSet(Enqueued(n)) = IF n \in graph.movable
                                   THEN ToSet(readyQueue) \cup {n} ELSE ToSet(readyQueue)
<1>1. CASE n \in graph.movable
  <2>1. Enqueued(n) = Append(readyQueue, n)
    BY <1>1 DEF Enqueued
  <2>2. readyQueue \in Seq(NodesOf(graph))
    BY DEF TypeOK, StateOK
  <2> QED BY <1>1, <2>1, <2>2, AppendElements
<1>2. CASE n \notin graph.movable
  BY <1>2 DEF Enqueued
<1> QED BY <1>1, <1>2

(* A step that leaves the schedule alone cannot disturb what is said of it.*)
LEMMA SameSchedule ==
    ASSUME ScheduleInv, DependenceOrder, schedule' = schedule, graph' = graph
    PROVE  ScheduleInv' /\ DependenceOrder'
<1> DEFINE Respects(g, s) ==
        \A i \in 1..Len(s) : PredsOf(g, s[i]) \subseteq {s[j] : j \in 1..(i-1)}
           Sound(g, s) == IsInjective(s) /\ ToSet(s) \subseteq g.movable
<1>1. Respects(graph, schedule) /\ Sound(graph, schedule)
  BY DEF DependenceOrder, ScheduleInv, Scheduled
<1>2. Respects(graph', schedule') /\ Sound(graph', schedule')
  <2> HIDE DEF Respects, Sound
  <2> QED BY <1>1
<1> QED BY <1>2 DEF DependenceOrder, ScheduleInv, Scheduled

(* The first loop, which queues the leaves, preserves the invariant.     *)
LEMMA CollectLeafIInv == IInv /\ TypeOK' /\ CollectLeaf => IInv'
<1> SUFFICES ASSUME IInv, TypeOK', CollectLeaf PROVE IInv'
  OBVIOUS
<1> DEFINE h == Head(worklist)
<1>1. /\ h \in NodesOf(graph) /\ h \notin ToSet(worklist')
      /\ ToSet(worklist) = ToSet(worklist') \cup {h} /\ IsInjective(worklist')
  BY TailElements DEF IInv, CallInv, TypeOK, StateOK, WorklistInv, CollectLeaf
<1>2. schedule = <<>> /\ Scheduled = {} /\ Scheduled' = {} /\ h \notin ToSet(readyQueue)
  <2>1. schedule = <<>> /\ schedule' = schedule /\ ToSet(worklist) \cap ToSet(readyQueue) = {}
    BY DEF IInv, CallInv, WorklistInv, CollectLeaf
  <2>2. ToSet(schedule) = {}
    BY <2>1 DEF ToSet
  <2>3. h \notin ToSet(readyQueue)
    BY <1>1, <2>1
  <2> QED BY <2>1, <2>2, <2>3 DEF Scheduled
<1>3. /\ ToSet(readyQueue') = IF predCount[h] = 0 /\ h \in graph.movable
                              THEN ToSet(readyQueue) \cup {h} ELSE ToSet(readyQueue)
      /\ IsInjective(readyQueue')
  BY <1>1, <1>2, EnqueuedElements DEF IInv, CallInv, QueueInv, CollectLeaf
<1>4. PredCountExact'
  BY DEF IInv, CallInv, PredCountExact, CollectLeaf, Unscheduled, Scheduled
<1>5. QueueInv'
  BY <1>1, <1>2, <1>3 DEF IInv, CallInv, QueueInv, CollectLeaf
<1>6. WorklistInv'
  BY <1>1, <1>2, <1>3 DEF IInv, CallInv, WorklistInv, CollectLeaf
<1>7. ScheduleInv' /\ DependenceOrder'
  BY SameSchedule DEF IInv, CallInv, CollectLeaf
<1> QED BY <1>4, <1>5, <1>6, <1>7 DEF IInv, CallInv

(* So does a decrement of the inner loop.                                *)
LEMMA ReleaseIInv == IInv /\ TypeOK' /\ Release => IInv'
<1> SUFFICES ASSUME IInv, TypeOK', Release PROVE IInv'
  OBVIOUS
<1> DEFINE h == Head(worklist)
<1>1. /\ h \in NodesOf(graph) /\ h \notin ToSet(worklist')
      /\ ToSet(worklist) = ToSet(worklist') \cup {h} /\ IsInjective(worklist')
  BY TailElements DEF IInv, CallInv, TypeOK, StateOK, WorklistInv, Release
<1>2. Scheduled' = Scheduled /\ \A n : Unscheduled(n)' = Unscheduled(n)
  BY DEF Release, Scheduled, Unscheduled
<1>3. predCount[h] \in Int /\ predCount[h] >= 1
  BY <1>1, CountFacts DEF IInv, CallInv, Release, TypeOK, StateOK
<1>4. h \notin ToSet(readyQueue) /\ h \notin Scheduled
  BY <1>1, <1>3 DEF IInv, CallInv, QueueInv
<1>5. /\ predCount'[h] = predCount[h] - 1
      /\ \A n \in NodesOf(graph) \ {h} : predCount'[n] = predCount[n]
  BY <1>1 DEF IInv, CallInv, TypeOK, StateOK, Release
<1>6. /\ ToSet(readyQueue') = IF predCount'[h] = 0 /\ h \in graph.movable
                              THEN ToSet(readyQueue) \cup {h} ELSE ToSet(readyQueue)
      /\ IsInjective(readyQueue')
  <2>1. predCount[h] = 1 <=> predCount'[h] = 0
    BY <1>3, <1>5
  <2> QED BY <1>1, <1>4, <2>1, EnqueuedElements DEF IInv, CallInv, QueueInv, Release
<1>7. PredCountExact'
  <2> SUFFICES ASSUME NEW n \in NodesOf(graph)
               PROVE  predCount'[n] = Cardinality(Unscheduled(n))
                                      + (IF n \in ToSet(worklist') THEN 1 ELSE 0)
    BY <1>2 DEF PredCountExact, Release
  <2>1. Cardinality(Unscheduled(n)) \in Nat
    BY CountFacts DEF IInv, CallInv
  <2>2. predCount[n] = Cardinality(Unscheduled(n)) + (IF n \in ToSet(worklist) THEN 1 ELSE 0)
    BY DEF IInv, CallInv, PredCountExact, Release
  <2> QED BY <1>1, <1>5, <2>1, <2>2
<1>8. QueueInv'
  <2>1. graph.movable \subseteq NodesOf(graph)
    BY GraphFacts DEF IInv, CallInv, TypeOK, StateOK, IsGraph
  <2>2. ToSet(readyQueue) \cup Scheduled \subseteq NodesOf(graph) \ {h}
    BY <1>4, <2>1 DEF IInv, CallInv, QueueInv, ScheduleInv
  <2>3. \A n \in ToSet(readyQueue') \cup Scheduled' : predCount'[n] = 0
    BY <1>2, <1>5, <1>6, <2>2 DEF IInv, CallInv, QueueInv
  <2>4. \A n \in graph.movable : predCount'[n] = 0 => n \in ToSet(readyQueue') \cup Scheduled'
    BY <1>2, <1>5, <1>6, <2>1 DEF IInv, CallInv, QueueInv, Release
  <2>5. ToSet(readyQueue') \subseteq graph.movable \ Scheduled'
    BY <1>2, <1>4, <1>6 DEF IInv, CallInv, QueueInv
  <2> QED BY <1>6, <2>3, <2>4, <2>5 DEF QueueInv, Release
<1>9. WorklistInv'
  BY <1>1 DEF IInv, CallInv, WorklistInv, Release
<1>10. ScheduleInv' /\ DependenceOrder'
  BY SameSchedule DEF IInv, CallInv, Release
<1> QED BY <1>7, <1>8, <1>9, <1>10 DEF IInv, CallInv

(* So does a pick.                                                       *)
LEMMA PickIInv == IInv /\ TypeOK' /\ Pick => IInv'
<1> SUFFICES ASSUME IInv, TypeOK', Pick PROVE IInv'
  OBVIOUS
<1> PICK k \in 1..Len(readyQueue) :
        /\ schedule' = Append(schedule, readyQueue[k])
        /\ readyQueue' = RemoveAt(readyQueue, k)
        /\ worklist' = graph.succ[readyQueue[k]]
  BY DEF Pick
<1> DEFINE b == readyQueue[k]
<1>1. b \in NodesOf(graph) /\ b \in ToSet(readyQueue)
  BY DEF IInv, CallInv, TypeOK, StateOK, ToSet
<1>2. /\ b \notin Scheduled /\ b \in graph.movable /\ predCount[b] = 0
      /\ Unscheduled(b) = {}
  BY <1>1, CountFacts DEF IInv, CallInv, QueueInv
<1>3. /\ Scheduled' = Scheduled \cup {b} /\ IsInjective(schedule')
      /\ Len(schedule') = Len(schedule) + 1 /\ schedule'[Len(schedule) + 1] = b
      /\ \A i \in 1..Len(schedule) : schedule'[i] = schedule[i]
  BY <1>1, <1>2, AppendElements DEF IInv, CallInv, TypeOK, StateOK, ScheduleInv, Scheduled
<1>4. ToSet(readyQueue') = ToSet(readyQueue) \ {b} /\ IsInjective(readyQueue')
  BY RemoveAtElements DEF IInv, CallInv, TypeOK, StateOK, QueueInv
<1>5. IsGraph(graph) /\ graph' = graph /\ pc' = "release" /\ predCount' = predCount
  BY GraphFacts DEF IInv, CallInv, TypeOK, StateOK, Pick
<1>6. ToSet(worklist) = {}
  BY DEF Pick, ToSet
<1>7. PredCountExact'
  <2> SUFFICES ASSUME NEW n \in NodesOf(graph)
               PROVE  predCount[n] = Cardinality(Unscheduled(n)')
                                     + (IF n \in ToSet(worklist') THEN 1 ELSE 0)
    BY <1>5 DEF PredCountExact
  <2>1. Unscheduled(n)' = Unscheduled(n) \ {b}
    BY <1>3, <1>5 DEF Unscheduled
  <2>2. IsFiniteSet(Unscheduled(n)) /\ Cardinality(Unscheduled(n)) \in Nat
    BY CountFacts DEF IInv, CallInv
  <2>3. predCount[n] = Cardinality(Unscheduled(n))
    BY <1>6, <2>2 DEF IInv, CallInv, PredCountExact
  <2>4. n \in ToSet(worklist') <=> b \in Unscheduled(n)
    BY <1>1, <1>2 DEF Unscheduled, PredsOf
  <2>5. Cardinality(Unscheduled(n)') =
            IF b \in Unscheduled(n) THEN Cardinality(Unscheduled(n)) - 1
                                    ELSE Cardinality(Unscheduled(n))
    BY <2>1, <2>2, FS_RemoveElement
  <2> QED BY <2>2, <2>3, <2>4, <2>5
<1>8. QueueInv'
  BY <1>2, <1>3, <1>4, <1>5, <1>6 DEF IInv, CallInv, QueueInv, Pick
<1>9. WorklistInv'
  BY <1>1, <1>5 DEF WorklistInv, IsGraph
<1>10. ScheduleInv'
  BY <1>2, <1>3, <1>5 DEF IInv, CallInv, ScheduleInv
<1>11. DependenceOrder'
  <2> SUFFICES ASSUME NEW i \in 1..(Len(schedule) + 1)
               PROVE  PredsOf(graph, schedule'[i]) \subseteq {schedule'[j] : j \in 1..(i-1)}
    BY <1>3, <1>5 DEF DependenceOrder
  <2>0. Len(schedule) \in Nat
    BY DEF IInv, CallInv, TypeOK, StateOK
  <2>1. CASE i = Len(schedule) + 1
    <3>1. PredsOf(graph, b) \subseteq Scheduled
      BY <1>2 DEF Unscheduled
    <3>2. Scheduled = {schedule'[j] : j \in 1..Len(schedule)}
      <4>1. Scheduled = {schedule[j] : j \in 1..Len(schedule)}
        BY SequenceElements DEF Scheduled, IInv, CallInv, TypeOK, StateOK
      <4> QED BY <4>1, <1>3
    <3> QED BY <2>0, <2>1, <3>1, <3>2, <1>3
  <2>2. CASE i \in 1..Len(schedule)
    <3>1. PredsOf(graph, schedule[i]) \subseteq {schedule[j] : j \in 1..(i-1)}
      BY <2>2 DEF IInv, CallInv, DependenceOrder
    <3>2. \A j \in 1..(i-1) : schedule'[j] = schedule[j]
      BY <2>0, <2>2, <1>3
    <3>3. schedule'[i] = schedule[i]
      BY <2>2, <1>3
    <3> QED BY <3>1, <3>2, <3>3
  <2>3. i = Len(schedule) + 1 \/ i \in 1..Len(schedule)
    BY <2>0
  <2> QED BY <2>1, <2>2, <2>3
<1> QED BY <1>7, <1>8, <1>9, <1>10, <1>11 DEF IInv, CallInv

(* So do the return and stuttering.                                      *)
LEMMA ReturnIInv == IInv /\ TypeOK' /\ (Return \/ UNCHANGED vars) => IInv'
<1> SUFFICES ASSUME IInv, TypeOK', Return \/ UNCHANGED vars PROVE IInv'
  OBVIOUS
<1>1. CASE Return
  <2>1. ToSet(worklist) = {}
    BY <1>1 DEF Return, ToSet
  <2>2. Scheduled' = Scheduled /\ \A n : Unscheduled(n)' = Unscheduled(n)
    BY <1>1 DEF Return, Scheduled, Unscheduled
  <2>3. PredCountExact'
    BY <1>1, <2>1, <2>2 DEF IInv, CallInv, PredCountExact, Return
  <2>4. QueueInv' /\ WorklistInv'
    BY <1>1, <2>1, <2>2 DEF IInv, CallInv, QueueInv, WorklistInv, Return
  <2>5. ScheduleInv' /\ DependenceOrder'
    BY <1>1, SameSchedule DEF IInv, CallInv, Return
  <2> QED BY <2>3, <2>4, <2>5 DEF IInv, CallInv
<1>2. CASE UNCHANGED vars
  <2>1. ScheduleInv' /\ DependenceOrder'
    BY <1>2, SameSchedule DEF IInv, CallInv, vars
  <2>2. PredCountExact' /\ QueueInv' /\ WorklistInv'
    BY <1>2 DEF IInv, CallInv, PredCountExact, QueueInv, WorklistInv, vars, Scheduled, Unscheduled
  <2> QED BY <2>1, <2>2 DEF IInv, CallInv
<1> QED BY <1>1, <1>2

(* So every step does.                                                   *)
LEMMA IInvStep == IInv /\ [Next]_vars => IInv'
<1> SUFFICES ASSUME IInv, [Next]_vars PROVE IInv'
  OBVIOUS
<1>1. TypeOK'
  BY TypeStep DEF IInv, CallInv
<1> QED BY <1>1, CollectLeafIInv, PickIInv, ReleaseIInv, ReturnIInv DEF Next

(* The queue, the counts and the schedule of listSchedule stay tied      *)
(* together by the invariant, whatever step it takes.                    *)
THEOREM InductiveInvariant == Spec => []IInv
BY InitStarts, StartIInv, IInvStep, PTL DEF Spec

(* predCount counts the predecessors still unscheduled.                  *)
THEOREM PredCountCorrect == Spec => []PredCountExact
<1>1. IInv => PredCountExact
  BY DEF IInv, CallInv
<1> QED BY <1>1, InductiveInvariant, PTL

(* Every schedule listSchedule builds respects every edge of its graph,  *)
(* cyclic graphs and PHI nodes included.                                 *)
THEOREM ScheduleRespectsDependences == Spec => []DependenceOrder
<1>1. IInv => DependenceOrder
  BY DEF IInv, CallInv
<1> QED BY <1>1, InductiveInvariant, PTL

(* Between two picks the queue holds exactly the nodes that are ready.   *)
THEOREM ReadyQueueCorrect == Spec => []ReadyQueueExact
<1>1. IInv => ReadyQueueExact
  <2> SUFFICES ASSUME IInv, worklist = <<>>
               PROVE  /\ IsInjective(readyQueue)
                      /\ ToSet(readyQueue) =
                            {n \in graph.movable \ Scheduled : Unscheduled(n) = {}}
    BY DEF ReadyQueueExact
  <2>1. graph.movable \subseteq NodesOf(graph) /\ ToSet(worklist) = {}
    BY GraphFacts DEF IInv, CallInv, TypeOK, StateOK, IsGraph, ToSet
  <2>2. \A n \in graph.movable : predCount[n] = 0 <=> Unscheduled(n) = {}
    BY <2>1, CountFacts, FS_EmptySet DEF IInv, CallInv, PredCountExact
  <2> QED BY <2>1, <2>2 DEF IInv, CallInv, QueueInv
<1> QED BY <1>1, InductiveInvariant, PTL
-----------------------------------------------------------------------------
(* NeverReady has the nodes that are never queued, and what waits for it.*)
LEMMA NeverReadyIs ==
    ASSUME NEW g, \A n \in NodesOf(g) : ToSet(g.succ[n]) \subseteq NodesOf(g)
    PROVE  /\ NeverReady(g) \subseteq NodesOf(g)
           /\ NodesOf(g) \ g.movable \subseteq NeverReady(g)
           /\ \A n \in NeverReady(g) : ToSet(g.succ[n]) \subseteq NeverReady(g)
BY DEF NeverReady

(* It is well named: nothing in it is ever queued, or scheduled.         *)
LEMMA NeverReadyIsNeverReady ==
    IInv => (ToSet(readyQueue) \cup Scheduled) \cap NeverReady(graph) = {}
<1> SUFFICES ASSUME IInv
             PROVE  (ToSet(readyQueue) \cup Scheduled) \cap NeverReady(graph) = {}
  OBVIOUS
<1> DEFINE N == NodesOf(graph)
           S == ToSet(readyQueue) \cup Scheduled
           C == N \ S
<1>1. TypeOK /\ PredCountExact /\ QueueInv /\ ScheduleInv /\ graph \in Graphs
  BY DEF IInv, CallInv, TypeOK
<1>2. IsGraph(graph) /\ \A n \in N : ToSet(graph.succ[n]) \subseteq N
  <2>1. IsGraph(graph)
    BY <1>1, GraphFacts
  <2>2. \A n \in N : graph.succ[n] \in Seq(N)
    BY <2>1 DEF IsGraph
  <2> QED BY <2>1, <2>2, SequenceElements
<1>3. N \ graph.movable \subseteq C
  BY <1>1 DEF QueueInv, ScheduleInv
<1>4. ASSUME NEW m \in C, NEW s \in ToSet(graph.succ[m]) PROVE s \in C
  <2>1. s \in N /\ m \in N
    BY <1>2
  <2>2. s \in S => predCount[s] = 0
    BY <1>1 DEF QueueInv
  <2>3. predCount[s] = 0 => Unscheduled(s) = {}
    BY <1>1, <2>1, CountFacts
  <2>4. m \in Unscheduled(s)
    BY <2>1 DEF Unscheduled, PredsOf
  <2> QED BY <2>1, <2>2, <2>3, <2>4
<1>5. C \in SUBSET N /\ \A m \in C : ToSet(graph.succ[m]) \subseteq C
  BY <1>4
<1>6. \A n \in NeverReady(graph) : n \in C
  <2> HIDE DEF C
  <2> QED BY <1>3, <1>5 DEF NeverReady
<1> QED BY <1>6

(* Critical paths decrease along the edges between nodes that can get    *)
(* ready; into a PHI, around a loop, they need not.                      *)
ReadyEdgesDescend(g) ==
    \A n \in NodesOf(g) \ NeverReady(g) :
        \A s \in ToSet(g.succ[n]) \ NeverReady(g) : g.cp[s] < g.cp[n]

(* Urgency.  With critical paths that decrease along the edges, greedy   *)
(* picking yields a schedule that is sorted by critical path.            *)
LEMMA UrgencyStep ==
    ASSUME HasCriticalPaths(graph), ReadyEdgesDescend(graph),
           TypeOK, TypeOK', IInv, IInv', UrgencyInv, [Next]_vars
    PROVE  UrgencyInv'
<1>0. /\ IsGraph(graph) /\ HasCriticalPaths(graph) /\ ReadyEdgesDescend(graph)
      /\ Len(schedule) \in Nat
  BY GraphFacts DEF TypeOK, StateOK
<1> DEFINE never == NeverReady(graph)
<1>6. graph' = graph
  BY DEF Next, CollectLeaf, Pick, Release, Return, vars
<1>7. ToSet(readyQueue) \cap never = {} /\ ToSet(readyQueue') \cap never = {}
  <2>1. IInv' => ((ToSet(readyQueue) \cup Scheduled) \cap NeverReady(graph) = {})'
    BY NeverReadyIsNeverReady, PTL
  <2>2. ToSet(readyQueue') \cap NeverReady(graph') = {}
    BY <2>1
  <2> QED BY <1>6, <2>2, NeverReadyIsNeverReady
<1>8. NeverReady(graph') = never
  BY <1>6
<1> HIDE DEF never
<1>1. CASE CollectLeaf
  <2>1. schedule = <<>> /\ schedule' = schedule
    BY <1>1 DEF CollectLeaf, IInv, CallInv, WorklistInv
  <2> QED BY <2>1 DEF UrgencyInv, CriticalPathOrder
<1>2. CASE Pick
  <2> PICK k \in 1..Len(readyQueue) :
          /\ IsBest(k)
          /\ schedule' = Append(schedule, readyQueue[k])
          /\ readyQueue' = RemoveAt(readyQueue, k)
          /\ worklist' = graph.succ[readyQueue[k]]
    BY <1>2 DEF Pick
  <2> DEFINE b == readyQueue[k]
  <2>1. b \in NodesOf(graph) /\ b \in ToSet(readyQueue)
    BY DEF TypeOK, StateOK, ToSet
  <2>2. \A n \in NodesOf(graph) : graph.cp[n] \in Nat
    BY <1>0 DEF HasCriticalPaths
  <2>3. \A n \in ToSet(readyQueue) : graph.cp[b] >= graph.cp[n]
    <3>1. ASSUME NEW j \in 1..Len(readyQueue)
          PROVE  graph.cp[b] >= graph.cp[readyQueue[j]]
      <4>1. readyQueue[j] \in NodesOf(graph)
        BY DEF TypeOK, StateOK
      <4>2. graph.cp[b] > graph.cp[readyQueue[j]] \/ graph.cp[b] = graph.cp[readyQueue[j]]
        BY DEF IsBest, NotWorse
      <4> QED BY <2>1, <2>2, <4>1, <4>2
    <3>2. ToSet(readyQueue) = {readyQueue[j] : j \in 1..Len(readyQueue)}
      <4>1. readyQueue \in Seq(NodesOf(graph))
        BY DEF TypeOK, StateOK
      <4> QED BY <4>1, SequenceElements
    <3> QED BY <3>1, <3>2
  <2>4. /\ Len(schedule') = Len(schedule) + 1 /\ schedule'[Len(schedule) + 1] = b
        /\ \A i \in 1..Len(schedule) : schedule'[i] = schedule[i] /\ schedule[i] \in NodesOf(graph)
    BY <2>1, AppendElements DEF TypeOK, StateOK
  <2>5. ToSet(readyQueue') \subseteq ToSet(readyQueue) /\ ToSet(readyQueue) \subseteq NodesOf(graph)
    BY RemoveAtElements, SequenceElements DEF IInv, CallInv, QueueInv, TypeOK, StateOK
  <2>6. graph' = graph
    BY <1>2 DEF Pick
  <2>7. \A n \in ToSet(worklist') \ never : n \in NodesOf(graph) /\ graph.cp[n] <= graph.cp[b]
    <3>1. \A n \in ToSet(worklist') \ never : n \in NodesOf(graph) /\ graph.cp[n] < graph.cp[b]
      <4>1. worklist' \in Seq(NodesOf(graph))
        BY <1>0, <2>1 DEF IsGraph
      <4>2. ToSet(worklist') \subseteq NodesOf(graph)
        BY <4>1, SequenceElements
      <4>3. b \notin never
        BY <1>7, <2>1
      <4> QED BY <4>2, <4>3, <1>0, <2>1 DEF ReadyEdgesDescend, never
    <3> QED BY <3>1, <2>1, <2>2
  <2>8. \A i \in 1..(Len(schedule) + 1) :
            schedule'[i] \in NodesOf(graph) /\ graph.cp[schedule'[i]] >= graph.cp[b]
    <3> SUFFICES ASSUME NEW i \in 1..(Len(schedule) + 1)
                 PROVE  schedule'[i] \in NodesOf(graph) /\ graph.cp[schedule'[i]] >= graph.cp[b]
      OBVIOUS
    <3>1. i = Len(schedule) + 1 \/ i \in 1..Len(schedule)
      BY <1>0
    <3>2. CASE i = Len(schedule) + 1
      BY <3>2, <2>1, <2>2, <2>4
    <3>3. CASE i \in 1..Len(schedule)
      BY <3>3, <2>1, <2>4 DEF UrgencyInv
    <3> QED BY <3>1, <3>2, <3>3
  <2>9. CriticalPathOrder'
    <3> SUFFICES ASSUME NEW i \in 1..(Len(schedule) + 1), NEW j \in 1..(Len(schedule) + 1), i < j
                 PROVE  graph.cp[schedule'[i]] >= graph.cp[schedule'[j]]
      BY <2>4, <2>6 DEF CriticalPathOrder
    <3>1. i \in 1..Len(schedule) /\ (j = Len(schedule) + 1 \/ j \in 1..Len(schedule))
      BY <1>0
    <3>2. CASE j = Len(schedule) + 1
      BY <3>2, <2>4, <2>8
    <3>3. CASE j \in 1..Len(schedule)
      BY <3>1, <3>3, <2>4 DEF UrgencyInv, CriticalPathOrder
    <3> QED BY <3>1, <3>2, <3>3
  <2>10. ASSUME NEW i \in 1..(Len(schedule) + 1), NEW n \in ToSet(readyQueue') \cup (ToSet(worklist') \ never)
         PROVE  graph.cp[schedule'[i]] >= graph.cp[n]
    <3>1. n \in NodesOf(graph) /\ graph.cp[b] >= graph.cp[n]
      BY <2>1, <2>2, <2>3, <2>5, <2>7
    <3> QED BY <3>1, <2>1, <2>2, <2>8
  <2> QED BY <1>8, <2>4, <2>6, <2>9, <2>10 DEF UrgencyInv
<1>3. CASE Release
  <2>1. /\ Head(worklist) \in NodesOf(graph)
        /\ ToSet(worklist) = ToSet(worklist') \cup {Head(worklist)}
    BY <1>3, TailElements DEF TypeOK, StateOK, Release
  <2>2. ToSet(readyQueue') \subseteq ToSet(readyQueue) \cup {Head(worklist)}
    BY <1>3, <2>1, AppendElements DEF TypeOK, StateOK, Release, Enqueued
  <2>3. \A n \in ToSet(readyQueue') \cup (ToSet(worklist') \ never) :
            n \in ToSet(readyQueue) \cup (ToSet(worklist) \ never)
    BY <1>7, <2>1, <2>2
  <2>4. pc = "release" /\ schedule' = schedule
    BY <1>3 DEF Release
  <2> QED BY <1>6, <1>8, <2>3, <2>4 DEF UrgencyInv, CriticalPathOrder, never
<1>4. CASE Return
  BY <1>4, <1>8 DEF UrgencyInv, CriticalPathOrder, Return, never
<1>5. CASE UNCHANGED vars
  BY <1>5, <1>8 DEF UrgencyInv, CriticalPathOrder, vars, never
<1> QED BY <1>1, <1>2, <1>3, <1>4, <1>5 DEF Next

(* Where critical paths descend along every edge, they do along these.   *)
LEMMA AllEdgesDescend ==
    ASSUME NEW g, EdgesDescend(g)
    PROVE  ReadyEdgesDescend(g)
BY DEF EdgesDescend, ReadyEdgesDescend

(* A schedule is sorted by critical path, if that decreases from what can*)
(* get ready to what can.                                                *)
THEOREM ScheduleSortedByUrgency ==
    ASSUME \A g \in Graphs : HasCriticalPaths(g) /\ ReadyEdgesDescend(g)
    PROVE  Spec => []CriticalPathOrder
<1>1. Init => UrgencyInv
  BY DEF Init, UrgencyInv, CriticalPathOrder
<1>2. TypeOK /\ TypeOK' /\ IInv /\ IInv' /\ UrgencyInv /\ [Next]_vars => UrgencyInv'
  <2> SUFFICES ASSUME TypeOK, TypeOK', IInv, IInv', UrgencyInv, [Next]_vars PROVE UrgencyInv'
    OBVIOUS
  <2>1. HasCriticalPaths(graph) /\ ReadyEdgesDescend(graph)
    BY DEF TypeOK
  <2> QED BY <2>1, UrgencyStep
<1>3. UrgencyInv => CriticalPathOrder
  BY DEF UrgencyInv
<1> QED BY <1>1, <1>2, <1>3, TypeCorrect, InductiveInvariant, PTL DEF Spec

(* A finite set of nodes has one whose critical path none exceeds.       *)
LEMMA MostUrgent ==
    ASSUME NEW U, IsFiniteSet(U), U /= {}, NEW f, \A n \in U : f[n] \in Nat
    PROVE  \E n \in U : \A m \in U : f[m] <= f[n]
<1> DEFINE above(n) == {m \in U : f[m] > f[n]}
           T == {above(n) : n \in U}
           R == StrictSubsetOrdering(U)
           FS == FiniteSubsetsOf(U)
<1>1. IsWellFoundedOn(R, FS)
  BY FS_StrictSubsetOrderingWellFounded
<1>2. T \subseteq FS /\ T /= {}
  <2>1. \A n \in U : above(n) \in FS
    BY FS_Subset DEF FiniteSubsetsOf
  <2> QED BY <2>1
<1>3. PICK x \in T : \A y \in T : ~(<<y, x>> \in R)
  <2> HIDE DEF T, R, FS
  <2> QED BY <1>1, <1>2, WFMin
<1>4. PICK n \in U : x = above(n)
  OBVIOUS
<1>5. ASSUME NEW m \in U, ~(f[m] <= f[n]) PROVE FALSE
  <2>1. f[m] > f[n]
    BY <1>5
  <2>2. m \in above(n) /\ m \notin above(m)
    BY <2>1
  <2>3. above(m) \subseteq above(n)
    BY <2>1
  <2>4. <<above(m), above(n)>> \in R
    BY <2>2, <2>3 DEF StrictSubsetOrdering
  <2> QED BY <2>4, <1>3, <1>4
<1> QED BY <1>5

(* On the DDG of a trace nothing is left out: the empty queue means that *)
(* every movable instruction has been scheduled, once.                   *)
LEMMA EmptyQueueIsComplete ==
    ASSUME \A g \in Graphs : HasCriticalPaths(g) /\ EdgesDescend(g) /\ WaitsOnlyForMovable(g),
           IInv, pc = "done", readyQueue = <<>>
    PROVE  ScheduleComplete
<1> SUFFICES ASSUME graph.movable \ Scheduled /= {}
             PROVE  FALSE
  BY DEF ScheduleComplete, IInv, CallInv, ScheduleInv
<1> DEFINE U == graph.movable \ Scheduled
<1>1. /\ IsGraph(graph) /\ HasCriticalPaths(graph)
      /\ EdgesDescend(graph) /\ WaitsOnlyForMovable(graph)
      /\ U \subseteq NodesOf(graph) /\ IsFiniteSet(NodesOf(graph))
  BY GraphFacts DEF IInv, CallInv, TypeOK, StateOK, IsGraph
<1>2. IsFiniteSet(U) /\ \A n \in U : graph.cp[n] \in Nat
  BY <1>1, FS_Subset DEF IsGraph, HasCriticalPaths
<1>3. PICK n \in U : \A m \in U : graph.cp[m] <= graph.cp[n]
  BY <1>2, MostUrgent
<1>4. ToSet(readyQueue) = {} /\ predCount[n] /= 0
  BY DEF ToSet, IInv, CallInv, QueueInv
<1>5. Unscheduled(n) /= {}
  <2>1. predCount[n] = Cardinality(Unscheduled(n)) + 0
    BY <1>1 DEF IInv, CallInv, PredCountExact
  <2>2. ASSUME Unscheduled(n) = {} PROVE FALSE
    <3>1. Cardinality(Unscheduled(n)) = 0
      BY <2>2, FS_EmptySet
    <3> QED BY <3>1, <2>1, <1>4
  <2> QED BY <2>2
<1>6. PICK m \in U : n \in ToSet(graph.succ[m])
  BY <1>1, <1>5 DEF Unscheduled, WaitsOnlyForMovable, PredsOf
<1>7. graph.cp[n] < graph.cp[m]
  BY <1>1, <1>6 DEF EdgesDescend
<1> QED BY <1>2, <1>3, <1>6, <1>7

THEOREM ScheduleIsComplete ==
    ASSUME \A g \in Graphs : HasCriticalPaths(g) /\ EdgesDescend(g) /\ WaitsOnlyForMovable(g)
    PROVE  Spec => []ScheduleComplete
<1>1. Spec => [](pc = "done" => readyQueue = <<>>)
  <2>1. Init => (pc = "done" => readyQueue = <<>>)
    BY DEF Init
  <2>2. (pc = "done" => readyQueue = <<>>) /\ [Next]_vars
            => (pc = "done" => readyQueue = <<>>)'
    BY DEF Next, vars, CollectLeaf, Pick, Release, Return
  <2> QED BY <2>1, <2>2, PTL DEF Spec
<1>2. IInv /\ (pc = "done" => readyQueue = <<>>) => ScheduleComplete
  <2>1. pc /= "done" => ScheduleComplete
    BY DEF ScheduleComplete
  <2> QED BY <2>1, EmptyQueueIsComplete
<1> QED BY <1>1, <1>2, InductiveInvariant, PTL
-----------------------------------------------------------------------------
(* pressureDelta is what it claims to be: when no operand occurs twice   *)
(* and the node does not use itself, it is the growth of the live set.   *)
LEMMA DeltaIsGrowth ==
    ASSUME NEW g \in Graphs, NeverUsesItself(g), NEW n \in g.movable,
           NEW live \in SUBSET Value, IsFiniteSet(live), IsInjective(g.operands[n])
    PROVE  /\ pressureDelta(g, n, live) \in Int
           /\ Cardinality(LiveAfter(g, n, live)) = Cardinality(live) + pressureDelta(g, n, live)
           /\ Cardinality(live) \in Nat
<1> DEFINE ops == g.operands[n]
           new == g.result[n] \ live
           places == {k \in DOMAIN ops : ops[k] \in live \ g.out[n]}
           dead == live \cap (ToSet(ops) \ g.out[n])
<1>1. /\ n \in NodesOf(g) /\ g.result[n] \subseteq Value /\ ops \in Seq(Value)
      /\ g.result[n] \cap ToSet(ops) = {}
  BY GraphFacts DEF IsGraph, NeverUsesItself
<1>2. /\ IsFiniteSet(live) /\ IsFiniteSet(new) /\ IsFiniteSet(dead)
      /\ Cardinality(live) \in Nat /\ Cardinality(new) \in Nat /\ Cardinality(dead) \in Nat
  <2>1. IsFiniteSet(g.result[n])
    BY <1>1, GraphFacts DEF IsGraph
  <2> QED BY <2>1, FS_Subset, FS_CardinalityType
<1>3. Cardinality(places) = Cardinality(dead)
  <2>1. DOMAIN ops = 1..Len(ops) /\ Len(ops) \in Nat
    BY <1>1
  <2>2. IsFiniteSet(places)
    <3>1. IsFiniteSet(1..Len(ops))
      BY <2>1, FS_Interval
    <3> QED BY <2>1, <3>1, FS_Subset
  <2> DEFINE f == [k \in places |-> ops[k]]
  <2>3. \A k \in places : ops[k] \in dead
    BY DEF ToSet
  <2>4. \A v \in dead : \E k \in places : ops[k] = v
    BY DEF ToSet
  <2>5. \A j, k \in places : ops[j] = ops[k] => j = k
    BY DEF IsInjective
  <2>6. f \in Bijection(places, dead)
    <3> HIDE DEF places, dead, ops
    <3>1. f \in [places -> dead] /\ \A k \in places : f[k] = ops[k]
      BY <2>3
    <3> HIDE DEF f
    <3> QED BY <3>1, <2>4, <2>5 DEF Bijection, Injection, Surjection, IsInjective
  <2> QED BY <2>2, <2>6, FS_Bijection DEF ExistsBijection
<1>4. Cardinality(live \ dead) = Cardinality(live) - Cardinality(dead)
  <2>1. Cardinality(live \ dead) = Cardinality(live) - Cardinality(live \cap dead)
    BY <1>2, FS_Difference
  <2>2. live \cap dead = dead
    OBVIOUS
  <2> QED BY <2>1, <2>2
<1>5. Cardinality((live \ dead) \cup new) = Cardinality(live \ dead) + Cardinality(new)
  <2>1. IsFiniteSet(live \ dead) /\ Cardinality(live \ dead) \in Nat
    BY <1>2, FS_Subset, FS_CardinalityType
  <2>2. (live \ dead) \cap new = {}
    OBVIOUS
  <2>3. Cardinality((live \ dead) \cup new)
          = Cardinality(live \ dead) + Cardinality(new) - Cardinality((live \ dead) \cap new)
    BY <1>2, <2>1, FS_Union
  <2>4. Cardinality((live \ dead) \cap new) = 0
    BY <2>2, FS_EmptySet
  <2> HIDE DEF new, dead
  <2> QED BY <1>2, <2>1, <2>3, <2>4
<1>6. LiveAfter(g, n, live) = (live \ dead) \cup new
  BY <1>1 DEF LiveAfter
<1>7. pressureDelta(g, n, live) = Cardinality(new) - Cardinality(places)
  BY DEF pressureDelta
<1> HIDE DEF new, dead, places, ops
<1> QED BY <1>2, <1>3, <1>4, <1>5, <1>6, <1>7

(* The pressure heuristic breaks ties the right way: of the ready nodes  *)
(* with the longest critical path, the chosen one leaves fewest values   *)
(* live, for every graph in which no instruction uses itself.            *)
LEMMA PickStep ==
    ASSUME \A g \in Graphs : HasCriticalPaths(g) /\ NeverUsesItself(g),
           IInv, Next, NEW n \in Range(readyQueue),
           Len(schedule') > Len(schedule), IsInjective(graph.operands[n])
    PROVE  \/ graph.cp[Last(schedule')] > graph.cp[n]
           \/ /\ graph.cp[Last(schedule')] = graph.cp[n]
              /\ usePressure /\ IsInjective(graph.operands[Last(schedule')])
                   => Cardinality(LiveAfter(graph, Last(schedule'), currentLive))
                         <= Cardinality(LiveAfter(graph, n, currentLive))
<1>1. /\ TypeOK /\ graph \in Graphs /\ IsGraph(graph)
      /\ readyQueue \in Seq(NodesOf(graph)) /\ schedule \in Seq(NodesOf(graph))
      /\ currentLive \in SUBSET Value /\ IsFiniteSet(currentLive)
      /\ HasCriticalPaths(graph) /\ NeverUsesItself(graph)
  BY GraphFacts DEF IInv, CallInv, TypeOK, StateOK
<1>2. Pick
  <2>1. Len(schedule) \in Nat
    BY <1>1
  <2>2. ~UNCHANGED schedule
    BY <2>1
  <2> QED BY <2>2 DEF Next, CollectLeaf, Release, Return
<1>3. PICK k \in 1..Len(readyQueue) : IsBest(k) /\ schedule' = Append(schedule, readyQueue[k])
  BY <1>2 DEF Pick
<1>4. PICK j \in 1..Len(readyQueue) : readyQueue[j] = n
  BY <1>1 DEF Range
<1> DEFINE b == readyQueue[k]
<1>5. /\ b \in NodesOf(graph) /\ n \in NodesOf(graph)
      /\ b \in graph.movable /\ n \in graph.movable
  BY <1>1, <1>3, <1>4 DEF IInv, CallInv, QueueInv, ToSet
<1>6. Last(schedule') = b
  BY <1>1, <1>3, <1>5, AppendElements DEF Last
<1>7. NotWorse(k, j)
  BY <1>3 DEF IsBest
<1>8. graph.cp[b] \in Nat /\ graph.cp[n] \in Nat
  BY <1>1, <1>5 DEF HasCriticalPaths
<1>9. \/ graph.cp[b] > graph.cp[n]
      \/ graph.cp[b] = graph.cp[n] /\ (Delta(b) < Delta(n) \/ Delta(b) = Delta(n))
  BY <1>4, <1>7 DEF NotWorse
<1>10. ASSUME usePressure, IsInjective(graph.operands[b]), graph.cp[b] = graph.cp[n]
       PROVE  Cardinality(LiveAfter(graph, b, currentLive))
                  <= Cardinality(LiveAfter(graph, n, currentLive))
  <2>1. /\ Delta(b) \in Int /\ Delta(n) \in Int /\ Cardinality(currentLive) \in Nat
        /\ Cardinality(LiveAfter(graph, b, currentLive)) = Cardinality(currentLive) + Delta(b)
        /\ Cardinality(LiveAfter(graph, n, currentLive)) = Cardinality(currentLive) + Delta(n)
    BY <1>1, <1>5, <1>10, DeltaIsGrowth DEF Delta
  <2>2. Delta(b) <= Delta(n)
    BY <1>8, <1>9, <1>10, <2>1
  <2> QED BY <2>1, <2>2
<1> HIDE DEF b
<1> QED BY <1>6, <1>8, <1>9, <1>10

THEOREM PickedBest ==
    ASSUME \A g \in Graphs : HasCriticalPaths(g) /\ NeverUsesItself(g)
    PROVE  Spec => PickIsBestChoice
<1>1. IInv /\ [Next]_vars =>
        [\A n \in Range(readyQueue) :
            (Len(schedule') > Len(schedule) /\ IsInjective(graph.operands[n])) =>
              LET best == Last(schedule')
                  Grows(m) == Cardinality(LiveAfter(graph, m, currentLive))
              IN  \/ graph.cp[best] > graph.cp[n]
                  \/ /\ graph.cp[best] = graph.cp[n]
                     /\ usePressure /\ IsInjective(graph.operands[best])
                          => Grows(best) <= Grows(n)]_vars
  <2> SUFFICES ASSUME IInv, Next, NEW n \in Range(readyQueue),
                      Len(schedule') > Len(schedule), IsInjective(graph.operands[n])
               PROVE  \/ graph.cp[Last(schedule')] > graph.cp[n]
                      \/ /\ graph.cp[Last(schedule')] = graph.cp[n]
                         /\ usePressure /\ IsInjective(graph.operands[Last(schedule')])
                              => Cardinality(LiveAfter(graph, Last(schedule'), currentLive))
                                    <= Cardinality(LiveAfter(graph, n, currentLive))
    OBVIOUS
  <2> QED BY PickStep
<1> QED BY InductiveInvariant, <1>1, PTL DEF PickIsBestChoice, Spec
-----------------------------------------------------------------------------
(* What buildDDG and computeCriticalPath give the list scheduler: the    *)
(* graph of a trace that leads forward, of any function.                 *)
IsTraceGraph(g) == \E f, trace : IsFunction(f) /\ IsForward(f, trace) /\ g = TraceDDG(f, trace)

(* Its critical paths decrease along the edges, what may be queued waits *)
(* only for what may be queued, and nothing uses itself.                 *)
LEMMA TraceGraphIs ==
    ASSUME NEW g, IsTraceGraph(g)
    PROVE  HasCriticalPaths(g) /\ EdgesDescend(g) /\ WaitsOnlyForMovable(g) /\ NeverUsesItself(g)
<1>1. PICK f, trace : IsFunction(f) /\ IsForward(f, trace) /\ g = TraceDDG(f, trace)
  BY DEF IsTraceGraph
<1>2. trace \in Seq(Blocks(f)) /\ IsInjective(trace) /\ trace /= <<>>
  BY <1>1, ForwardIsInjective DEF IsForward
<1> DEFINE N == ToSet(g.nodes)
<1>3. /\ IsDDG(f, g)
      /\ \A m, n \in N : n \in ToSet(g.succ[m]) => ~IsTerminator(f, m) /\ ~IsPHI(f, m)
  BY <1>1, <1>2, TraceDDGIs
<1>4. HasCriticalPaths(g) /\ EdgesDescend(g)
  BY <1>1, TraceCriticalPaths DEF HasCriticalPaths, EdgesDescend, NodesOf
<1>5. WaitsOnlyForMovable(g)
  BY <1>3 DEF WaitsOnlyForMovable, PredsOf, NodesOf, IsDDG
<1>6. NeverUsesItself(g)
  <2>1. /\ g.result = [n \in ToSet(TraceNodes(f, trace)) |-> {n} \cap Universe(f)]
        /\ g.operands = [n \in ToSet(TraceNodes(f, trace)) |-> f.use[n]]
        /\ g.nodes = TraceNodes(f, trace)
    BY <1>1 DEF TraceDDG, ScheduleInput
  <2>2. ASSUME NEW n \in g.movable PROVE g.result[n] \cap ToSet(g.operands[n]) = {}
    <3>1. n \in N /\ ~IsPHI(f, n) /\ n \in Instructions(f)
      <4>1. n \in N /\ ~IsPHI(f, n) /\ g.nodes \in Seq(Instructions(f))
        BY <1>3, <2>2 DEF IsDDG
      <4> QED BY <4>1, ListFinite
    <3>2. n \notin Operands(f, n)
      BY <1>1, <3>1 DEF IsFunction
    <3> QED BY <2>1, <3>1, <3>2 DEF Operands
  <2> QED BY <2>2 DEF NeverUsesItself
<1> QED BY <1>4, <1>5, <1>6

(* So is the graph of a call, when the calls are for such traces.        *)
LEMMA CallTraceGraph ==
    ASSUME \A g \in Graphs : IsTraceGraph(g)
    PROVE  Spec => [](graph \in Graphs /\ IsTraceGraph(graph))
<1>1. TypeOK => graph \in Graphs /\ IsTraceGraph(graph)
  BY DEF TypeOK
<1> QED BY <1>1, TypeCorrect, PTL

(* computeCriticalPath delivers, for the trace of any function, a        *)
(* critical path that strictly decreases along every dependence.         *)
THEOREM TraceGraphDescends ==
    ASSUME \A g \in Graphs : IsTraceGraph(g)
    PROVE  Spec => []CriticalPathCoversSuccessors
<1>1. graph \in Graphs /\ IsTraceGraph(graph) => CriticalPathCoversSuccessors
  BY TraceGraphIs DEF CriticalPathCoversSuccessors
<1> QED BY <1>1, CallTraceGraph, PTL

(* buildDDG leads no edge out of an instruction listSchedule never takes:*)
(* no PHI and no terminator keeps another from being queued.             *)
THEOREM TraceGraphBlocksNone ==
    ASSUME \A g \in Graphs : IsTraceGraph(g)
    PROVE  Spec => []NoneWaitsForUnmovable
<1>1. graph \in Graphs /\ IsTraceGraph(graph) => NoneWaitsForUnmovable
  BY TraceGraphIs DEF NoneWaitsForUnmovable
<1> QED BY <1>1, CallTraceGraph, PTL

(* From the code that builds a trace's graph to the schedule it gets:    *)
(* complete, most urgent first, with pressure deciding among equals.     *)
THEOREM TraceSchedule ==
    ASSUME \A g \in Graphs : IsTraceGraph(g)
    PROVE  Spec => []CriticalPathOrder /\ []ScheduleComplete /\ PickIsBestChoice
<1>1. \A g \in Graphs : /\ HasCriticalPaths(g) /\ EdgesDescend(g)
                        /\ WaitsOnlyForMovable(g) /\ NeverUsesItself(g)
  BY TraceGraphIs
<1>2. \A g \in Graphs : ReadyEdgesDescend(g)
  BY <1>1, AllEdgesDescend
<1> QED BY <1>1, <1>2, ScheduleSortedByUrgency, ScheduleIsComplete, PickedBest
=============================================================================
