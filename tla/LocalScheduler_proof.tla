----------------------- MODULE LocalScheduler_proof -----------------------
(*************************************************************************)
(* Proofs about the local pass, for every set of functions: each call of *)
(* listSchedule is one of the calls ListScheduler_proof is about, so the *)
(* schedule respects the DDG of its block, and reordering by it is legal.*)
(*************************************************************************)
EXTENDS LocalScheduler, IR_proof

LP == INSTANCE ListScheduler_proof WITH
          Value  <- UNION {Universe(f) : f \in Functions},
          Graphs <- UNION {{LocalDDG(f, b) : b \in Blocks(f)} : f \in Functions}

(* The DDG of a block is a graph listSchedule may be called on.          *)
LEMMA DDGsAreGraphs ==
    \A g \in UNION {{LocalDDG(f, b) : b \in Blocks(f)} : f \in Functions} : LP!IsGraph(g)
<1> SUFFICES ASSUME NEW f \in Functions, NEW b \in Blocks(f) PROVE LP!IsGraph(LocalDDG(f, b))
  OBVIOUS
<1> DEFINE V == UNION {Universe(h) : h \in Functions}
           g == LocalDDG(f, b)
           N == ToSet(g.nodes)
<1>1. IsDDG(f, g)
  BY FunctionsAssumption, LocalDDGIs
<1> HIDE DEF g
<1>2. LP!NodesOf(g) = N
  BY DEF LP!NodesOf, LP!ToSet, ToSet
<1>3. Universe(f) \subseteq V
  OBVIOUS
<1> HIDE DEF V
<1>4. g.nodes \in Seq(N)
  <2>1. g.nodes \in Seq(Instructions(f))
    BY <1>1 DEF IsDDG
  <2>2. \A k \in 1..Len(g.nodes) : g.nodes[k] \in N
    BY <2>1 DEF ToSet
  <2> QED BY <2>1, <2>2
<1>5. \A s : IsInjective(s) <=> LP!IsInjective(s)
  BY DEF IsInjective, LP!IsInjective
<1>6. \A S : IsFiniteSet(S) <=> LP!IsFiniteSet(S)
  BY DEF IsFiniteSet, LP!IsFiniteSet
<1>7. g.result \in [N -> SUBSET V] /\ g.out \in [N -> SUBSET V] /\ g.live \subseteq V
  BY <1>1, <1>3 DEF IsDDG
<1>8. g.operands \in [N -> Seq(V)]
  BY <1>1, <1>3 DEF IsDDG
<1>9. g.movable \subseteq N
  BY <1>1 DEF IsDDG
<1>10. /\ IsInjective(g.nodes) /\ IsFiniteSet(g.live)
      /\ g.succ \in [N -> Seq(N)]
      /\ \A n \in N : IsInjective(g.succ[n]) /\ IsFiniteSet(g.result[n])
  BY <1>1 DEF IsDDG
<1> HIDE DEF N
<1>11. LP!IsGraph(g)
  BY <1>2, <1>4, <1>5, <1>6, <1>7, <1>8, <1>9, <1>10 DEF LP!IsGraph, V
<1> QED BY <1>11 DEF g

(* So what is proved of listSchedule holds of the pass's calls.          *)
LEMMA CallStarts == LP!Starts => LP!IInv
BY DDGsAreGraphs, LP!StartIInv

(* And goes on holding.                                                  *)
LEMMA CallSteps == LP!IInv /\ [LP!Next]_(LP!vars) => LP!IInv'
BY DDGsAreGraphs, LP!IInvStep

(* The module's instance of ListScheduler is the one proved about.       *)
LEMMA SameOperators ==
    /\ \A s : List!ToSet(s) = ToSet(s) /\ LP!ToSet(s) = ToSet(s)
    /\ \A s : (List!IsInjective(s) <=> IsInjective(s)) /\ (LP!IsInjective(s) <=> IsInjective(s))
    /\ \A S : List!Cardinality(S) = Cardinality(S) /\ LP!Cardinality(S) = Cardinality(S)
    /\ \A S : (List!IsFiniteSet(S) <=> IsFiniteSet(S)) /\ (LP!IsFiniteSet(S) <=> IsFiniteSet(S))
    /\ \A g, n : List!PredsOf(g, n) = LP!PredsOf(g, n)
    /\ \A g : List!NodesOf(g) = ToSet(g.nodes) /\ LP!NodesOf(g) = ToSet(g.nodes)
<1>1. \A s : List!ToSet(s) = ToSet(s) /\ LP!ToSet(s) = ToSet(s)
  BY DEF List!ToSet, LP!ToSet, ToSet
<1>2. \A s : (List!IsInjective(s) <=> IsInjective(s)) /\ (LP!IsInjective(s) <=> IsInjective(s))
  BY DEF List!IsInjective, LP!IsInjective, IsInjective
<1>3. \A S : List!Cardinality(S) = Cardinality(S) /\ LP!Cardinality(S) = Cardinality(S)
  BY DEF List!Cardinality, LP!Cardinality, Cardinality
<1>4. \A S : (List!IsFiniteSet(S) <=> IsFiniteSet(S)) /\ (LP!IsFiniteSet(S) <=> IsFiniteSet(S))
  BY DEF List!IsFiniteSet, LP!IsFiniteSet, IsFiniteSet
<1>5. \A g : List!NodesOf(g) = ToSet(g.nodes) /\ LP!NodesOf(g) = ToSet(g.nodes)
  BY <1>1 DEF List!NodesOf, LP!NodesOf
<1>6. \A g, n : List!PredsOf(g, n) = LP!PredsOf(g, n)
  BY <1>1, <1>5 DEF List!PredsOf, LP!PredsOf
<1> QED BY <1>1, <1>2, <1>3, <1>4, <1>5, <1>6

(* So its invariant holds together with the one proved inductive,       *)
LEMMA SameIInv == List!IInv <=> LP!IInv
BY SameOperators
   DEF List!IInv, List!CallInv, List!TypeOK, List!StateOK, List!PredCountExact, List!Unscheduled, List!Scheduled, List!QueueInv,
       List!WorklistInv, List!ScheduleInv, List!DependenceOrder,
       LP!IInv, LP!CallInv, LP!TypeOK, LP!StateOK, LP!PredCountExact, LP!Unscheduled, LP!Scheduled, LP!QueueInv,
       LP!WorklistInv, LP!ScheduleInv, LP!DependenceOrder

(* and its steps are steps there.                                        *)
LEMMA SameNext == List!Next => LP!Next
BY DEF List!Next, LP!Next, List!CollectLeaf, LP!CollectLeaf, List!Pick, LP!Pick,
       List!Release, LP!Release, List!Return, LP!Return, List!Enqueued, LP!Enqueued,
       List!IsBest, LP!IsBest, List!NotWorse, LP!NotWorse, List!Delta, LP!Delta,
       List!pressureDelta, LP!pressureDelta, List!LiveAfter, LP!LiveAfter,
       List!Larger, LP!Larger, List!RemoveAt, LP!RemoveAt, List!ToSet, LP!ToSet,
       List!Cardinality, LP!Cardinality

(* The block whose turn it is, and its graph.                            *)
LEMMA TurnIs ==
    ASSUME LocalInv, pc /= "none"
    PROVE  /\ IsFunction(fn) /\ block \in Blocks(fn)
           /\ graph = LocalDDG(fn, block) /\ IsDDG(fn, graph) /\ graph.nodes = fn.body[block]
           /\ List!IInv
<1>1. IsFunction(fn)
  BY FunctionsAssumption DEF LocalInv
<1>2. fn.layout \in Seq(Blocks(fn)) /\ next \in 1..Len(fn.layout)
  BY <1>1 DEF LocalInv, IsFunction
<1>3. block \in Blocks(fn)
  BY <1>2 DEF block
<1>4. graph = LocalDDG(fn, block)
  BY <1>3 DEF LocalInv
<1>5. graph \in UNION {{LocalDDG(f, b) : b \in Blocks(f)} : f \in Functions}
  BY <1>3, <1>4 DEF LocalInv
<1>6. List!IInv
  BY <1>5 DEF LocalInv, List!IInv, List!TypeOK
<1> QED BY <1>1, <1>3, <1>4, <1>6, LocalDDGIs

(* Building a block's graph begins a call of listSchedule.               *)
LEMMA BuildBegins == LocalInv /\ BuildLocalDDG => LocalInv'
<1> SUFFICES ASSUME LocalInv, BuildLocalDDG PROVE LocalInv'
  OBVIOUS
<1>1. IsFunction(fn) /\ fn \in Functions
  BY FunctionsAssumption DEF LocalInv
<1>2. fn.layout \in Seq(Blocks(fn)) /\ next \in 1..Len(fn.layout)
  BY <1>1 DEF LocalInv, IsFunction, BuildLocalDDG
<1>3. block \in Blocks(fn)
  BY <1>2 DEF block
<1>4. graph' = LocalDDG(fn, block)
  BY <1>3 DEF LocalInv, BuildLocalDDG
<1>5. graph' \in UNION {{LocalDDG(f, b) : b \in Blocks(f)} : f \in Functions}
  BY <1>1, <1>3, <1>4
<1>6. IsDDG(fn, graph')
  BY <1>1, <1>3, <1>4, LocalDDGIs
<1>7. Cardinality(graph'.live) \in Nat
  BY <1>6, FS_CardinalityType DEF IsDDG
<1>8. peak' \in Nat
  BY <1>7 DEF BuildLocalDDG, LocalInv, List!Larger
<1>9. LP!Starts'
  BY <1>5, <1>8, SameOperators DEF LP!Starts, BuildLocalDDG, LocalInv
<1>10. List!IInv'
  <2>1. LP!Starts' => LP!IInv'
    BY CallStarts, PTL
  <2>2. List!IInv' <=> LP!IInv'
    BY SameIInv, PTL
  <2> QED BY <1>9, <2>1, <2>2
<1>11. block' = block
  BY DEF block, BuildLocalDDG
<1>12. List!StateOK' /\ List!CallInv'
  BY <1>10 DEF List!IInv, List!TypeOK
<1> QED BY <1>1, <1>2, <1>4, <1>8, <1>11, <1>12 DEF LocalInv, BuildLocalDDG

(* Its steps preserve what is known of it.                               *)
LEMMA ScheduleGoesOn == LocalInv /\ ScheduleStep => LocalInv'
<1> SUFFICES ASSUME LocalInv, ScheduleStep PROVE LocalInv'
  OBVIOUS
<1>1. List!Next /\ pc \in {"leaves", "release"} /\ graph' = graph
  BY DEF ScheduleStep, List!Next, List!CollectLeaf, List!Pick, List!Release, List!Return
<1>2. List!IInv'
  <2>1. LP!IInv /\ [LP!Next]_(LP!vars)
    BY <1>1, TurnIs, SameIInv, SameNext
  <2>2. LP!IInv'
    BY <2>1, CallSteps
  <2>3. List!IInv' <=> LP!IInv'
    BY SameIInv, PTL
  <2> QED BY <2>2, <2>3
<1>3. usePressure' \in BOOLEAN /\ peak' \in Nat /\ pc' \in {"leaves", "release", "done"}
  BY <1>2 DEF List!IInv, List!CallInv, List!TypeOK, List!StateOK
<1>4. pc' = "done" => readyQueue' = <<>>
  BY <1>1 DEF List!Next, List!CollectLeaf, List!Pick, List!Release, List!Return
<1>5. block' = block
  BY DEF block, ScheduleStep
<1>6. List!StateOK' /\ List!CallInv'
  BY <1>2 DEF List!IInv, List!TypeOK
<1> QED BY <1>1, <1>3, <1>4, <1>5, <1>6 DEF LocalInv, ScheduleStep

(* The schedule lists no instruction before an operand, so applying it is*)
(* legal code motion.                                                    *)
LEMMA ApplyMoves ==
    ASSUME LocalInv, ApplyLocalSchedule
    PROVE  IsLegalMotion(fn, body, body')
<1>1. /\ IsFunction(fn) /\ block \in Blocks(fn) /\ IsDDG(fn, graph)
      /\ IsPlacement(fn, body) /\ OperandsComputed(fn, body) /\ List!IInv
  BY TurnIs DEF ApplyLocalSchedule, LocalInv
<1>2. /\ schedule \in Seq(ToSet(graph.nodes)) /\ IsInjective(schedule)
      /\ ToSet(schedule) \subseteq graph.movable
  BY <1>1, SameOperators DEF List!IInv, List!CallInv, List!TypeOK, List!StateOK, List!ScheduleInv, List!Scheduled
<1>3. \A k \in 1..Len(schedule) :
        {m \in ToSet(graph.nodes) : schedule[k] \in ToSet(graph.succ[m])}
            \subseteq {schedule[j] : j \in 1..(k-1)}
  BY <1>1, SameOperators DEF List!IInv, List!CallInv, List!DependenceOrder, List!PredsOf
<1>4. schedule \in Seq(Instructions(fn)) /\ AfterOperands(fn, schedule)
  BY <1>1, <1>2, <1>3, DependenceKeepsOperands
<1>5. body' = WithBlockReordered(fn, body, block, schedule)
  BY DEF ApplyLocalSchedule, WithBlockReordered
<1>6. Reordered(fn, body, body')
  BY <1>1, <1>2, <1>4, <1>5, ReorderIsReordered
<1> QED BY <1>1, <1>6, ReorderIsMotion

(* And the pass goes on to the next block with the program it leaves.    *)
LEMMA ApplyGoesOn == LocalInv /\ ApplyLocalSchedule => LocalInv'
<1> SUFFICES ASSUME LocalInv, ApplyLocalSchedule PROVE LocalInv'
  OBVIOUS
<1>1. IsPlacement(fn, body') /\ OperandsComputed(fn, body')
  BY ApplyMoves DEF IsLegalMotion
<1>2. /\ fn' = fn /\ ddgs' = ddgs /\ next' = next + 1 /\ pc' = "none" /\ schedule' = <<>>
      /\ readyQueue' = readyQueue /\ readyQueue = <<>> /\ usePressure' = usePressure /\ peak' = peak
  BY DEF ApplyLocalSchedule, LocalInv
<1> QED BY <1>1, <1>2 DEF LocalInv

(* The invariant of the pass.                                            *)
LEMMA LocalInvariant == Spec => []LocalInv
<1>1. Init => LocalInv
  <2> SUFFICES ASSUME Init PROVE LocalInv
    OBVIOUS
  <2>1. IsFunction(fn)
    BY FunctionsAssumption DEF Init
  <2>2. IsPlacement(fn, body) /\ OperandsComputed(fn, body)
    BY <2>1 DEF IsFunction, Init
  <2> QED BY <2>2 DEF Init, LocalInv
<1>2. LocalInv /\ UNCHANGED vars => LocalInv'
  <2>1. UNCHANGED vars => (List!StateOK' <=> List!StateOK) /\ (List!CallInv' <=> List!CallInv)
    BY DEF vars, listVars, List!CallInv, List!StateOK, List!PredCountExact, List!Unscheduled, List!Scheduled,
           List!QueueInv, List!WorklistInv, List!ScheduleInv, List!DependenceOrder
  <2> QED BY <2>1 DEF LocalInv, vars, listVars, block
<1>3. LocalInv /\ [Next]_vars => LocalInv'
  BY <1>2, BuildBegins, ScheduleGoesOn, ApplyGoesOn DEF Next
<1> QED BY <1>1, <1>3, PTL DEF Spec

(* The instance of the abstract specification means the same by a legal  *)
(* motion.                                                               *)
LEMMA SameMotions ==
    ASSUME NEW f, NEW b, NEW c
    PROVE  Motion!IsLegalMotion(f, b, c) <=> IsLegalMotion(f, b, c)
<1>1. \A d, i : Motion!BlockOf(d, i) = BlockOf(d, i)
  BY DEF Motion!BlockOf, BlockOf, Motion!ToSet, ToSet
<1>2. \A d, i : Motion!PosOf(d, i) = PosOf(d, i)
  BY <1>1 DEF Motion!PosOf, PosOf
<1>3. Motion!Blocks(f) = Blocks(f) /\ Motion!Instructions(f) = Instructions(f)
  BY DEF Motion!Blocks, Blocks, Motion!Instructions, Instructions, Motion!ToSet, ToSet
<1>4. \A i : /\ Motion!isSchedulingAnchor(f, i) <=> isSchedulingAnchor(f, i)
             /\ Motion!SafeToSpeculate(f, i) <=> SafeToSpeculate(f, i)
             /\ Motion!IsPHI(f, i) <=> IsPHI(f, i)
  BY DEF Motion!isSchedulingAnchor, isSchedulingAnchor, Motion!SafeToSpeculate, SafeToSpeculate,
         Motion!IsPHI, IsPHI, Motion!IsTerminator, IsTerminator, Motion!IsOrderedOp, IsOrderedOp
<1>5. \A s : Motion!Anchors(f, s) = Anchors(f, s)
  BY <1>4 DEF Motion!Anchors, Anchors, Motion!ToSet, ToSet
<1>6. \A d, i : Motion!Segment(f, d, i) = Segment(f, d, i)
  BY <1>1, <1>2, <1>4 DEF Motion!Segment, Segment
<1>7. Motion!IsPlacement(f, c) <=> IsPlacement(f, c)
  BY <1>3 DEF Motion!IsPlacement, IsPlacement, Motion!ToSet, ToSet, Motion!IsInjective, IsInjective
<1>8. Motion!OperandsComputed(f, c) <=> OperandsComputed(f, c)
  <2>1. \A s : /\ Motion!ToSet(s) = ToSet(s)
               /\ Motion!Front(s) = Front(s)
               /\ Motion!Last(s) = Last(s)
    BY DEF Motion!ToSet, ToSet, Motion!Front, Front, Motion!Last, Last
  <2> QED BY <1>1, <1>2, <1>3, <1>4, <2>1, ZenonT(60) DEF Motion!OperandsComputed, OperandsComputed
<1>9. \A i : Motion!MayMove(f, b, c, i) <=> MayMove(f, b, c, i)
  BY <1>1, <1>4, <1>6 DEF Motion!MayMove, MayMove
<1> QED BY <1>3, <1>5, <1>7, <1>8, <1>9 DEF Motion!IsLegalMotion, IsLegalMotion

(* Whatever the list scheduler returns, the local pass changes the       *)
(* program only by legal code motion: CodeMotion is implemented.         *)
THEOREM LocalPassIsCodeMotion == Spec => IsCodeMotion
<1>1. Init => Motion!Init
  BY DEF Init, Motion!Init
<1>2. LocalInv /\ [Next]_vars => [Motion!Next]_<<fn, body>>
  <2> SUFFICES ASSUME LocalInv, [Next]_vars PROVE [Motion!Next]_<<fn, body>>
    OBVIOUS
  <2>1. CASE ApplyLocalSchedule
    <3>1. fn' = fn /\ Motion!IsLegalMotion(fn, body, body')
      BY <2>1, ApplyMoves, SameMotions DEF ApplyLocalSchedule
    <3> QED BY <3>1 DEF Motion!Next
  <2>2. CASE BuildLocalDDG \/ ScheduleStep \/ UNCHANGED vars
    BY <2>2 DEF BuildLocalDDG, ScheduleStep, vars
  <2> QED BY <2>1, <2>2 DEF Next
<1> QED BY <1>1, <1>2, LocalInvariant, PTL DEF Spec, IsCodeMotion, Motion!Spec
-----------------------------------------------------------------------------
(* One round of Blocked: the nodes, and what waits for one of them.      *)
Wait(g) ==
    [T \in SUBSET ToSet(g.nodes) |-> T \cup UNION {ToSet(g.succ[n]) : n \in T}]

BlockedIsIteration(g) ==
    \E r : /\ Iterates(ToSet(g.nodes), Len(g.nodes), Wait(g), r)
           /\ r[0] = ToSet(g.nodes) \ g.movable
           /\ Blocked(g) = r[Len(g.nodes)]

(* What Blocked relies on in a graph.                                    *)
HasEdges(g) ==
    /\ g.nodes \in Seq(ToSet(g.nodes))
    /\ g.succ \in [ToSet(g.nodes) -> Seq(ToSet(g.nodes))]

(* Blocked takes as many rounds as there are nodes.                      *)
LEMMA BlockedIteration ==
    ASSUME NEW g, HasEdges(g)
    PROVE  BlockedIsIteration(g)
<1> DEFINE N == Len(g.nodes)
           F == Wait(g)
           D == SUBSET ToSet(g.nodes)
           start == ToSet(g.nodes) \ g.movable
           Step(T) == T \cup UNION {ToSet(g.succ[n]) : n \in T}
<1>1. N \in Nat
  BY DEF HasEdges
<1>2. F \in [D -> D] /\ \A T \in D : F[T] = Step(T)
  <2>1. \A n \in ToSet(g.nodes) : ToSet(g.succ[n]) \subseteq ToSet(g.nodes)
    <3> TAKE n \in ToSet(g.nodes)
    <3>1. g.succ[n] \in Seq(ToSet(g.nodes))
      BY DEF HasEdges
    <3> QED BY <3>1 DEF ToSet
  <2>2. \A T \in D : Step(T) \in D
    BY <2>1
  <2> QED BY <2>2 DEF Wait
<1>3. start \in D
  OBVIOUS
<1> HIDE DEF F, N, D, start
<1>4. PICK r \in [0..N -> D] : r[0] = start /\ \A k \in 1..N : r[k] = F[r[k-1]]
  <2>1. F \in [D -> D]
    BY <1>2
  <2>2. IsIterated(N, D, F, start)
    BY <1>1, <1>3, <2>1, IterationExists
  <2> QED BY <2>2 DEF IsIterated
<1> DEFINE Eq(h) == h = [k \in 0..N |-> IF k = 0 THEN start
                                       ELSE h[k-1] \cup UNION {ToSet(g.succ[n]) : n \in h[k-1]}]
           b == CHOOSE h : Eq(h)
<1>5. \A k \in 1..N : k - 1 \in 0..N /\ r[k] = Step(r[k-1])
  <2> TAKE k \in 1..N
  <2>1. k - 1 \in 0..N /\ r[k-1] \in D
    BY <1>1
  <2> QED BY <1>2, <1>4, <2>1
<1>6. Eq(r)
  <2>1. \A k \in 0..N : k = 0 \/ k \in 1..N
    BY <1>1
  <2>2. \A k \in 0..N : r[k] = IF k = 0 THEN start ELSE Step(r[k-1])
    BY <1>4, <1>5, <2>1
  <2> QED BY <2>2
<1>7. Eq(b)
  <2> HIDE DEF Eq
  <2> QED BY <1>6
<1>8. Blocked(g) = b[N]
  BY DEF Blocked, N, start
<1> HIDE DEF b
<1>9. \A k \in 0..N : b[k] = IF k = 0 THEN start ELSE Step(b[k-1])
  BY <1>7
<1> HIDE DEF Step
<1>10. \A k \in 0..N : b[k] = r[k]
  <2> DEFINE T == {k \in 0..N : b[k] /= r[k]}
  <2> SUFFICES ASSUME T /= {} PROVE FALSE
    OBVIOUS
  <2>1. PICK k \in T : \A m \in T : k <= m
    <3>1. T \subseteq Nat
      BY <1>1
    <3> QED BY <3>1, Least
  <2>2. k \in 1..N /\ ~(k <= k - 1) /\ k - 1 \in 0..N
    <3>1. k /= 0
      BY <1>4, <1>9, <2>1
    <3> QED BY <1>1, <2>1, <3>1
  <2>3. k - 1 \notin T
    <3> HIDE DEF T
    <3> QED BY <2>1, <2>2
  <2>4. b[k-1] = r[k-1]
    BY <2>2, <2>3
  <2>5. b[k] = Step(b[k-1])
    <3>1. k \in 0..N /\ k /= 0
      BY <1>1, <2>2
    <3> QED BY <1>9, <3>1
  <2>6. b[k] = r[k]
    BY <1>5, <2>2, <2>4, <2>5
  <2> QED BY <2>1, <2>6
<1>11. b[N] = r[N]
  <2>1. N \in 0..N
    BY <1>1
  <2> QED BY <1>10, <2>1
<1>12. Iterates(ToSet(g.nodes), N, F, r)
  BY <1>1, <1>2, <1>4 DEF Iterates, D
<1> QED BY <1>4, <1>8, <1>11, <1>12 DEF F, N, start, BlockedIsIteration

(* Blocked is the least set of nodes that has the ones which are never   *)
(* queued and with each node what waits for it.                          *)
LEMMA BlockedIs ==
    ASSUME NEW g, HasEdges(g)
    PROVE  /\ Blocked(g) \subseteq ToSet(g.nodes)
           /\ ToSet(g.nodes) \ g.movable \subseteq Blocked(g)
           /\ \A n \in Blocked(g) : ToSet(g.succ[n]) \subseteq Blocked(g)
           /\ \A C \in SUBSET ToSet(g.nodes) :
                /\ ToSet(g.nodes) \ g.movable \subseteq C
                /\ \A n \in C : ToSet(g.succ[n]) \subseteq C
                => Blocked(g) \subseteq C
<1> DEFINE N == Len(g.nodes)
           U == ToSet(g.nodes)
           F == Wait(g)
<1>1. PICK r : Iterates(U, N, F, r) /\ r[0] = U \ g.movable /\ Blocked(g) = r[N]
  BY BlockedIteration DEF BlockedIsIteration
<1>2. /\ N \in Nat /\ F \in [SUBSET U -> SUBSET U] /\ r \in [0..N -> SUBSET U]
  BY <1>1 DEF Iterates
<1>3. IsFiniteSet(U) /\ Cardinality(U) <= N
  <2>1. g.nodes \in Surjection(1..N, U)
    BY DEF HasEdges, Surjection, ToSet
  <2>2. IsFiniteSet(1..N) /\ Cardinality(1..N) = N
    <3>1. Cardinality(1..N) = IF 1 > N THEN 0 ELSE N - 1 + 1
      BY <1>2, FS_Interval
    <3>2. 1 > N => N = 0
      BY <1>2
    <3>3. N - 1 + 1 = N
      BY <1>2
    <3> QED BY <1>2, <3>1, <3>2, <3>3, FS_Interval
  <2> QED BY <2>1, <2>2, FS_Surjection
<1>4. \A T \in SUBSET U : F[T] = T \cup UNION {ToSet(g.succ[n]) : n \in T}
  BY DEF Wait
<1>5. F[{}] = {} /\ \A T \in SUBSET U : T \subseteq F[T]
  BY <1>4
<1> HIDE DEF F, U, N
<1>6. F[r[N]] = r[N] /\ r[0] \subseteq r[N]
  BY <1>1, <1>3, <1>5, IterationCloses
<1>7. r[N] \in SUBSET U
  <2>1. N \in 0..N
    BY <1>2
  <2> QED BY <1>2, <2>1
<1>8. \A n \in r[N] : ToSet(g.succ[n]) \subseteq r[N]
  BY <1>4, <1>6, <1>7
<1>9. ASSUME NEW C \in SUBSET U, U \ g.movable \subseteq C, \A n \in C : ToSet(g.succ[n]) \subseteq C
      PROVE  r[N] \subseteq C
  <2>1. \A T \in SUBSET U : T \subseteq C => F[T] \subseteq C
    BY <1>4, <1>9
  <2>2. r[0] \subseteq C
    BY <1>1, <1>9
  <2> QED BY <1>1, <2>1, <2>2, IterationStays
<1> QED BY <1>1, <1>6, <1>7, <1>8, <1>9 DEF U

(* An edge of a block's graph into a node that is no PHI leads forward.  *)
LEMMA EdgesLeadForward ==
    ASSUME NEW f, IsFunction(f), SSAValid(f, f.body), NEW b \in Blocks(f),
           NEW v \in ToSet(f.body[b]), NEW n \in ToSet(f.body[b]), ~IsPHI(f, n),
           n \in ToSet(LocalDDG(f, b).succ[v])
    PROVE  PosOf(f.body, v) < PosOf(f.body, n)
<1> DEFINE s == f.body[b]
<1>1. IsPlacement(f, f.body) /\ s \in Seq(Instructions(f)) /\ IsInjective(s)
  BY DEF IsFunction, IsPlacement
<1>2. v \in Instructions(f) /\ n \in Instructions(f)
  BY <1>1 DEF ToSet
<1>3. \A i \in {v, n} : BlockOf(f.body, i) = b /\ PosOf(f.body, i) \in 1..Len(s) /\ s[PosOf(f.body, i)] = i
  BY <1>1, <1>2, PlacedOnce
<1>4. CASE v \in Operands(f, n)
  <2>1. f.use[n] \in Seq(Universe(f))
    BY <1>2 DEF IsFunction
  <2>2. PICK k \in 1..Len(f.use[n]) : f.use[n][k] = v
    BY <1>4, <2>1 DEF Operands, ToSet
  <2> QED BY <1>2, <1>3, <2>2 DEF SSAValid
<1>5. CASE \E p, q \in 1..Len(s) : p < q /\ s[p] = v /\ s[q] = n
  <2>1. PICK p, q \in 1..Len(s) : p < q /\ s[p] = v /\ s[q] = n
    BY <1>5
  <2>2. \A j, k \in 1..Len(s) : s[j] = s[k] => j = k
    BY <1>1 DEF IsInjective
  <2>3. p = PosOf(f.body, v) /\ q = PosOf(f.body, n)
    BY <1>3, <2>1, <2>2
  <2> QED BY <2>1, <2>3
<1> QED BY <1>4, <1>5, LocalDDGIs

(* A returned call has scheduled exactly the nodes that wait for no PHI  *)
(* and no terminator, directly or through others: of the nodes left out  *)
(* beyond those, the first of the block would have been ready.           *)
LEMMA UnblockedPartIsScheduled ==
    ASSUME \A f \in Functions : SSAValid(f, f.body), LocalInv
    PROVE  ScheduleIsUnblockedPart
<1> SUFFICES ASSUME pc = "done"
             PROVE  ToSet(schedule) = ToSet(graph.nodes) \ Blocked(graph)
  BY DEF ScheduleIsUnblockedPart
<1> DEFINE N == ToSet(graph.nodes)
           S == ToSet(schedule)
<1>1. /\ IsFunction(fn) /\ block \in Blocks(fn) /\ graph = LocalDDG(fn, block)
      /\ IsDDG(fn, graph) /\ graph.nodes = fn.body[block] /\ LP!IInv /\ SSAValid(fn, fn.body)
  BY TurnIs, SameIInv DEF LocalInv
<1>2. /\ schedule \in Seq(N) /\ S \subseteq graph.movable /\ graph.movable \subseteq N
      /\ graph.movable = {n \in N : ~IsTerminator(fn, n) /\ ~IsPHI(fn, n)}
  BY <1>1, SameOperators
     DEF IsDDG, LP!IInv, LP!CallInv, LP!TypeOK, LP!StateOK, LP!ScheduleInv, LP!Scheduled
<1>3. HasEdges(graph)
  <2>1. graph \in UNION {{LocalDDG(f, b) : b \in Blocks(f)} : f \in Functions}
    BY <1>1 DEF LocalInv
  <2>2. LP!IsGraph(graph)
    BY <2>1, DDGsAreGraphs
  <2> QED BY <2>2, SameOperators DEF HasEdges, LP!IsGraph
<1>4. ASSUME NEW m \in N, NEW n \in S, n \in ToSet(graph.succ[m])
      PROVE  m \in S
  <2>1. PICK k \in 1..Len(schedule) : schedule[k] = n
    BY <1>2 DEF ToSet
  <2>2. m \in LP!PredsOf(graph, schedule[k])
    BY <1>4, <2>1, SameOperators DEF LP!PredsOf
  <2>3. PICK j \in 1..(k-1) : m = schedule[j]
    BY <1>1, <2>2 DEF LP!IInv, LP!CallInv, LP!DependenceOrder
  <2>4. j \in 1..Len(schedule)
    BY <1>2, <2>3
  <2> QED BY <1>2, <2>3, <2>4 DEF ToSet
<1>5. \A n \in N : ToSet(graph.succ[n]) \subseteq N
  <2> TAKE n \in N
  <2>1. graph.succ[n] \in Seq(N)
    BY <1>3 DEF HasEdges
  <2> QED BY <2>1 DEF ToSet
<1> HIDE DEF N, S
<1>6. Blocked(graph) \subseteq N \ S
  <2>1. N \ graph.movable \subseteq N \ S
    BY <1>2
  <2>2. \A n \in N \ S : ToSet(graph.succ[n]) \subseteq N \ S
    BY <1>4, <1>5
  <2>3. N \ S \in SUBSET N
    OBVIOUS
  <2> QED BY <1>3, <2>1, <2>2, <2>3, BlockedIs DEF N
<1> DEFINE U == N \ (S \cup Blocked(graph))
<1>7. \A n \in U : n \in graph.movable /\ n \notin Blocked(graph) /\ n \notin S /\ n \in N
  BY <1>3, BlockedIs DEF N
<1>8. ASSUME NEW n \in U PROVE \E m \in U : n \in ToSet(graph.succ[m])
  <2>1. LP!Scheduled = S /\ ToSet(readyQueue) = {} /\ pc /= "leaves"
    BY SameOperators DEF LP!Scheduled, S, LocalInv, ToSet
  <2>2. predCount[n] /= 0
    BY <1>1, <1>7, <2>1, SameOperators DEF LP!IInv, LP!CallInv, LP!QueueInv
  <2>3. predCount[n] = LP!Cardinality(LP!Unscheduled(n)) + 0
    BY <1>1, <1>7, SameOperators DEF LP!IInv, LP!CallInv, LP!PredCountExact, N
  <2>4. LP!Unscheduled(n) /= {}
    <3>1. LP!Cardinality({}) = 0
      BY SameOperators, FS_EmptySet
    <3> QED BY <2>2, <2>3, <3>1
  <2>5. PICK m \in N : n \in ToSet(graph.succ[m]) /\ m \notin S
    BY <2>1, <2>4, SameOperators DEF LP!Unscheduled, LP!PredsOf, N
  <2>6. m \notin Blocked(graph)
    BY <1>3, <1>7, <2>5, BlockedIs
  <2> QED BY <2>5, <2>6
<1>9. U = {}
  <2> SUFFICES ASSUME U /= {} PROVE FALSE
    OBVIOUS
  <2> DEFINE at(n) == PosOf(fn.body, n)
             P == {at(n) : n \in U}
  <2>1. \A n \in U : at(n) \in Nat
    <3> TAKE n \in U
    <3>1. IsPlacement(fn, fn.body) /\ n \in ToSet(fn.body[block])
      BY <1>1, <1>7 DEF IsFunction, N
    <3>2. fn.body[block] \in Seq(Instructions(fn))
      BY <1>1, <3>1 DEF IsPlacement
    <3>3. n \in Instructions(fn)
      BY <3>1, <3>2 DEF ToSet
    <3>4. BlockOf(fn.body, n) = block /\ at(n) \in 1..Len(fn.body[BlockOf(fn.body, n)])
      BY <1>1, <3>1, <3>3, PlacedOnce
    <3> QED BY <3>2, <3>4
  <2>2. PICK n \in U : \A m \in U : at(n) <= at(m)
    <3> HIDE DEF at, U
    <3>1. P \subseteq Nat /\ P /= {}
      BY <2>1
    <3>2. PICK x \in P : \A y \in P : x <= y
      BY <3>1, Least
    <3> QED BY <3>2
  <2>3. PICK m \in U : n \in ToSet(graph.succ[m])
    BY <1>8
  <2>4. ~IsPHI(fn, n) /\ m \in ToSet(fn.body[block]) /\ n \in ToSet(fn.body[block])
    BY <1>1, <1>2, <1>7 DEF N
  <2>5. at(m) < at(n)
    BY <1>1, <2>3, <2>4, EdgesLeadForward
  <2> QED BY <2>1, <2>2, <2>5
<1>10. S \subseteq N
  BY <1>2
<1> QED BY <1>6, <1>9, <1>10 DEF N, S

(* So it does, in every state of the pass.                               *)
THEOREM LocalScheduleIsUnblockedPart ==
    ASSUME \A f \in Functions : SSAValid(f, f.body)
    PROVE  Spec => []ScheduleIsUnblockedPart
<1>1. LocalInv => ScheduleIsUnblockedPart
  BY UnblockedPartIsScheduled
<1> QED BY <1>1, LocalInvariant, PTL
-----------------------------------------------------------------------------
(* The nodes no schedule reaches, as listSchedule sees them, are the     *)
(* blocked ones.                                                         *)
LEMMA NeverReadyIsBlocked ==
    ASSUME NEW g, HasEdges(g)
    PROVE  LP!NeverReady(g) = Blocked(g)
<1>1. LP!NodesOf(g) = ToSet(g.nodes) /\ \A s : LP!ToSet(s) = ToSet(s)
  BY SameOperators
<1>2. LP!NeverReady(g) =
        {n \in ToSet(g.nodes) : \A C \in SUBSET ToSet(g.nodes) :
            /\ ToSet(g.nodes) \ g.movable \subseteq C
            /\ \A m \in C : ToSet(g.succ[m]) \subseteq C
            => n \in C}
  BY <1>1 DEF LP!NeverReady
<1>3. /\ Blocked(g) \subseteq ToSet(g.nodes)
      /\ ToSet(g.nodes) \ g.movable \subseteq Blocked(g)
      /\ \A n \in Blocked(g) : ToSet(g.succ[n]) \subseteq Blocked(g)
  BY BlockedIs
<1>4. \A C \in SUBSET ToSet(g.nodes) :
        /\ ToSet(g.nodes) \ g.movable \subseteq C
        /\ \A n \in C : ToSet(g.succ[n]) \subseteq C
        => Blocked(g) \subseteq C
  BY BlockedIs
<1> QED BY <1>2, <1>3, <1>4

(* The DDG of a block is such a graph.                                   *)
LEMMA LocalDDGHasEdges ==
    ASSUME NEW f \in Functions, NEW b \in Blocks(f)
    PROVE  HasEdges(LocalDDG(f, b))
<1> DEFINE g == LocalDDG(f, b)
<1>1. LP!IsGraph(g)
  BY DDGsAreGraphs
<1> QED BY <1>1, SameOperators DEF HasEdges, LP!IsGraph

(* Between the other nodes computeCriticalPath's paths decrease: an edge *)
(* into a node that is no PHI leads forward in the block, and all nodes  *)
(* from there on, with the blocked ones, are a set no edge leaves.       *)
LEMMA LocalEdgesDescend ==
    ASSUME NEW f \in Functions, SSAValid(f, f.body), NEW b \in Blocks(f)
    PROVE  LP!HasCriticalPaths(LocalDDG(f, b)) /\ LP!ReadyEdgesDescend(LocalDDG(f, b))
<1> DEFINE g == LocalDDG(f, b)
           N == ToSet(g.nodes)
           B == Blocked(g)
           at(n) == PosOf(f.body, n)
           cp == CriticalPath(f, f.body[b], LocalSuccessors(f, b))
<1>1. IsFunction(f) /\ HasEdges(g) /\ IsDDG(f, g) /\ g.nodes = f.body[b]
  BY FunctionsAssumption, LocalDDGHasEdges, LocalDDGIs
<1>2. /\ B \subseteq N /\ N \ g.movable \subseteq B
      /\ \A n \in B : ToSet(g.succ[n]) \subseteq B
  BY <1>1, BlockedIs
<1>3. g.succ = LocalSuccessors(f, b) /\ g.cp = cp
  BY DEF LocalDDG, ScheduleInput
<1>4. \A n \in N : ToSet(g.succ[n]) \subseteq N
  <2> TAKE n \in N
  <2>1. g.succ[n] \in Seq(N)
    BY <1>1 DEF HasEdges
  <2> QED BY <2>1 DEF ToSet
<1>5. \A n \in N : at(n) \in Nat
  <2> TAKE n \in N
  <2>1. IsPlacement(f, f.body) /\ f.body[b] \in Seq(Instructions(f))
    BY <1>1 DEF IsFunction, IsPlacement
  <2>2. n \in ToSet(f.body[b]) /\ n \in Instructions(f)
    BY <1>1, <2>1 DEF ToSet
  <2>3. BlockOf(f.body, n) = b /\ at(n) \in 1..Len(f.body[BlockOf(f.body, n)])
    BY <2>1, <2>2, PlacedOnce
  <2> QED BY <2>1, <2>3
<1>6. ASSUME NEW m \in N, NEW n \in ToSet(g.succ[m]) \ B
      PROVE  at(m) < at(n)
  <2>1. n \in N /\ n \in g.movable
    BY <1>2, <1>4
  <2>2. ~IsPHI(f, n)
    BY <1>1, <2>1 DEF IsDDG
  <2> QED BY <1>1, <2>1, <2>2, EdgesLeadForward
<1>7. f.body[b] \in Seq(Instructions(f)) /\ g.succ \in [N -> Seq(N)] /\ N = ToSet(f.body[b])
  BY <1>1 DEF IsDDG
<1> HIDE DEF g, B, at, cp
<1>8. cp \in [N -> Nat]
  <2>1. NoEdgeLeaves(N, g.succ, {})
    BY DEF NoEdgeLeaves
  <2> HIDE DEF N
  <2> QED BY <1>3, <1>7, <2>1, CriticalPathDescends DEF cp
<1>9. ASSUME NEW n \in N \ B, NEW s \in ToSet(g.succ[n]) \ B
      PROVE  cp[s] < cp[n]
  <2> DEFINE T == {m \in N : m \in B \/ at(s) <= at(m)}
  <2>1. s \in T /\ n \in N \ T
    BY <1>4, <1>5, <1>6
  <2>2. ASSUME NEW m \in T, NEW k \in ToSet(g.succ[m]) PROVE k \in T
    <3>1. CASE m \in B \/ k \in B
      BY <1>2, <1>4, <3>1
    <3>2. CASE m \notin B /\ k \notin B
      <4>1. at(s) <= at(m) /\ at(m) < at(k)
        BY <1>6, <3>2
      <4>2. at(s) \in Nat /\ at(m) \in Nat /\ at(k) \in Nat /\ k \in N
        BY <1>4, <1>5
      <4> QED BY <4>1, <4>2
    <3> QED BY <3>1, <3>2
  <2>3. NoEdgeLeaves(N, g.succ, T)
    BY <2>2 DEF NoEdgeLeaves
  <2> HIDE DEF T, N
  <2>4. \A x \in N \ T : \A y \in ToSet(g.succ[x]) \cap T : cp[y] < cp[x]
    BY <1>3, <1>7, <2>3, CriticalPathDescends DEF cp
  <2> QED BY <2>1, <2>4
<1>10. LP!NodesOf(g) = N /\ LP!NeverReady(g) = B /\ \A s : LP!ToSet(s) = ToSet(s)
  BY <1>1, NeverReadyIsBlocked, SameOperators DEF B
<1>11. LP!HasCriticalPaths(g) /\ LP!ReadyEdgesDescend(g)
  BY <1>3, <1>8, <1>9, <1>10 DEF LP!HasCriticalPaths, LP!ReadyEdgesDescend
<1> QED BY <1>11 DEF g

(* So the call in progress picks by urgency what can get ready.          *)
PassUrgency == pc /= "none" => LP!UrgencyInv

LEMMA UrgencyGoes ==
    ASSUME \A f \in Functions : SSAValid(f, f.body),
           LocalInv, LocalInv', PassUrgency, [Next]_vars
    PROVE  PassUrgency'
<1>1. CASE BuildLocalDDG
  <2>1. schedule' = <<>>
    BY <1>1 DEF BuildLocalDDG, LocalInv
  <2> QED BY <2>1 DEF PassUrgency, LP!UrgencyInv, LP!CriticalPathOrder
<1>2. CASE ScheduleStep
  <2>1. LP!Next /\ pc /= "none" /\ pc' /= "none"
    BY <1>2, SameNext DEF ScheduleStep, List!Next, List!CollectLeaf, List!Pick, List!Release, List!Return
  <2>2. LP!IInv /\ LP!UrgencyInv /\ graph = LocalDDG(fn, block) /\ block \in Blocks(fn)
    BY <2>1, TurnIs, SameIInv DEF PassUrgency
  <2>3. LP!IInv'
    BY <2>1, <2>2, CallSteps
  <2>4. LP!TypeOK /\ LP!TypeOK'
    BY <2>2, <2>3 DEF LP!IInv
  <2>5. LP!HasCriticalPaths(graph) /\ LP!ReadyEdgesDescend(graph)
    <3>1. fn \in Functions
      BY DEF LocalInv
    <3> QED BY <2>2, <3>1, LocalEdgesDescend
  <2>6. LP!UrgencyInv'
    BY <2>1, <2>2, <2>3, <2>4, <2>5, DDGsAreGraphs, LP!UrgencyStep
  <2> QED BY <2>6 DEF PassUrgency
<1>3. CASE ApplyLocalSchedule
  BY <1>3 DEF ApplyLocalSchedule, PassUrgency
<1>4. CASE UNCHANGED vars
  BY <1>4 DEF vars, listVars, PassUrgency, LP!UrgencyInv, LP!CriticalPathOrder
<1> QED BY <1>1, <1>2, <1>3, <1>4 DEF Next

(* Every block still has its instructions, and its terminator at the end.*)
BlocksAreKept ==
    /\ TerminatorsLast(fn, body)
    /\ \A b \in Blocks(fn) : ToSet(body[b]) = ToSet(fn.body[b])

(* What the schedule applied to a block is: a list of its instructions.  *)
LEMMA AppliedIs ==
    ASSUME LocalInv, ApplyLocalSchedule
    PROVE  /\ IsFunction(fn) /\ block \in Blocks(fn) /\ IsPlacement(fn, body)
           /\ graph.nodes = fn.body[block]
           /\ schedule \in Seq(Instructions(fn)) /\ IsInjective(schedule)
           /\ ToSet(schedule) \subseteq ToSet(graph.nodes)
           /\ body' = WithBlockReordered(fn, body, block, schedule)
<1>1. /\ IsFunction(fn) /\ block \in Blocks(fn) /\ IsDDG(fn, graph)
      /\ graph.nodes = fn.body[block] /\ IsPlacement(fn, body) /\ List!IInv
  BY TurnIs DEF ApplyLocalSchedule, LocalInv
<1>2. schedule \in Seq(ToSet(graph.nodes)) /\ IsInjective(schedule)
  BY <1>1, SameOperators DEF List!IInv, List!CallInv, List!TypeOK, List!StateOK, List!ScheduleInv
<1>3. ToSet(graph.nodes) \subseteq Instructions(fn)
  BY <1>1 DEF IsDDG, ToSet
<1>4. schedule \in Seq(Instructions(fn)) /\ ToSet(schedule) \subseteq ToSet(graph.nodes)
  BY <1>2, <1>3, ListFinite
<1>5. body' = WithBlockReordered(fn, body, block, schedule)
  BY DEF ApplyLocalSchedule, WithBlockReordered
<1> QED BY <1>1, <1>2, <1>4, <1>5

LEMMA BlocksStayKept == LocalInv /\ BlocksAreKept /\ [Next]_vars => BlocksAreKept'
<1> SUFFICES ASSUME LocalInv, BlocksAreKept, [Next]_vars PROVE BlocksAreKept'
  OBVIOUS
<1>1. CASE ApplyLocalSchedule
  <2>1. ShufflesBlock(fn, body, body', block)
    BY <1>1, AppliedIs, ReorderShufflesBlock
  <2>2. TerminatorsLast(fn, body')
    BY <1>1, <2>1, AppliedIs, ShuffleKeepsTerminators DEF BlocksAreKept
  <2>3. \A b \in Blocks(fn) : ToSet(body'[b]) = ToSet(body[b])
    <3>1. body[block] \in Seq(Instructions(fn)) /\ IsInjective(body[block])
      BY <1>1, AppliedIs DEF IsPlacement
    <3>2. Shuffled(fn, body[block], body'[block])
      BY <2>1 DEF ShufflesBlock
    <3>3. ToSet(body'[block]) = ToSet(body[block])
      BY <3>1, <3>2, ShuffleIsPermutation
    <3> QED BY <2>1, <3>3 DEF ShufflesBlock
  <2>4. fn' = fn
    BY <1>1 DEF ApplyLocalSchedule
  <2> QED BY <2>2, <2>3, <2>4 DEF BlocksAreKept
<1>2. CASE BuildLocalDDG \/ ScheduleStep \/ UNCHANGED vars
  <2>1. fn' = fn /\ body' = body
    BY <1>2 DEF BuildLocalDDG, ScheduleStep, vars
  <2> QED BY <2>1 DEF BlocksAreKept
<1> QED BY <1>1, <1>2 DEF Next

(* What applying the schedule does to a region of the block.             *)
LEMMA ApplyAllOrNothing ==
    ASSUME \A f \in Functions : SSAValid(f, f.body),
           LocalInv, PassUrgency, BlocksAreKept, ApplyLocalSchedule,
           NEW p \in DOMAIN body[block], ~isSchedulingAnchor(fn, body[block][p]),
           NEW region, region = Region(fn, body[block], p),
           NEW members, members = {body[block][q] : q \in region}
    PROVE  IF members \cap Blocked(graph) /= {}
           THEN \A q \in region : body'[block][q] = body[block][q]
           ELSE \A q, r \in region :
                   q < r => graph.cp[body'[block][q]] >= graph.cp[body'[block][r]]
<1> DEFINE s == body[block]
           c == reorderBlockWithinRegions(fn, schedule, s)
           I == Instructions(fn)
<1>1. /\ IsFunction(fn) /\ block \in Blocks(fn) /\ IsPlacement(fn, body)
      /\ graph.nodes = fn.body[block]
      /\ schedule \in Seq(I) /\ IsInjective(schedule)
      /\ ToSet(schedule) \subseteq ToSet(graph.nodes)
  BY AppliedIs
<1>2. s \in Seq(I) /\ IsInjective(s) /\ body'[block] = c
  <2>1. body \in [Blocks(fn) -> Seq(I)] /\ IsInjective(s)
    BY <1>1 DEF IsPlacement
  <2> QED BY <1>1, <2>1 DEF ApplyLocalSchedule
<1>3. ToSet(schedule) = ToSet(s) \ Blocked(graph)
  <2>1. ToSet(schedule) = ToSet(graph.nodes) \ Blocked(graph)
    BY UnblockedPartIsScheduled DEF ScheduleIsUnblockedPart, ApplyLocalSchedule
  <2> QED BY <1>1, <2>1 DEF BlocksAreKept
<1>4. p \in 1..Len(s) /\ ~isSchedulingAnchor(fn, s[p])
  BY <1>2
<1>5. /\ region \subseteq 1..Len(s) /\ region = Min(region)..Max(region) /\ p \in region
      /\ Min(region) \in Nat /\ Max(region) \in Nat
      /\ \A q \in region : ~isSchedulingAnchor(fn, s[q])
  BY <1>2, <1>4, RegionIs
<1>6. members \subseteq ToSet(s)
  BY <1>2, <1>5 DEF ToSet
<1>7. s /= <<>> /\ IsTerminator(fn, s[Len(s)]) /\ Len(s) \in Nat
  <2>1. s /= <<>> /\ \A k \in DOMAIN s : IsTerminator(fn, s[k]) <=> k = Len(s)
    BY <1>1 DEF BlocksAreKept, TerminatorsLast
  <2>2. Len(s) \in DOMAIN s
    BY <1>2, <2>1
  <2> QED BY <1>2, <2>1, <2>2
<1> HIDE DEF s, c, I
<1>8. CASE members \cap Blocked(graph) /= {}
  <2>1. PICK o \in region : s[o] \in Blocked(graph)
    BY <1>8 DEF s
  <2>2. s[o] \notin ToSet(schedule)
    BY <1>3, <2>1
  <2>3. \A q \in region : c[q] = s[q]
    <3>1. region = Region(fn, s, p)
      BY DEF s
    <3>2. ~({s[q] : q \in Region(fn, s, p)} \subseteq ToSet(schedule))
      BY <2>1, <2>2, <3>1
    <3>3. StaysIn(s, reorderBlockWithinRegions(fn, schedule, s), Region(fn, s, p))
      BY <1>1, <1>2, <1>4, <3>2, IncompleteRegionStays
    <3> QED BY <3>1, <3>3 DEF c, StaysIn
  <2> QED BY <1>2, <1>8, <2>3 DEF s
<1>9. CASE members \cap Blocked(graph) = {}
  <2>1. members \subseteq ToSet(schedule)
    BY <1>3, <1>6, <1>9
  <2>2. Max(region) < Len(s)
    <3>1. Max(region) \in region /\ Max(region) \in 1..Len(s)
      BY <1>5
    <3>2. Max(region) /= Len(s)
      BY <1>5, <1>7, <3>1 DEF isSchedulingAnchor
    <3> QED BY <1>7, <3>1, <3>2
  <2>3. FollowsIn(schedule, s, c, region)
    <3>1. {s[q] : q \in Region(fn, s, p)} \subseteq ToSet(schedule)
      BY <2>1 DEF s
    <3>2. Max(Region(fn, s, p)) < Len(s)
      BY <2>2 DEF s
    <3>3. FollowsIn(schedule, s, reorderBlockWithinRegions(fn, schedule, s), Region(fn, s, p))
      BY <1>1, <1>2, <1>4, <3>1, <3>2, RegionTakesSchedule
    <3> QED BY <3>3 DEF c, s
  <2>4. \A j, k \in 1..Len(schedule) :
          j < k => graph.cp[schedule[j]] >= graph.cp[schedule[k]]
    BY DEF PassUrgency, LP!UrgencyInv, LP!CriticalPathOrder, ApplyLocalSchedule
  <2>5. ASSUME NEW q \in region, NEW r \in region, q < r
        PROVE  graph.cp[c[q]] >= graph.cp[c[r]]
    <3>1. PICK j \in 1..Len(schedule), k \in 1..Len(schedule) :
             j < k /\ schedule[j] = c[q] /\ schedule[k] = c[r]
      BY <2>3, <2>5 DEF FollowsIn
    <3> QED BY <2>4, <3>1
  <2> QED BY <1>2, <1>9, <2>5 DEF s
<1> QED BY <1>8, <1>9

(* The regions of a block are reordered whole or not at all: one with an *)
(* instruction that waits for a PHI stays, any other is then sorted by   *)
(* critical path.                                                        *)
THEOREM LocalRegionsAllOrNothing ==
    ASSUME \A f \in Functions : SSAValid(f, f.body)
    PROVE  Spec => RegionsAllOrNothing
<1> DEFINE Whole ==
      \A p \in DOMAIN body[block] :
          (next' > next /\ ~isSchedulingAnchor(fn, body[block][p])) =>
              LET region  == Region(fn, body[block], p)
                  members == {body[block][q] : q \in region}
              IN  IF members \cap Blocked(graph) /= {}
                  THEN \A q \in region : body'[block][q] = body[block][q]
                  ELSE \A q, r \in region :
                          q < r => graph.cp[body'[block][q]] >= graph.cp[body'[block][r]]
<1>1. Init => PassUrgency /\ BlocksAreKept
  <2> SUFFICES ASSUME Init PROVE PassUrgency /\ BlocksAreKept
    OBVIOUS
  <2>1. IsFunction(fn)
    BY FunctionsAssumption DEF Init
  <2> QED BY <2>1 DEF Init, PassUrgency, BlocksAreKept, IsFunction
<1>2. LocalInv /\ LocalInv' /\ PassUrgency /\ [Next]_vars => PassUrgency'
  BY UrgencyGoes
<1>3. LocalInv /\ PassUrgency /\ BlocksAreKept /\ [Next]_vars => [Whole]_vars
  <2> SUFFICES ASSUME LocalInv, PassUrgency, BlocksAreKept, [Next]_vars,
                      NEW p \in DOMAIN body[block], next' > next,
                      ~isSchedulingAnchor(fn, body[block][p]),
                      NEW region, region = Region(fn, body[block], p),
                      NEW members, members = {body[block][q] : q \in region}
               PROVE  IF members \cap Blocked(graph) /= {}
                      THEN \A q \in region : body'[block][q] = body[block][q]
                      ELSE \A q, r \in region :
                              q < r => graph.cp[body'[block][q]] >= graph.cp[body'[block][r]]
    OBVIOUS
  <2>1. ApplyLocalSchedule
    <3>1. next' /= next
      <4>1. next \in Nat
        BY DEF LocalInv
      <4> QED BY <4>1
    <3> QED BY <3>1 DEF Next, BuildLocalDDG, ScheduleStep, vars
  <2> QED BY <2>1, ApplyAllOrNothing
<1> QED BY <1>1, <1>2, <1>3, BlocksStayKept, LocalInvariant, PTL DEF Spec, RegionsAllOrNothing

(* A block's schedule is sorted by critical path, cyclic graphs included:*)
(* what waits for a PHI is not in it.                                    *)
THEOREM LocalScheduleIsSorted ==
    ASSUME \A f \in Functions : SSAValid(f, f.body)
    PROVE  Spec => [](pc /= "none" => List!CriticalPathOrder)
<1>1. Init => PassUrgency
  BY DEF Init, PassUrgency
<1>2. LocalInv /\ LocalInv' /\ PassUrgency /\ [Next]_vars => PassUrgency'
  BY UrgencyGoes
<1>3. PassUrgency => (pc /= "none" => List!CriticalPathOrder)
  BY DEF PassUrgency, LP!UrgencyInv, LP!CriticalPathOrder, List!CriticalPathOrder
<1> QED BY <1>1, <1>2, <1>3, LocalInvariant, PTL DEF Spec

(* What pickBest relies on holds of the DDG of a block.                  *)
LEMMA LocalGraphsAllowPicking ==
    ASSUME \A f \in Functions : SSAValid(f, f.body)
    PROVE  \A g \in UNION {{LocalDDG(f, b) : b \in Blocks(f)} : f \in Functions} :
              LP!HasCriticalPaths(g) /\ LP!NeverUsesItself(g)
<1> SUFFICES ASSUME NEW f \in Functions, NEW b \in Blocks(f), NEW g, g = LocalDDG(f, b)
             PROVE  LP!HasCriticalPaths(g) /\ LP!NeverUsesItself(g)
  OBVIOUS
<1>1. LP!HasCriticalPaths(g)
  BY LocalEdgesDescend
<1>2. IsFunction(f) /\ IsDDG(f, g)
  BY FunctionsAssumption, LocalDDGIs
<1>3. /\ g.result = [n \in ToSet(f.body[b]) |-> {n} \cap Universe(f)]
      /\ g.operands = [n \in ToSet(f.body[b]) |-> f.use[n]]
      /\ g.nodes = f.body[b]
  BY DEF LocalDDG, ScheduleInput
<1>4. ASSUME NEW n \in g.movable PROVE g.result[n] \cap ToSet(g.operands[n]) = {}
  <2>1. n \in ToSet(f.body[b]) /\ ~IsPHI(f, n)
    BY <1>2, <1>3 DEF IsDDG
  <2>2. n \in Instructions(f)
    <3>1. f.body[b] \in Seq(Instructions(f))
      BY <1>2 DEF IsFunction, IsPlacement
    <3> QED BY <2>1, <3>1, ListFinite
  <2>3. n \notin Operands(f, n)
    BY <1>2, <2>1, <2>2 DEF IsFunction
  <2> QED BY <1>3, <2>1, <2>3 DEF Operands
<1>5. LP!NeverUsesItself(g)
  BY <1>4, SameOperators DEF LP!NeverUsesItself
<1> QED BY <1>1, <1>5

(* While a block is scheduled, pressure decides only between instructions*)
(* of the same critical path, and then for the fewest live values.       *)
THEOREM LocalPicksAreBest ==
    ASSUME \A f \in Functions : SSAValid(f, f.body)
    PROVE  Spec => List!PickIsBestChoice
<1> DEFINE Chosen ==
      \A n \in List!Range(readyQueue) :
          (Len(schedule') > Len(schedule) /\ List!IsInjective(graph.operands[n])) =>
              LET best == List!Last(schedule')
                  Grows(m) == List!Cardinality(List!LiveAfter(graph, m, currentLive))
              IN  \/ graph.cp[best] > graph.cp[n]
                  \/ /\ graph.cp[best] = graph.cp[n]
                     /\ usePressure /\ List!IsInjective(graph.operands[best])
                          => Grows(best) <= Grows(n)
<1>1. LocalInv /\ [Next]_vars => [Chosen]_(List!vars)
  <2> SUFFICES ASSUME LocalInv, [Next]_vars, NEW n \in List!Range(readyQueue),
                      Len(schedule') > Len(schedule), List!IsInjective(graph.operands[n])
               PROVE  LET best == List!Last(schedule')
                          Grows(m) == List!Cardinality(List!LiveAfter(graph, m, currentLive))
                      IN  \/ graph.cp[best] > graph.cp[n]
                          \/ /\ graph.cp[best] = graph.cp[n]
                             /\ usePressure /\ List!IsInjective(graph.operands[best])
                                  => Grows(best) <= Grows(n)
    OBVIOUS
  <2>1. ScheduleStep
    <3>1. Len(schedule) \in Nat
      <4>1. schedule = <<>> \/ List!StateOK
        BY DEF LocalInv
      <4> QED BY <4>1 DEF List!StateOK
    <3>2. schedule' /= schedule /\ ~(schedule' = <<>>)
      BY <3>1
    <3> QED BY <3>2 DEF Next, BuildLocalDDG, ApplyLocalSchedule, vars, listVars
  <2>2. LP!Next /\ pc /= "none"
    BY <2>1, SameNext DEF ScheduleStep, List!Next, List!CollectLeaf, List!Pick, List!Release, List!Return
  <2>3. LP!IInv
    BY <2>2, TurnIs, SameIInv
  <2>4. n \in LP!Range(readyQueue) /\ LP!IsInjective(graph.operands[n])
    BY SameOperators DEF List!Range, LP!Range
  <2>5. \/ graph.cp[LP!Last(schedule')] > graph.cp[n]
        \/ /\ graph.cp[LP!Last(schedule')] = graph.cp[n]
           /\ usePressure /\ LP!IsInjective(graph.operands[LP!Last(schedule')])
                => LP!Cardinality(LP!LiveAfter(graph, LP!Last(schedule'), currentLive))
                      <= LP!Cardinality(LP!LiveAfter(graph, n, currentLive))
    BY <2>2, <2>3, <2>4, DDGsAreGraphs, LocalGraphsAllowPicking, LP!PickStep
  <2>6. List!Last(schedule') = LP!Last(schedule')
    BY DEF List!Last, LP!Last
  <2>7. \A m : List!LiveAfter(graph, m, currentLive) = LP!LiveAfter(graph, m, currentLive)
    BY SameOperators DEF List!LiveAfter, LP!LiveAfter
  <2>8. /\ LP!Cardinality(LP!LiveAfter(graph, LP!Last(schedule'), currentLive))
              = List!Cardinality(List!LiveAfter(graph, List!Last(schedule'), currentLive))
        /\ LP!Cardinality(LP!LiveAfter(graph, n, currentLive))
              = List!Cardinality(List!LiveAfter(graph, n, currentLive))
    BY <2>6, <2>7, SameOperators
  <2>9. LP!IsInjective(graph.operands[LP!Last(schedule')])
          <=> List!IsInjective(graph.operands[List!Last(schedule')])
    BY <2>6, SameOperators
  <2> QED BY <2>5, <2>6, <2>8, <2>9
<1> QED BY <1>1, LocalInvariant, PTL DEF Spec, List!PickIsBestChoice
=============================================================================
