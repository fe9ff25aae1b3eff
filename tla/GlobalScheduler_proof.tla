---------------------- MODULE GlobalScheduler_proof ----------------------
(*************************************************************************)
(* Proofs about the global pass, for every set of functions: it joins    *)
(* what is proved of identifyTraces, listSchedule and applySchedule, each*)
(* of which is only ever called as its own proofs assume.                *)
(*************************************************************************)
EXTENDS GlobalScheduler, IR_proof

(* The graphs of the traces a function may have.                         *)
TraceGraphs ==
    UNION {{TraceDDG(f, t) : t \in {u \in Seq(Blocks(f)) : IsForward(f, u)}} : f \in Functions}

TP == INSTANCE TraceIdentification_proof WITH
          profile <- fn, pc <- tracePc, trace <- growing, stats <- traceStats,
          Profiles <- Functions

LP == INSTANCE ListScheduler_proof WITH
          pc <- listPc, Graphs <- TraceGraphs, Value <- UNION {Universe(f) : f \in Functions}

AP == INSTANCE ApplySchedule_proof WITH pc <- applyPc, Calls <- {}

-----------------------------------------------------------------------------
(* The module's instance of TraceIdentification is the one proved about. *)
LEMMA SameOrders ==
    /\ \A p : Identify!BreadthFirst(p) = TP!BreadthFirst(p)
    /\ \A o, freq : Identify!HottestFirst(o, freq) = TP!HottestFirst(o, freq)
    /\ \A p : Identify!Reachable(p) = TP!Reachable(p)
<1>1. \A p : Identify!BreadthFirst(p) = TP!BreadthFirst(p)
  BY DEF Identify!BreadthFirst, TP!BreadthFirst, Identify!Entered, TP!Entered,
         Identify!ToSet, TP!ToSet
<1>2. \A o, freq : Identify!HottestFirst(o, freq) = TP!HottestFirst(o, freq)
  BY DEF Identify!HottestFirst, TP!HottestFirst, Identify!Cardinality, TP!Cardinality
<1>3. \A p : Identify!Reachable(p) = TP!Reachable(p)
  BY DEF Identify!Reachable, TP!Reachable, Identify!ReachableFrom, TP!ReachableFrom,
         Identify!Succs, TP!Succs, Identify!ToSet, TP!ToSet
<1> QED BY <1>1, <1>2, <1>3

(* So it takes the same profiles,                                        *)
LEMMA SameProfiles == \A p : Identify!IsProfile(p) <=> TP!IsProfile(p)
<1> TAKE p
<1>1. Identify!Reachable(p) = TP!Reachable(p)
  BY SameOrders
<1>2. \A s : Identify!ToSet(s) = TP!ToSet(s)
  BY DEF Identify!ToSet, TP!ToSet
<1>3. Identify!Blocks(p) = TP!Blocks(p) /\ \A b : Identify!Succs(p, b) = TP!Succs(p, b)
  BY <1>2 DEF Identify!Blocks, TP!Blocks, Identify!Succs, TP!Succs
<1> QED BY <1>1, <1>3 DEF Identify!IsProfile, TP!IsProfile

(* has the same invariant,                                               *)
LEMMA SameTraceInv == Identify!IInv <=> TP!IInv
BY SameOrders
   DEF Identify!IInv, Identify!TypeOK, Identify!InputInv, Identify!VisitedInv, Identify!GrowthInv,
       Identify!TracesInv, Identify!Finished, Identify!Growing, Identify!Placed, Identify!IsHotPath,
       Identify!HotForward, Identify!Rejected, Identify!Edges, Identify!OutEdges, Identify!Prob,
       Identify!bfsPos, Identify!SeedOrder, Identify!Blocks, Identify!Succs, Identify!Preds,
       Identify!ToSet, Identify!IsInjective,
       TP!IInv, TP!TypeOK, TP!InputInv, TP!VisitedInv, TP!GrowthInv,
       TP!TracesInv, TP!Finished, TP!Growing, TP!Placed, TP!IsHotPath,
       TP!HotForward, TP!Rejected, TP!Edges, TP!OutEdges, TP!Prob,
       TP!bfsPos, TP!SeedOrder, TP!Blocks, TP!Succs, TP!Preds,
       TP!ToSet, TP!IsInjective

(* and takes the same steps.                                             *)
LEMMA SameTraceSteps == (Identify!Init => TP!Init) /\ (Identify!Next => TP!Next)
<1>1. Identify!Init => TP!Init
  BY SameOrders DEF Identify!Init, TP!Init, Identify!SeedOrder, TP!SeedOrder
<1>2. Identify!Next => TP!Next
  BY DEF Identify!Next, Identify!PickSeed, Identify!GrowForward, Identify!StopForward,
         Identify!GrowBackward, Identify!StopBackward, Identify!Return, Identify!Unvisited,
         Identify!HasSeed, Identify!BestSuccessors, Identify!BestPredecessors, Identify!Eligible,
         Identify!Hot, Identify!Untaken, Identify!Backward, Identify!Counted, Identify!Times, Identify!Listed, Identify!OutEdges,
         Identify!InEdges, Identify!Prob, Identify!bfsPos, Identify!Succs, Identify!Preds,
         Identify!Blocks, Identify!ToSet, Identify!Cardinality,
         TP!Next, TP!PickSeed, TP!GrowForward, TP!StopForward,
         TP!GrowBackward, TP!StopBackward, TP!Return, TP!Unvisited,
         TP!HasSeed, TP!BestSuccessors, TP!BestPredecessors, TP!Eligible,
         TP!Hot, TP!Untaken, TP!Backward, TP!Counted, TP!Times, TP!Listed, TP!OutEdges,
         TP!InEdges, TP!Prob, TP!bfsPos, TP!Succs, TP!Preds,
         TP!Blocks, TP!ToSet, TP!Cardinality
<1> QED BY <1>1, <1>2

(* So what is proved of it holds of the pass's call.                     *)
LEMMA TracesGrow == Identify!IInv /\ [Identify!Next]_traceVars /\ fn' = fn => Identify!IInv'
<1> SUFFICES ASSUME Identify!IInv, [Identify!Next]_traceVars, fn' = fn PROVE Identify!IInv'
  OBVIOUS
<1>1. Threshold \in 1..100 /\ \A p \in Functions : TP!IsProfile(p)
  BY ThresholdAssumption, FunctionsAssumption, SameProfiles
<1>2. TP!IInv /\ [TP!Next]_(TP!vars)
  BY SameTraceInv, SameTraceSteps DEF traceVars, TP!vars
<1>3. TP!IInv'
  BY <1>1, <1>2, TP!TypeStep, TP!InputStep, TP!VisitedStep, TP!GrowthStep, TP!TracesStep DEF TP!IInv
<1>4. TP!IInv' => Identify!IInv'
  BY SameTraceInv, PTL
<1> QED BY <1>3, <1>4

(* The traces lead forward, have no block twice, and share none.         *)
LEMMA TraceFacts ==
    ASSUME Identify!IInv, NEW k \in DOMAIN traces
    PROVE  /\ traces[k] \in Seq(Blocks(fn)) /\ traces[k] /= <<>> /\ IsInjective(traces[k])
           /\ IsForward(fn, traces[k])
           /\ \A t \in DOMAIN traces : t /= k => ToSet(traces[t]) \cap ToSet(traces[k]) = {}
<1>1. Identify!Blocks(fn) = Blocks(fn)
  BY DEF Identify!Blocks, Blocks, Identify!ToSet, ToSet
<1>2. traces \in Seq(Seq(Blocks(fn)))
  BY <1>1 DEF Identify!IInv, Identify!TypeOK
<1>3. traces[k] \in Seq(Blocks(fn))
  BY <1>2
<1>4. traces[k] /= <<>>
  BY DEF Identify!IInv, Identify!TracesInv, Identify!Finished
<1>5. \A t, u \in DOMAIN traces : \A i \in DOMAIN traces[t], j \in DOMAIN traces[u] :
        traces[t][i] = traces[u][j] => t = u /\ i = j
  BY DEF Identify!IInv, Identify!TracesInv
<1>6. IsInjective(traces[k])
  BY <1>5 DEF IsInjective
<1>7. ASSUME NEW t \in DOMAIN traces, t /= k, NEW b \in ToSet(traces[t]), b \in ToSet(traces[k])
      PROVE  FALSE
  <2>1. PICK i \in DOMAIN traces[t] : traces[t][i] = b
    BY <1>7 DEF ToSet
  <2>2. PICK j \in DOMAIN traces[k] : traces[k][j] = b
    BY <1>7 DEF ToSet
  <2> QED BY <1>5, <1>7, <2>1, <2>2
<1>8. IsForward(fn, traces[k])
  <2>1. Threshold \in 1..100 /\ \A p \in Functions : TP!IsProfile(p)
    BY ThresholdAssumption, FunctionsAssumption, SameProfiles
  <2>2. TP!IInv
    BY SameTraceInv
  <2>3. TP!TracesLeadForward
    BY <2>1, <2>2, TP!AllLeadForward
  <2>4. TP!IsForward(fn, traces[k])
    BY <2>3 DEF TP!TracesLeadForward
  <2>5. TP!BreadthFirst(fn) = BreadthFirst(fn) /\ TP!Blocks(fn) = Blocks(fn)
    BY DEF TP!BreadthFirst, BreadthFirst, TP!Entered, Entered, TP!Blocks, Blocks, TP!ToSet, ToSet
  <2> QED BY <2>4, <2>5 DEF TP!IsForward, IsForward
<1> QED BY <1>3, <1>4, <1>6, <1>7, <1>8
-----------------------------------------------------------------------------
(* The DDG of a trace is a graph listSchedule may be called on.          *)
LEMMA DDGsAreGraphs == \A g \in TraceGraphs : LP!IsGraph(g)
<1> SUFFICES ASSUME NEW f \in Functions, NEW t \in Seq(Blocks(f)), IsForward(f, t)
             PROVE  LP!IsGraph(TraceDDG(f, t))
  BY DEF TraceGraphs
<1>0. t /= <<>> /\ IsInjective(t)
  BY FunctionsAssumption, ForwardIsInjective DEF IsForward
<1> DEFINE V == UNION {Universe(h) : h \in Functions}
           g == TraceDDG(f, t)
           N == ToSet(g.nodes)
<1>1. IsDDG(f, g)
  BY <1>0, FunctionsAssumption, TraceDDGIs
<1> HIDE DEF g
<1>2. LP!NodesOf(g) = N
  BY DEF LP!NodesOf, LP!ToSet, ToSet
<1>3. Universe(f) \subseteq V
  OBVIOUS
<1> HIDE DEF V
<1>4. g.nodes \in Seq(N)
  <2>1. g.nodes \in Seq(Instructions(f))
    BY <1>1 DEF IsDDG
  <2>2. \A k \in 1..Len(g.nodes) : g.nodes[k] \in N
    BY <2>1 DEF ToSet
  <2> QED BY <2>1, <2>2
<1>5. \A s : IsInjective(s) <=> LP!IsInjective(s)
  BY DEF IsInjective, LP!IsInjective
<1>6. \A S : IsFiniteSet(S) <=> LP!IsFiniteSet(S)
  BY DEF IsFiniteSet, LP!IsFiniteSet
<1>7. g.result \in [N -> SUBSET V] /\ g.out \in [N -> SUBSET V] /\ g.live \subseteq V
  BY <1>1, <1>3 DEF IsDDG
<1>8. g.operands \in [N -> Seq(V)]
  <2>1. g.operands \in [N -> Seq(Universe(f))]
    BY <1>1 DEF IsDDG
  <2>2. Seq(Universe(f)) \subseteq Seq(V)
    BY <1>3
  <2> HIDE DEF N
  <2> QED BY <2>1, <2>2
<1>9. g.movable \subseteq N
  BY <1>1 DEF IsDDG
<1>10. /\ IsInjective(g.nodes) /\ IsFiniteSet(g.live)
      /\ g.succ \in [N -> Seq(N)]
      /\ \A n \in N : IsInjective(g.succ[n]) /\ IsFiniteSet(g.result[n])
  BY <1>1 DEF IsDDG
<1> HIDE DEF N
<1>11. LP!IsGraph(g)
  BY <1>2, <1>4, <1>5, <1>6, <1>7, <1>8, <1>9, <1>10 DEF LP!IsGraph, V
<1> QED BY <1>11 DEF g

(* So what is proved of listSchedule holds of the pass's calls.          *)
LEMMA CallStarts == LP!Starts => LP!IInv
BY DDGsAreGraphs, LP!StartIInv

(* And goes on holding.                                                  *)
LEMMA CallSteps == LP!IInv /\ [LP!Next]_(LP!vars) => LP!IInv'
BY DDGsAreGraphs, LP!IInvStep

(* The module's instance of ListScheduler is the one proved about.       *)
LEMMA SameOperators ==
    /\ \A s : List!ToSet(s) = ToSet(s) /\ LP!ToSet(s) = ToSet(s)
    /\ \A s : (List!IsInjective(s) <=> IsInjective(s)) /\ (LP!IsInjective(s) <=> IsInjective(s))
    /\ \A S : List!Cardinality(S) = Cardinality(S) /\ LP!Cardinality(S) = Cardinality(S)
    /\ \A S : (List!IsFiniteSet(S) <=> IsFiniteSet(S)) /\ (LP!IsFiniteSet(S) <=> IsFiniteSet(S))
    /\ \A g, n : List!PredsOf(g, n) = LP!PredsOf(g, n)
    /\ \A g : List!NodesOf(g) = ToSet(g.nodes) /\ LP!NodesOf(g) = ToSet(g.nodes)
<1>1. \A s : List!ToSet(s) = ToSet(s) /\ LP!ToSet(s) = ToSet(s)
  BY DEF List!ToSet, LP!ToSet, ToSet
<1>2. \A s : (List!IsInjective(s) <=> IsInjective(s)) /\ (LP!IsInjective(s) <=> IsInjective(s))
  BY DEF List!IsInjective, LP!IsInjective, IsInjective
<1>3. \A S : List!Cardinality(S) = Cardinality(S) /\ LP!Cardinality(S) = Cardinality(S)
  BY DEF List!Cardinality, LP!Cardinality, Cardinality
<1>4. \A S : (List!IsFiniteSet(S) <=> IsFiniteSet(S)) /\ (LP!IsFiniteSet(S) <=> IsFiniteSet(S))
  BY DEF List!IsFiniteSet, LP!IsFiniteSet, IsFiniteSet
<1>5. \A g : List!NodesOf(g) = ToSet(g.nodes) /\ LP!NodesOf(g) = ToSet(g.nodes)
  BY <1>1 DEF List!NodesOf, LP!NodesOf
<1>6. \A g, n : List!PredsOf(g, n) = LP!PredsOf(g, n)
  BY <1>1, <1>5 DEF List!PredsOf, LP!PredsOf
<1> QED BY <1>1, <1>2, <1>3, <1>4, <1>5, <1>6

(* Its critical paths decrease along the edges, what may be queued waits *)
(* only for what may be queued, and nothing uses itself.                 *)
LEMMA DDGsDescend ==
    \A g \in TraceGraphs : /\ LP!HasCriticalPaths(g) /\ LP!EdgesDescend(g)
                           /\ LP!WaitsOnlyForMovable(g) /\ LP!NeverUsesItself(g)
<1> SUFFICES ASSUME NEW f \in Functions, NEW t \in Seq(Blocks(f)), IsForward(f, t), NEW g, g = TraceDDG(f, t)
             PROVE  /\ LP!HasCriticalPaths(g) /\ LP!EdgesDescend(g)
                    /\ LP!WaitsOnlyForMovable(g) /\ LP!NeverUsesItself(g)
  BY DEF TraceGraphs
<1>1. IsFunction(f) /\ t /= <<>> /\ IsInjective(t)
  BY FunctionsAssumption, ForwardIsInjective DEF IsForward
<1> DEFINE N == ToSet(g.nodes)
<1>2. /\ IsDDG(f, g) /\ g.nodes = TraceNodes(f, t)
      /\ \A m, n \in N : n \in ToSet(g.succ[m]) => ~IsTerminator(f, m) /\ ~IsPHI(f, m)
  BY <1>1, TraceDDGIs
<1>3. /\ g.cp \in [N -> Nat]
      /\ \A n \in N : \A s \in ToSet(g.succ[n]) : g.cp[s] < g.cp[n]
  BY <1>1, TraceCriticalPaths
<1>4. LP!HasCriticalPaths(g) /\ LP!EdgesDescend(g)
  BY <1>3, SameOperators DEF LP!HasCriticalPaths, LP!EdgesDescend
<1>5. g.movable = {n \in N : ~IsTerminator(f, n) /\ ~IsPHI(f, n)} /\ g.nodes \in Seq(Instructions(f))
  BY <1>2 DEF IsDDG
<1>6. LP!WaitsOnlyForMovable(g)
  <2>1. \A n \in g.movable : LP!PredsOf(g, n) = {m \in N : n \in ToSet(g.succ[m])}
    BY SameOperators DEF LP!PredsOf
  <2> QED BY <1>2, <1>5, <2>1 DEF LP!WaitsOnlyForMovable
<1>7. LP!NeverUsesItself(g)
  <2>1. /\ g.result = [n \in ToSet(TraceNodes(f, t)) |-> {n} \cap Universe(f)]
        /\ g.operands = [n \in ToSet(TraceNodes(f, t)) |-> f.use[n]]
    BY DEF TraceDDG, ScheduleInput
  <2>2. ASSUME NEW n \in g.movable PROVE g.result[n] \cap ToSet(g.operands[n]) = {}
    <3>1. n \in N /\ ~IsPHI(f, n) /\ n \in Instructions(f)
      BY <1>5, ListFinite
    <3>2. n \notin Operands(f, n)
      BY <1>1, <3>1 DEF IsFunction
    <3> QED BY <1>2, <2>1, <3>1, <3>2 DEF Operands
  <2> QED BY <2>2, SameOperators DEF LP!NeverUsesItself
<1> QED BY <1>4, <1>6, <1>7

(* So its invariant holds together with the one proved inductive,       *)
LEMMA SameIInv == LP!IInv <=> graph \in TraceGraphs /\ List!StateOK /\ List!CallInv
BY SameOperators
   DEF List!CallInv, List!StateOK, List!PredCountExact, List!Unscheduled, List!Scheduled, List!QueueInv,
       List!WorklistInv, List!ScheduleInv, List!DependenceOrder,
       LP!IInv, LP!CallInv, LP!TypeOK, LP!StateOK, LP!PredCountExact, LP!Unscheduled, LP!Scheduled, LP!QueueInv,
       LP!WorklistInv, LP!ScheduleInv, LP!DependenceOrder

(* and its steps are steps there.                                        *)
LEMMA SameNext == List!Next => LP!Next
BY DEF List!Next, LP!Next, List!CollectLeaf, LP!CollectLeaf, List!Pick, LP!Pick,
       List!Release, LP!Release, List!Return, LP!Return, List!Enqueued, LP!Enqueued,
       List!IsBest, LP!IsBest, List!NotWorse, LP!NotWorse, List!Delta, LP!Delta,
       List!pressureDelta, LP!pressureDelta, List!LiveAfter, LP!LiveAfter,
       List!Larger, LP!Larger, List!RemoveAt, LP!RemoveAt, List!ToSet, LP!ToSet,
       List!Cardinality, LP!Cardinality
-----------------------------------------------------------------------------
(* So is the module's instance of ApplySchedule: its operators mean the  *)
(* same,                                                                 *)
LEMMA SameProgramOperators ==
    /\ \A s : Apply!ToSet(s) = ToSet(s) /\ AP!ToSet(s) = ToSet(s)
    /\ \A s : (Apply!IsInjective(s) <=> IsInjective(s)) /\ (AP!IsInjective(s) <=> IsInjective(s))
    /\ \A d, i : Apply!BlockOf(d, i) = BlockOf(d, i) /\ AP!BlockOf(d, i) = BlockOf(d, i)
    /\ \A d, i : Apply!PosOf(d, i) = PosOf(d, i) /\ AP!PosOf(d, i) = PosOf(d, i)
    /\ \A f : Apply!Blocks(f) = Blocks(f) /\ AP!Blocks(f) = Blocks(f)
    /\ \A f : Apply!Instructions(f) = Instructions(f) /\ AP!Instructions(f) = Instructions(f)
    /\ \A f : Apply!Universe(f) = Universe(f) /\ AP!Universe(f) = Universe(f)
    /\ \A f, i : Apply!Operands(f, i) = Operands(f, i) /\ AP!Operands(f, i) = Operands(f, i)
    /\ \A f, i : /\ Apply!isSchedulingAnchor(f, i) <=> isSchedulingAnchor(f, i)
                 /\ AP!isSchedulingAnchor(f, i) <=> isSchedulingAnchor(f, i)
    /\ \A f, i : /\ Apply!SafeToSpeculate(f, i) <=> SafeToSpeculate(f, i)
                 /\ AP!SafeToSpeculate(f, i) <=> SafeToSpeculate(f, i)
<1>1. \A s : Apply!ToSet(s) = ToSet(s) /\ AP!ToSet(s) = ToSet(s)
  BY DEF Apply!ToSet, AP!ToSet, ToSet
<1>2. \A s : (Apply!IsInjective(s) <=> IsInjective(s)) /\ (AP!IsInjective(s) <=> IsInjective(s))
  BY DEF Apply!IsInjective, AP!IsInjective, IsInjective
<1>3. \A d, i : Apply!BlockOf(d, i) = BlockOf(d, i) /\ AP!BlockOf(d, i) = BlockOf(d, i)
  BY DEF Apply!BlockOf, AP!BlockOf, BlockOf, Apply!ToSet, AP!ToSet, ToSet
<1>4. \A d, i : Apply!PosOf(d, i) = PosOf(d, i) /\ AP!PosOf(d, i) = PosOf(d, i)
  BY <1>3 DEF Apply!PosOf, AP!PosOf, PosOf
<1>5. \A f : Apply!Blocks(f) = Blocks(f) /\ AP!Blocks(f) = Blocks(f)
  BY <1>1 DEF Apply!Blocks, AP!Blocks, Blocks
<1>6. \A f : Apply!Instructions(f) = Instructions(f) /\ AP!Instructions(f) = Instructions(f)
  BY DEF Apply!Instructions, AP!Instructions, Instructions
<1>7. \A f : Apply!Universe(f) = Universe(f) /\ AP!Universe(f) = Universe(f)
  BY DEF Apply!Universe, AP!Universe, Universe, Apply!Instructions, AP!Instructions, Instructions,
         Apply!IsVoid, AP!IsVoid, IsVoid
<1>8. \A f, i : Apply!Operands(f, i) = Operands(f, i) /\ AP!Operands(f, i) = Operands(f, i)
  BY <1>1 DEF Apply!Operands, AP!Operands, Operands
<1>9. \A f, i : /\ Apply!isSchedulingAnchor(f, i) <=> isSchedulingAnchor(f, i)
                /\ AP!isSchedulingAnchor(f, i) <=> isSchedulingAnchor(f, i)
  BY DEF Apply!isSchedulingAnchor, AP!isSchedulingAnchor, isSchedulingAnchor,
         Apply!IsPHI, AP!IsPHI, IsPHI, Apply!IsTerminator, AP!IsTerminator, IsTerminator,
         Apply!IsOrderedOp, AP!IsOrderedOp, IsOrderedOp
<1>10. \A f, i : /\ Apply!SafeToSpeculate(f, i) <=> SafeToSpeculate(f, i)
                 /\ AP!SafeToSpeculate(f, i) <=> SafeToSpeculate(f, i)
  BY <1>9 DEF Apply!SafeToSpeculate, AP!SafeToSpeculate, SafeToSpeculate
<1> QED BY <1>1, <1>2, <1>3, <1>4, <1>5, <1>6, <1>7, <1>8, <1>9, <1>10

(* and so do its legal motions;                                          *)
LEMMA SameLegality ==
    ASSUME NEW f, NEW b, NEW c
    PROVE  /\ Apply!IsLegalMotion(f, b, c) <=> IsLegalMotion(f, b, c)
           /\ AP!IsLegalMotion(f, b, c) <=> IsLegalMotion(f, b, c)
           /\ Apply!IsPlacement(f, c) <=> IsPlacement(f, c)
           /\ AP!IsPlacement(f, c) <=> IsPlacement(f, c)
           /\ Apply!OperandsComputed(f, c) <=> OperandsComputed(f, c)
           /\ AP!OperandsComputed(f, c) <=> OperandsComputed(f, c)
<1>1. \A s : Apply!Anchors(f, s) = Anchors(f, s) /\ AP!Anchors(f, s) = Anchors(f, s)
  BY SameProgramOperators DEF Apply!Anchors, AP!Anchors, Anchors
<1>2. \A d, i : Apply!Segment(f, d, i) = Segment(f, d, i) /\ AP!Segment(f, d, i) = Segment(f, d, i)
  BY SameProgramOperators DEF Apply!Segment, AP!Segment, Segment
<1>3. /\ Apply!IsPlacement(f, c) <=> IsPlacement(f, c)
      /\ AP!IsPlacement(f, c) <=> IsPlacement(f, c)
  BY SameProgramOperators DEF Apply!IsPlacement, AP!IsPlacement, IsPlacement
<1>4. \A s : /\ Apply!Front(s) = Front(s) /\ AP!Front(s) = Front(s)
             /\ Apply!Last(s) = Last(s) /\ AP!Last(s) = Last(s)
  BY DEF Apply!Front, AP!Front, Front, Apply!Last, AP!Last, Last
<1>5. \A i : (Apply!IsPHI(f, i) <=> IsPHI(f, i)) /\ (AP!IsPHI(f, i) <=> IsPHI(f, i))
  BY DEF Apply!IsPHI, AP!IsPHI, IsPHI
<1>6. Apply!OperandsComputed(f, c) <=> OperandsComputed(f, c)
  BY SameProgramOperators, <1>4, <1>5, ZenonT(60) DEF Apply!OperandsComputed, OperandsComputed
<1>7. AP!OperandsComputed(f, c) <=> OperandsComputed(f, c)
  BY SameProgramOperators, <1>4, <1>5, ZenonT(60) DEF AP!OperandsComputed, OperandsComputed
<1>8. \A i : /\ Apply!MayMove(f, b, c, i) <=> MayMove(f, b, c, i)
             /\ AP!MayMove(f, b, c, i) <=> MayMove(f, b, c, i)
  BY SameProgramOperators, <1>2 DEF Apply!MayMove, AP!MayMove, MayMove
<1>9. Apply!IsLegalMotion(f, b, c) <=> IsLegalMotion(f, b, c)
  BY SameProgramOperators, <1>1, <1>3, <1>6, <1>8 DEF Apply!IsLegalMotion, IsLegalMotion
<1>10. AP!IsLegalMotion(f, b, c) <=> IsLegalMotion(f, b, c)
  BY SameProgramOperators, <1>1, <1>3, <1>7, <1>8 DEF AP!IsLegalMotion, IsLegalMotion
<1> QED BY <1>3, <1>6, <1>7, <1>9, <1>10

(* its functions and its calls are the same,                             *)
LEMMA SameFunctions ==
    /\ \A f, b : /\ Apply!TerminatorsLast(f, b) <=> TerminatorsLast(f, b)
                 /\ AP!TerminatorsLast(f, b) <=> TerminatorsLast(f, b)
    /\ \A f : (Apply!IsFunction(f) <=> IsFunction(f)) /\ (AP!IsFunction(f) <=> IsFunction(f))
<1>1. \A f, b : /\ Apply!TerminatorsLast(f, b) <=> TerminatorsLast(f, b)
                /\ AP!TerminatorsLast(f, b) <=> TerminatorsLast(f, b)
  BY SameProgramOperators
     DEF Apply!TerminatorsLast, AP!TerminatorsLast, TerminatorsLast,
         Apply!IsTerminator, AP!IsTerminator, IsTerminator
<1>2. ASSUME NEW f
      PROVE  (Apply!IsFunction(f) <=> IsFunction(f)) /\ (AP!IsFunction(f) <=> IsFunction(f))
  <2>1. \A x : Apply!Succs(f, x) = Succs(f, x) /\ AP!Succs(f, x) = Succs(f, x)
    BY SameProgramOperators DEF Apply!Succs, AP!Succs, Succs
  <2>2. \A S : (Apply!IsFiniteSet(S) <=> IsFiniteSet(S)) /\ (AP!IsFiniteSet(S) <=> IsFiniteSet(S))
    BY DEF Apply!IsFiniteSet, AP!IsFiniteSet, IsFiniteSet
  <2>3. \A i : /\ (Apply!IsPHI(f, i) <=> IsPHI(f, i)) /\ (AP!IsPHI(f, i) <=> IsPHI(f, i))
               /\ (Apply!IsVoid(f, i) <=> IsVoid(f, i)) /\ (AP!IsVoid(f, i) <=> IsVoid(f, i))
    BY DEF Apply!IsPHI, AP!IsPHI, IsPHI, Apply!IsVoid, AP!IsVoid, IsVoid
  <2>4. /\ Apply!IsPlacement(f, f.body) <=> IsPlacement(f, f.body)
        /\ AP!IsPlacement(f, f.body) <=> IsPlacement(f, f.body)
        /\ Apply!OperandsComputed(f, f.body) <=> OperandsComputed(f, f.body)
        /\ AP!OperandsComputed(f, f.body) <=> OperandsComputed(f, f.body)
    BY SameLegality
  <2>5. \A n : Apply!Paths(f, f.entry, n) = Paths(f, f.entry, n)
               /\ AP!Paths(f, f.entry, n) = Paths(f, f.entry, n)
    BY DEF Apply!Paths, AP!Paths, Paths, Apply!Succs, AP!Succs, Succs,
           Apply!ToSet, AP!ToSet, ToSet, Apply!Last, AP!Last, Last
  <2>6. \A a, x : /\ Apply!Dominates(f, a, x) <=> Dominates(f, a, x)
                  /\ AP!Dominates(f, a, x) <=> Dominates(f, a, x)
    BY DEF Apply!Dominates, AP!Dominates, Dominates, Apply!ReachableFrom, AP!ReachableFrom,
           ReachableFrom, Apply!Succs, AP!Succs, Succs, Apply!ToSet, AP!ToSet, ToSet
  <2>7. /\ [x \in Blocks(f) |-> {a \in Blocks(f) : Apply!Dominates(f, a, x)}]
             = [x \in Blocks(f) |-> {a \in Blocks(f) : Dominates(f, a, x)}]
        /\ [x \in Blocks(f) |-> {a \in Blocks(f) : AP!Dominates(f, a, x)}]
             = [x \in Blocks(f) |-> {a \in Blocks(f) : Dominates(f, a, x)}]
    BY <2>6
  <2>8. Apply!IsFunction(f) <=> IsFunction(f)
    BY SameProgramOperators, <1>1, <2>2, <2>3, <2>4, <2>5, <2>7 DEF Apply!IsFunction, IsFunction
  <2>9. AP!IsFunction(f) <=> IsFunction(f)
    BY SameProgramOperators, <1>1, <2>2, <2>3, <2>4, <2>5, <2>7 DEF AP!IsFunction, IsFunction
  <2> QED BY <2>8, <2>9
<1> QED BY <1>1, <1>2

(* and the invariant of a call says the same.                            *)
LEMMA SameMotionInv == Apply!MotionInv <=> AP!MotionInv
<1>1. Apply!IsCall(call) <=> AP!IsCall(call)
  BY SameProgramOperators, SameFunctions DEF Apply!IsCall, AP!IsCall
<1>2. Apply!fn = AP!fn /\ Apply!trace = AP!trace /\ Apply!schedule = AP!schedule
  BY DEF Apply!fn, AP!fn, Apply!trace, AP!trace, Apply!schedule, AP!schedule
<1>3. Apply!MovedInTurn <=> AP!MovedInTurn
  BY <1>2, SameProgramOperators
     DEF Apply!MovedInTurn, AP!MovedInTurn, Apply!originalBlock, AP!originalBlock
<1>4. Apply!IsLegalMotion(AP!fn, AP!fn.body, body) <=> AP!IsLegalMotion(AP!fn, AP!fn.body, body)
  BY SameLegality
<1> QED BY <1>1, <1>2, <1>3, <1>4, SameFunctions DEF Apply!MotionInv, AP!MotionInv

(* The steps of the module's instance are steps of the one proved about. *)
LEMMA SameApplyNext == Apply!Next => AP!Next
<1>1. Apply!fn = AP!fn /\ Apply!trace = AP!trace /\ Apply!schedule = AP!schedule
  BY DEF Apply!fn, AP!fn, Apply!trace, AP!trace, Apply!schedule, AP!schedule
<1>2. \A f, sch, s :
        Apply!reorderBlockWithinRegions(f, sch, s) = AP!reorderBlockWithinRegions(f, sch, s)
  BY DEF Apply!reorderBlockWithinRegions, AP!reorderBlockWithinRegions, Apply!Among, AP!Among,
         Apply!Region, AP!Region, Apply!Cardinality, AP!Cardinality, Apply!Max, AP!Max,
         Apply!Min, AP!Min, Apply!isSchedulingAnchor, AP!isSchedulingAnchor, Apply!IsPHI, AP!IsPHI,
         Apply!IsTerminator, AP!IsTerminator, Apply!IsOrderedOp, AP!IsOrderedOp
<1>3. \A i : Apply!originalBlock(i) = AP!originalBlock(i) /\ Apply!OrigIdx(i) = AP!OrigIdx(i)
  BY <1>1, SameProgramOperators
     DEF Apply!originalBlock, AP!originalBlock, Apply!OrigIdx, AP!OrigIdx,
         Apply!tracePos, AP!tracePos
<1>4. \A i, b : Apply!Fails(i, b) = AP!Fails(i, b)
  <2>1. \A S : Apply!Cardinality(S) = AP!Cardinality(S)
    BY DEF Apply!Cardinality, AP!Cardinality
  <2>2. \A i, l : Apply!pressureDelta(i, l) = AP!pressureDelta(i, l)
    BY <1>1, <2>1, SameProgramOperators DEF Apply!pressureDelta, AP!pressureDelta
  <2>3. \A i, b : Apply!WithinBudget(i, b) <=> AP!WithinBudget(i, b)
    BY <2>1, <2>2 DEF Apply!WithinBudget, AP!WithinBudget
  <2>4. \A i, b : Apply!OperandsAvailable(i, b) <=> AP!OperandsAvailable(i, b)
    BY <1>1, SameProgramOperators
       DEF Apply!OperandsAvailable, AP!OperandsAvailable, Apply!DominatesEndOf, AP!DominatesEndOf
  <2> QED BY <1>1, <1>3, <2>3, <2>4, SameProgramOperators
          DEF Apply!Fails, AP!Fails, Apply!isSameLoopOrOuter, AP!isSameLoopOrOuter
<1>5. Apply!Reasons = AP!Reasons
  BY DEF Apply!Reasons, AP!Reasons
<1>6. \A i, t : Apply!Legal(i, t) <=> AP!Legal(i, t)
  BY <1>1, <1>4, <1>5, SameProgramOperators DEF Apply!Legal, AP!Legal
<1>7. \A i : Apply!BestReason(i) = AP!BestReason(i)
  <2>1. \A i, t : Apply!FirstFailure(i, t) = AP!FirstFailure(i, t)
    BY <1>1, <1>4, <1>5 DEF Apply!FirstFailure, AP!FirstFailure, Apply!Min, AP!Min
  <2> QED BY <1>3, <1>5, <2>1 DEF Apply!BestReason, AP!BestReason, Apply!Max, AP!Max
<1>8. \A i, o : Apply!Count(i, o) = AP!Count(i, o)
  BY <1>3 DEF Apply!Count, AP!Count
<1>9. \A i, b : Apply!MoveToEnd(i, b) = AP!MoveToEnd(i, b)
  BY SameProgramOperators
     DEF Apply!MoveToEnd, AP!MoveToEnd, Apply!RemoveAt, AP!RemoveAt, Apply!Front, AP!Front,
         Apply!Last, AP!Last
<1>10. Apply!ReorderBlock => AP!ReorderBlock
  BY <1>1, <1>2 DEF Apply!ReorderBlock, AP!ReorderBlock
<1>11. Apply!StartHoisting => AP!StartHoisting
  BY <1>1, SameProgramOperators DEF Apply!StartHoisting, AP!StartHoisting
<1>12. Apply!Return => AP!Return
  BY <1>1 DEF Apply!Return, AP!Return
<1>13. \A i : Apply!SkipAnchor(i) => AP!SkipAnchor(i)
  BY <1>1, <1>8, SameProgramOperators DEF Apply!SkipAnchor, AP!SkipAnchor
<1>14. \A i : Apply!Hoist(i) => AP!Hoist(i)
  BY <1>1, <1>3, <1>6, <1>8, <1>9, SameProgramOperators DEF Apply!Hoist, AP!Hoist
<1>15. \A i : Apply!Stay(i) => AP!Stay(i)
  BY <1>1, <1>3, <1>6, <1>7, <1>8, SameProgramOperators DEF Apply!Stay, AP!Stay
<1>16. Apply!HoistInstruction => AP!HoistInstruction
  BY <1>1, <1>13, <1>14, <1>15 DEF Apply!HoistInstruction, AP!HoistInstruction
<1> QED BY <1>10, <1>11, <1>12, <1>16 DEF Apply!Next, AP!Next
-----------------------------------------------------------------------------
(* What the invariant says of the function and its traces,               *)
LEMMA PassFacts ==
    ASSUME GlobalInv
    PROVE  /\ fn \in Functions /\ IsFunction(fn)
           /\ Len(traces) \in Nat /\ DOMAIN traces = 1..Len(traces)
           /\ IsPlacement(fn, body) /\ OperandsComputed(fn, body)
<1>1. fn \in Functions
  BY DEF GlobalInv, Identify!IInv, Identify!InputInv
<1>2. traces \in Seq(Seq(Identify!Blocks(fn)))
  BY DEF GlobalInv, Identify!IInv, Identify!TypeOK
<1>3. Len(traces) \in Nat /\ DOMAIN traces = 1..Len(traces)
  BY <1>2
<1> QED BY <1>1, <1>3, FunctionsAssumption DEF GlobalInv, ProgramInv, IsLegalMotion

(* and of the call of listSchedule, if there is one.                     *)
LEMMA TurnFacts ==
    ASSUME GlobalInv, turn \in DOMAIN traces
    PROVE  /\ traces[turn] \in Seq(Blocks(fn)) /\ traces[turn] /= <<>> /\ IsInjective(traces[turn])
           /\ turn \in Nat /\ turn /= 0 /\ tracePc = "done"
           /\ ddgs[turn] = TraceDDG(fn, traces[turn]) /\ ddgs[turn] \in TraceGraphs
           /\ IsDDG(fn, ddgs[turn])
           /\ listPc /= "none" => graph = ddgs[turn] /\ LP!IInv
<1>1. /\ traces[turn] \in Seq(Blocks(fn)) /\ traces[turn] /= <<>> /\ IsInjective(traces[turn])
  BY TraceFacts DEF GlobalInv
<1>2. turn \in Nat /\ turn /= 0
  BY PassFacts
<1>3. tracePc = "done" /\ ddgs[turn] = TraceDDG(fn, traces[turn])
  BY <1>2 DEF GlobalInv, TurnInv
<1>4. ddgs[turn] \in TraceGraphs
  <2>1. fn \in Functions /\ IsForward(fn, traces[turn])
    BY PassFacts, TraceFacts DEF GlobalInv
  <2> QED BY <1>1, <1>3, <2>1 DEF TraceGraphs
<1>5. IsDDG(fn, ddgs[turn])
  BY <1>1, <1>3, PassFacts, TraceDDGIs
<1>6. listPc /= "none" => graph = ddgs[turn] /\ LP!IInv
  BY <1>4, SameIInv DEF GlobalInv, CallsInv
<1> QED BY <1>1, <1>2, <1>3, <1>4, <1>5, <1>6

(* The pass starts with the program as it was.                           *)
LEMMA PassStarts == Init => GlobalInv
<1> SUFFICES ASSUME Init PROVE GlobalInv
  OBVIOUS
<1>1. Identify!IInv
  <2>1. Threshold \in 1..100 /\ \A p \in Functions : TP!IsProfile(p)
    BY ThresholdAssumption, FunctionsAssumption, SameProfiles
  <2> QED BY <2>1, SameTraceInv, SameTraceSteps, TP!Initially DEF Init
<1>2. IsFunction(fn)
  BY <1>1, FunctionsAssumption DEF Identify!IInv, Identify!InputInv
<1>3. body = fn.body /\ listPc = "none" /\ turn = 0
  BY DEF Init
<1>4. IsLegalMotion(fn, fn.body, body) /\ TerminatorsLast(fn, body)
  BY <1>2, <1>3 DEF IsLegalMotion, MayMove, IsFunction
<1>5. TurnInv
  BY <1>3 DEF TurnInv
<1>6. CallsInv
  BY DEF Init, CallsInv
<1> QED BY <1>1, <1>4, <1>5, <1>6 DEF GlobalInv, ProgramInv

(* identifyTraces leaves the program alone,                              *)
LEMMA IdentifyGoes == GlobalInv /\ IdentifyStep => GlobalInv'
<1> SUFFICES ASSUME GlobalInv, IdentifyStep PROVE GlobalInv'
  OBVIOUS
<1>1. fn' = fn /\ tracePc /= "done"
  BY DEF IdentifyStep, Identify!Next, Identify!PickSeed, Identify!GrowForward,
         Identify!StopForward, Identify!GrowBackward, Identify!StopBackward, Identify!Return
<1>2. Identify!IInv'
  BY <1>1, TracesGrow DEF GlobalInv, IdentifyStep
<1>3. turn = 0 /\ body = fn.body /\ listPc = "none" /\ applyPc = "none"
  BY <1>1 DEF GlobalInv, TurnInv, CallsInv
<1>4. /\ ddgs' = ddgs /\ turn' = turn /\ usePressure' = usePressure /\ listPc' = listPc
      /\ schedule' = schedule /\ readyQueue' = readyQueue /\ peak' = peak /\ applyPc' = applyPc
      /\ call' = call /\ body' = body
  BY DEF IdentifyStep, listVars, applyVars
<1>5. TurnInv'
  BY <1>1, <1>3, <1>4 DEF TurnInv
<1>6. ProgramInv'
  BY <1>1, <1>4 DEF GlobalInv, ProgramInv
<1>7. CallsInv'
  BY <1>1, <1>3, <1>4 DEF GlobalInv, CallsInv
<1> QED BY <1>2, <1>5, <1>6, <1>7 DEF GlobalInv

(* and so do the steps after it that leave its result as it is.          *)
LEMMA TracesStay == Identify!IInv /\ UNCHANGED <<fn, traceVars>> => Identify!IInv'
BY TracesGrow DEF traceVars

(* buildDDG and computeCriticalPath come before anything moves.          *)
LEMMA BuildGoes == GlobalInv /\ BuildDDGs => GlobalInv'
<1> SUFFICES ASSUME GlobalInv, BuildDDGs PROVE GlobalInv'
  OBVIOUS
<1>1. Identify!IInv'
  BY TracesStay DEF GlobalInv, BuildDDGs
<1>2. /\ turn = 0 /\ turn' = 1 /\ tracePc = "done" /\ body = fn.body /\ listPc = "none"
      /\ applyPc = "none"
  BY DEF GlobalInv, TurnInv, CallsInv, BuildDDGs, FirstTurn
<1>3. /\ fn' = fn /\ usePressure' = usePressure /\ listPc' = listPc
      /\ schedule' = schedule /\ readyQueue' = readyQueue /\ peak' = peak /\ applyPc' = applyPc
      /\ call' = call /\ body' = body /\ traces' = traces /\ tracePc' = tracePc
      /\ ddgs' = [k \in DOMAIN traces |-> TraceDDG(fn, traces[k])]
  BY DEF BuildDDGs, listVars, applyVars, traceVars
<1>4. TurnInv'
  <2>1. turn' \in Nat /\ turn' /= 0 /\ turn' <= Len(traces) + 1
    BY <1>2, PassFacts
  <2> QED BY <1>2, <1>3, <2>1 DEF TurnInv
<1>5. ProgramInv'
  BY <1>3 DEF GlobalInv, ProgramInv
<1>6. CallsInv'
  BY <1>2, <1>3 DEF GlobalInv, CallsInv
<1> QED BY <1>1, <1>4, <1>5, <1>6 DEF GlobalInv

(* A trace's turn begins a call of listSchedule on its graph.            *)
LEMMA StartScheduleGoes == GlobalInv /\ StartSchedule => GlobalInv'
<1> SUFFICES ASSUME GlobalInv, StartSchedule PROVE GlobalInv'
  OBVIOUS
<1>1. Identify!IInv'
  BY TracesStay DEF GlobalInv, StartSchedule, passVars
<1>2. listPc = "none" /\ applyPc = "none" /\ readyQueue = <<>> /\ schedule = <<>>
  BY DEF GlobalInv, CallsInv, StartSchedule
<1>3. /\ turn \in DOMAIN traces /\ graph' = ddgs[turn] /\ listPc' = "leaves"
      /\ fn' = fn /\ turn' = turn /\ ddgs' = ddgs /\ traces' = traces /\ tracePc' = tracePc
      /\ usePressure' = usePressure /\ readyQueue' = readyQueue /\ schedule' = schedule
      /\ applyPc' = applyPc /\ call' = call /\ body' = body
  BY DEF StartSchedule, passVars, traceVars, applyVars
<1>4. graph' \in TraceGraphs /\ IsDDG(fn, graph')
  BY <1>3, TurnFacts
<1>5. Cardinality(graph'.live) \in Nat
  BY <1>4, FS_CardinalityType DEF IsDDG
<1>6. peak' \in Nat /\ usePressure \in BOOLEAN
  BY <1>5, SameOperators DEF StartSchedule, GlobalInv, CallsInv, List!Larger
<1>7. LP!Starts'
  BY <1>2, <1>3, <1>4, <1>6, SameOperators DEF LP!Starts, StartSchedule
<1>8. List!StateOK' /\ List!CallInv'
  <2>1. LP!Starts' => LP!IInv'
    BY CallStarts, PTL
  <2>2. LP!IInv' => List!StateOK' /\ List!CallInv'
    BY SameIInv, PTL
  <2> QED BY <1>7, <2>1, <2>2
<1>9. TurnInv'
  <2>1. turn /= 0
    BY <1>3, TurnFacts
  <2> QED BY <1>3, <2>1 DEF GlobalInv, TurnInv
<1>10. ProgramInv'
  BY <1>3 DEF GlobalInv, ProgramInv
<1>11. CallsInv'
  BY <1>2, <1>3, <1>6, <1>8 DEF GlobalInv, CallsInv
<1> QED BY <1>1, <1>9, <1>10, <1>11 DEF GlobalInv

(* Its steps preserve what is known of it.                               *)
LEMMA ScheduleGoes == GlobalInv /\ ScheduleStep => GlobalInv'
<1> SUFFICES ASSUME GlobalInv, ScheduleStep PROVE GlobalInv'
  OBVIOUS
<1>1. Identify!IInv'
  BY TracesStay DEF GlobalInv, ScheduleStep, passVars
<1>2. List!Next /\ listPc \in {"leaves", "release"} /\ graph' = graph /\ usePressure' = usePressure
  BY DEF ScheduleStep, List!Next, List!CollectLeaf, List!Pick, List!Release, List!Return
<1>3. /\ fn' = fn /\ turn' = turn /\ ddgs' = ddgs /\ traces' = traces /\ tracePc' = tracePc
      /\ applyPc' = applyPc /\ call' = call /\ body' = body
  BY DEF ScheduleStep, passVars, traceVars, applyVars
<1>4. turn \in DOMAIN traces /\ graph = ddgs[turn] /\ applyPc = "none"
  BY <1>2 DEF GlobalInv, CallsInv
<1>5. LP!IInv'
  <2>1. LP!IInv /\ [LP!Next]_(LP!vars)
    BY <1>2, <1>4, TurnFacts, SameNext
  <2> QED BY <2>1, CallSteps
<1>6. List!StateOK' /\ List!CallInv'
  <2>1. LP!IInv' => List!StateOK' /\ List!CallInv'
    BY SameIInv, PTL
  <2> QED BY <1>5, <2>1
<1>7. peak' \in Nat /\ listPc' \in {"leaves", "release", "done"} /\ usePressure' \in BOOLEAN
  BY <1>6 DEF List!StateOK
<1>8. listPc' = "done" => readyQueue' = <<>>
  BY <1>2 DEF List!Next, List!CollectLeaf, List!Pick, List!Release, List!Return
<1>9. TurnInv'
  <2>1. turn /= 0
    BY <1>4, TurnFacts
  <2> QED BY <1>3, <2>1 DEF GlobalInv, TurnInv
<1>10. ProgramInv'
  BY <1>3 DEF GlobalInv, ProgramInv
<1>11. CallsInv'
  BY <1>2, <1>3, <1>4, <1>6, <1>7, <1>8 DEF GlobalInv, CallsInv
<1> QED BY <1>1, <1>9, <1>10, <1>11 DEF GlobalInv

(* The result of listSchedule is what applySchedule expects: the blocks  *)
(* of the trace are as they were when its graph was built.               *)
LEMMA ApplyStarts ==
    ASSUME GlobalInv, StartApply
    PROVE  Apply!MotionInv'
<1>1. listPc = "done" /\ applyPc = "none"
  BY DEF StartApply
<1>2. turn \in DOMAIN traces
  BY <1>1 DEF GlobalInv, CallsInv
<1> DEFINE tr == traces[turn]
<1>3. /\ tr \in Seq(Blocks(fn)) /\ IsInjective(tr) /\ tr /= <<>>
      /\ graph = TraceDDG(fn, tr) /\ IsDDG(fn, graph) /\ LP!IInv
  BY <1>1, <1>2, TurnFacts
<1>4. IsFunction(fn) /\ IsPlacement(fn, fn.body) /\ IsPlacement(fn, body)
  BY PassFacts DEF IsFunction
<1>5. /\ schedule \in Seq(ToSet(graph.nodes)) /\ IsInjective(schedule)
      /\ ToSet(schedule) \subseteq graph.movable
      /\ graph.movable \subseteq ToSet(graph.nodes)
  BY <1>3, SameOperators
     DEF IsDDG, LP!IInv, LP!CallInv, LP!TypeOK, LP!StateOK, LP!ScheduleInv, LP!Scheduled
<1>6. \A k \in 1..Len(schedule) :
        {m \in ToSet(graph.nodes) : schedule[k] \in ToSet(graph.succ[m])}
            \subseteq {schedule[j] : j \in 1..(k-1)}
  BY <1>3, SameOperators DEF LP!IInv, LP!CallInv, LP!DependenceOrder, LP!PredsOf
<1>7. schedule \in Seq(Instructions(fn)) /\ AfterOperands(fn, schedule)
  BY <1>3, <1>5, <1>6, DependenceKeepsOperands
<1>8. \A i \in ToSet(schedule) : BlockOf(fn.body, i) \in ToSet(tr)
  <2>1. ToSet(graph.nodes) = OnTrace(fn, tr)
    BY <1>3, <1>4, TraceNodesAre, TraceDDGIs
  <2> QED BY <1>5, <2>1 DEF OnTrace, ToSet
<1>9. /\ call'.fn = fn /\ call'.trace = tr /\ call'.schedule = schedule
      /\ applyPc' = "reorder" /\ next' = 1 /\ body' = body
  BY DEF StartApply
<1>10. Apply!IsCall(call')
  BY <1>3, <1>4, <1>5, <1>7, <1>8, <1>9, SameProgramOperators, SameFunctions
     DEF Apply!IsCall, AfterOperands
<1>11. /\ Apply!IsLegalMotion(fn, fn.body, body) /\ Apply!TerminatorsLast(fn, body)
  BY SameLegality, SameFunctions DEF GlobalInv, ProgramInv
<1>12. \A b \in ToSet(tr) : body[b] = fn.body[b]
  BY <1>1, <1>2 DEF GlobalInv, TurnInv
<1>13. ASSUME NEW i \in Instructions(fn), BlockOf(fn.body, i) \in ToSet(tr)
       PROVE  BlockOf(body, i) = BlockOf(fn.body, i)
  <2> DEFINE b == BlockOf(fn.body, i)
  <2>1. b \in Blocks(fn) /\ i \in ToSet(fn.body[b])
    BY <1>4, PlacedOnce
  <2>2. i \in ToSet(body[b])
    BY <1>12, <1>13, <2>1
  <2> HIDE DEF b
  <2> QED BY <1>4, <2>1, <2>2, PlacedOnce DEF b
<1>14. Apply!MovedInTurn'
  BY <1>9, <1>13, SameProgramOperators
     DEF Apply!MovedInTurn, Apply!fn, Apply!trace, Apply!schedule, Apply!originalBlock
<1> QED BY <1>9, <1>10, <1>11, <1>14 DEF Apply!MotionInv, Apply!fn, Apply!trace, Apply!schedule

(* So the call of applySchedule begins as its own proof assumes.         *)
LEMMA StartApplyGoes == GlobalInv /\ StartApply => GlobalInv'
<1> SUFFICES ASSUME GlobalInv, StartApply PROVE GlobalInv'
  OBVIOUS
<1>1. Identify!IInv'
  BY TracesStay DEF GlobalInv, StartApply, passVars
<1>2. /\ listPc = "done" /\ applyPc = "none" /\ applyPc' = "reorder"
      /\ fn' = fn /\ turn' = turn /\ ddgs' = ddgs /\ traces' = traces /\ tracePc' = tracePc
      /\ usePressure' = usePressure /\ UNCHANGED listVars /\ body' = body
      /\ call'.fn = fn /\ call'.trace = traces[turn] /\ call'.schedule = schedule
  BY DEF StartApply, passVars, traceVars
<1>3. /\ listPc' = listPc /\ graph' = graph /\ readyQueue' = readyQueue /\ schedule' = schedule
      /\ peak' = peak /\ worklist' = worklist /\ predCount' = predCount
      /\ currentLive' = currentLive
  BY <1>2 DEF listVars
<1>4. (List!StateOK' <=> List!StateOK) /\ (List!CallInv' <=> List!CallInv)
  BY <1>2, <1>3
     DEF List!CallInv, List!StateOK, List!PredCountExact, List!Unscheduled, List!Scheduled,
         List!QueueInv, List!WorklistInv, List!ScheduleInv, List!DependenceOrder
<1>5. Apply!MotionInv'
  BY ApplyStarts
<1>6. TurnInv'
  BY <1>2, <1>3 DEF GlobalInv, TurnInv
<1>7. ProgramInv'
  BY <1>2 DEF GlobalInv, ProgramInv
<1>8. CallsInv'
  BY <1>2, <1>3, <1>4, <1>5 DEF GlobalInv, CallsInv
<1> QED BY <1>1, <1>6, <1>7, <1>8 DEF GlobalInv

(* What a step of applySchedule does to the program.                     *)
LEMMA ApplyChanges ==
    ASSUME GlobalInv, ApplyStep
    PROVE  /\ listPc = "done" /\ applyPc /= "none" /\ turn \in DOMAIN traces
           /\ call.trace = traces[turn]
           /\ call'.fn = fn /\ call'.trace = call.trace /\ call'.schedule = call.schedule
           /\ Apply!MotionInv' /\ applyPc' /= "none"
           /\ body' = body \/ IsLegalMotion(fn, body, body')
           /\ IsLegalMotion(fn, fn.body, body') /\ TerminatorsLast(fn, body')
           /\ \A b \in Blocks(fn) :
                /\ body'[b] /= body[b] => b \in ToSet(traces[turn])
                /\ b \in fn.headers => ToSet(body'[b]) \subseteq ToSet(body[b])
<1>1. Apply!Next /\ applyPc \in {"reorder", "hoist"}
  BY DEF ApplyStep, Apply!Next, Apply!ReorderBlock, Apply!StartHoisting,
         Apply!HoistInstruction, Apply!Return
<1>2. /\ listPc = "done" /\ call.trace = traces[turn] /\ call.fn = fn
      /\ Apply!MotionInv /\ turn \in DOMAIN traces
  BY <1>1 DEF GlobalInv, CallsInv
<1>3. AP!MotionInv /\ [AP!Next]_(AP!vars)
  BY <1>1, <1>2, SameMotionInv, SameApplyNext
<1>4. AP!fn = fn /\ AP!trace = traces[turn]
  BY <1>2 DEF AP!fn, AP!trace
<1>5. Budget \in Nat \ {0} /\ \A c \in {} : AP!IsCall(c)
  BY BudgetAssumption
<1>6. call' = call
  BY <1>1 DEF Apply!Next, Apply!ReorderBlock, Apply!StartHoisting,
         Apply!HoistInstruction, Apply!Return
<1>7. Apply!MotionInv'
  <2>1. AP!MotionInv'
    BY <1>3, <1>5, AP!MotionStep
  <2>2. AP!MotionInv' => Apply!MotionInv'
    BY SameMotionInv, PTL
  <2> QED BY <2>1, <2>2
<1>8. applyPc' /= "none"
  BY <1>7 DEF Apply!MotionInv
<1>9. /\ body' = body \/ IsLegalMotion(fn, body, body')
      /\ IsLegalMotion(fn, fn.body, body') /\ TerminatorsLast(fn, body')
  <2>1. /\ body' = body \/ AP!IsLegalMotion(fn, body, body')
        /\ AP!IsLegalMotion(fn, fn.body, body') /\ AP!TerminatorsLast(fn, body')
    BY <1>3, <1>4, <1>5, AP!StepMoves
  <2> QED BY <2>1, SameLegality, SameFunctions
<1>10. ASSUME NEW b \in Blocks(fn)
       PROVE  /\ body'[b] /= body[b] => b \in ToSet(traces[turn])
              /\ b \in fn.headers => ToSet(body'[b]) \subseteq ToSet(body[b])
  <2>1. b \in AP!Blocks(AP!fn)
    BY <1>4, SameProgramOperators
  <2>2. /\ body'[b] /= body[b] => b \in AP!ToSet(AP!trace)
        /\ b \in AP!fn.headers => AP!ToSet(body'[b]) \subseteq AP!ToSet(body[b])
    BY <1>3, <1>5, <2>1, AP!StepChanges
  <2> QED BY <1>4, <2>2, SameProgramOperators
<1> QED BY <1>1, <1>2, <1>6, <1>7, <1>8, <1>9, <1>10

(* It goes on with a legal motion from the first program, and leaves the *)
(* traces to come alone.                                                 *)
LEMMA ApplyGoes == GlobalInv /\ ApplyStep => GlobalInv'
<1> SUFFICES ASSUME GlobalInv, ApplyStep PROVE GlobalInv'
  OBVIOUS
<1>1. Identify!IInv'
  BY TracesStay DEF GlobalInv, ApplyStep, passVars
<1>2. /\ fn' = fn /\ turn' = turn /\ ddgs' = ddgs /\ traces' = traces /\ tracePc' = tracePc
      /\ UNCHANGED listVars
  BY DEF ApplyStep, passVars, traceVars
<1>3. /\ listPc' = listPc /\ graph' = graph /\ readyQueue' = readyQueue /\ schedule' = schedule
      /\ peak' = peak /\ worklist' = worklist /\ predCount' = predCount
      /\ currentLive' = currentLive
  BY <1>2 DEF listVars
<1>4. usePressure' = usePressure
  BY DEF ApplyStep, Apply!Next, Apply!ReorderBlock, Apply!StartHoisting,
         Apply!HoistInstruction, Apply!Return
<1>5. (List!StateOK' <=> List!StateOK) /\ (List!CallInv' <=> List!CallInv)
  BY <1>3, <1>4
     DEF List!CallInv, List!StateOK, List!PredCountExact, List!Unscheduled, List!Scheduled,
         List!QueueInv, List!WorklistInv, List!ScheduleInv, List!DependenceOrder
<1>6. TurnInv'
  <2>1. turn \in Nat /\ turn /= 0
    BY ApplyChanges, TurnFacts
  <2>2. ASSUME NEW t \in DOMAIN traces, t > turn, NEW b \in ToSet(traces[t])
        PROVE  body'[b] = fn.body[b]
    <3>1. b \in Blocks(fn)
      <4>1. traces[t] \in Seq(Blocks(fn))
        BY TraceFacts DEF GlobalInv
      <4> QED BY <2>2, <4>1 DEF ToSet
    <3>2. turn \in DOMAIN traces /\ t /= turn
      BY <2>1, <2>2, ApplyChanges
    <3>3. b \notin ToSet(traces[turn])
      BY <2>2, <3>2, TraceFacts DEF GlobalInv
    <3>4. body[b] = fn.body[b]
      BY <2>2 DEF GlobalInv, TurnInv
    <3> QED BY <3>1, <3>3, <3>4, ApplyChanges
  <2>3. applyPc' /= "none"
    BY ApplyChanges
  <2> QED BY <1>2, <2>1, <2>2, <2>3 DEF GlobalInv, TurnInv
<1>7. ProgramInv'
  BY <1>2, ApplyChanges DEF ProgramInv
<1>8. CallsInv'
  BY <1>2, <1>3, <1>4, <1>5, ApplyChanges DEF GlobalInv, CallsInv
<1> QED BY <1>1, <1>6, <1>7, <1>8 DEF GlobalInv

(* The turn goes to the next trace.                                      *)
LEMMA EndTraceGoes == GlobalInv /\ EndTrace => GlobalInv'
<1> SUFFICES ASSUME GlobalInv, EndTrace PROVE GlobalInv'
  OBVIOUS
<1>1. Identify!IInv'
  BY TracesStay DEF GlobalInv, EndTrace
<1>2. /\ fn' = fn /\ turn' = turn + 1 /\ ddgs' = ddgs /\ traces' = traces /\ tracePc' = tracePc
      /\ usePressure' = usePressure /\ listPc' = "none" /\ applyPc' = "none"
      /\ readyQueue' = readyQueue /\ schedule' = <<>> /\ peak' = peak /\ call' = call
      /\ body' = body
  BY DEF EndTrace, traceVars
<1>3. listPc = "done" /\ readyQueue = <<>> /\ turn \in DOMAIN traces
  BY DEF EndTrace, GlobalInv, CallsInv
<1>4. turn \in Nat /\ turn /= 0 /\ Len(traces) \in Nat /\ turn \in 1..Len(traces)
  BY <1>3, TurnFacts, PassFacts
<1>5. TurnInv'
  <2>1. turn' \in Nat /\ turn' /= 0 /\ turn' <= Len(traces) + 1
    BY <1>2, <1>4
  <2>2. ASSUME NEW t \in DOMAIN traces, t > turn' \/ t = turn', NEW b \in ToSet(traces[t])
        PROVE  body[b] = fn.body[b]
    <3>1. t > turn
      <4>1. t \in Nat
        BY PassFacts
      <4> QED BY <1>2, <1>4, <2>2, <4>1
    <3> QED BY <2>2, <3>1 DEF GlobalInv, TurnInv
  <2> QED BY <1>2, <1>4, <2>1, <2>2 DEF GlobalInv, TurnInv
<1>6. ProgramInv'
  BY <1>2 DEF GlobalInv, ProgramInv
<1>7. CallsInv'
  BY <1>2, <1>3 DEF GlobalInv, CallsInv
<1> QED BY <1>1, <1>5, <1>6, <1>7 DEF GlobalInv

(* The invariant of the pass.                                            *)
LEMMA PassStep == GlobalInv /\ [Next]_vars => GlobalInv'
<1>1. GlobalInv /\ UNCHANGED vars => GlobalInv'
  <2> SUFFICES ASSUME GlobalInv, UNCHANGED vars PROVE GlobalInv'
    OBVIOUS
  <2>1. Identify!IInv'
    BY TracesStay DEF GlobalInv, vars, passVars
  <2>2. /\ fn' = fn /\ turn' = turn /\ ddgs' = ddgs /\ traces' = traces /\ tracePc' = tracePc
        /\ usePressure' = usePressure /\ listPc' = listPc /\ graph' = graph
        /\ readyQueue' = readyQueue /\ schedule' = schedule /\ peak' = peak
        /\ worklist' = worklist /\ predCount' = predCount /\ currentLive' = currentLive
        /\ call' = call /\ body' = body /\ applyPc' = applyPc /\ next' = next
    BY DEF vars, passVars, traceVars, listVars, applyVars
  <2>3. (List!StateOK' <=> List!StateOK) /\ (List!CallInv' <=> List!CallInv)
    BY <2>2
       DEF List!CallInv, List!StateOK, List!PredCountExact, List!Unscheduled, List!Scheduled,
           List!QueueInv, List!WorklistInv, List!ScheduleInv, List!DependenceOrder
  <2>4. Apply!MotionInv' <=> Apply!MotionInv
    BY <2>2 DEF Apply!MotionInv, Apply!MovedInTurn, Apply!fn, Apply!trace, Apply!schedule,
                Apply!originalBlock
  <2> QED BY <2>1, <2>2, <2>3, <2>4 DEF GlobalInv, TurnInv, ProgramInv, CallsInv
<1> QED BY <1>1, IdentifyGoes, BuildGoes, StartScheduleGoes, ScheduleGoes, StartApplyGoes,
           ApplyGoes, EndTraceGoes DEF Next, Step

(* It holds throughout the pass.                                         *)
LEMMA GlobalInvariant == Spec => []GlobalInv
BY PassStarts, PassStep, PTL DEF Spec
-----------------------------------------------------------------------------
(* The instance of the abstract specification means the same by a legal  *)
(* motion.                                                               *)
LEMMA SameMotions ==
    ASSUME NEW f, NEW b, NEW c
    PROVE  Motion!IsLegalMotion(f, b, c) <=> IsLegalMotion(f, b, c)
<1>1. \A d, i : Motion!BlockOf(d, i) = BlockOf(d, i)
  BY DEF Motion!BlockOf, BlockOf, Motion!ToSet, ToSet
<1>2. \A d, i : Motion!PosOf(d, i) = PosOf(d, i)
  BY <1>1 DEF Motion!PosOf, PosOf
<1>3. Motion!Blocks(f) = Blocks(f) /\ Motion!Instructions(f) = Instructions(f)
  BY DEF Motion!Blocks, Blocks, Motion!Instructions, Instructions, Motion!ToSet, ToSet
<1>4. \A i : /\ Motion!isSchedulingAnchor(f, i) <=> isSchedulingAnchor(f, i)
             /\ Motion!SafeToSpeculate(f, i) <=> SafeToSpeculate(f, i)
             /\ Motion!IsPHI(f, i) <=> IsPHI(f, i)
  BY DEF Motion!isSchedulingAnchor, isSchedulingAnchor, Motion!SafeToSpeculate, SafeToSpeculate,
         Motion!IsPHI, IsPHI, Motion!IsTerminator, IsTerminator, Motion!IsOrderedOp, IsOrderedOp
<1>5. \A s : Motion!Anchors(f, s) = Anchors(f, s)
  BY <1>4 DEF Motion!Anchors, Anchors, Motion!ToSet, ToSet
<1>6. \A d, i : Motion!Segment(f, d, i) = Segment(f, d, i)
  BY <1>1, <1>2, <1>4 DEF Motion!Segment, Segment
<1>7. Motion!IsPlacement(f, c) <=> IsPlacement(f, c)
  BY <1>3 DEF Motion!IsPlacement, IsPlacement, Motion!ToSet, ToSet, Motion!IsInjective, IsInjective
<1>8. Motion!OperandsComputed(f, c) <=> OperandsComputed(f, c)
  <2>1. \A s : /\ Motion!ToSet(s) = ToSet(s)
               /\ Motion!Front(s) = Front(s)
               /\ Motion!Last(s) = Last(s)
    BY DEF Motion!ToSet, ToSet, Motion!Front, Front, Motion!Last, Last
  <2> QED BY <1>1, <1>2, <1>3, <1>4, <2>1, ZenonT(60) DEF Motion!OperandsComputed, OperandsComputed
<1>9. \A i : Motion!MayMove(f, b, c, i) <=> MayMove(f, b, c, i)
  BY <1>1, <1>4, <1>6 DEF Motion!MayMove, MayMove
<1> QED BY <1>3, <1>5, <1>7, <1>8, <1>9 DEF Motion!IsLegalMotion, IsLegalMotion

(* Only applySchedule touches the program.                               *)
LEMMA ProgramStays ==
    ASSUME [Next]_vars, ~ApplyStep
    PROVE  fn' = fn /\ body' = body
<1>1. CASE IdentifyStep
  BY <1>1 DEF IdentifyStep, applyVars, Identify!Next, Identify!PickSeed, Identify!GrowForward,
              Identify!StopForward, Identify!GrowBackward, Identify!StopBackward, Identify!Return
<1>2. CASE BuildDDGs \/ StartSchedule \/ ScheduleStep \/ StartApply \/ EndTrace
  BY <1>2 DEF BuildDDGs, StartSchedule, ScheduleStep, StartApply, EndTrace, passVars, applyVars
<1>3. CASE UNCHANGED vars
  BY <1>3 DEF vars, passVars, applyVars
<1> QED BY <1>1, <1>2, <1>3 DEF Next, Step

(* Whatever traces, schedules and hoists follow one another, the pass    *)
(* changes the program only by legal code motion.                        *)
THEOREM GlobalPassIsCodeMotion == Spec => IsCodeMotion
<1>1. Init => Motion!Init
  BY DEF Init, Motion!Init
<1>2. GlobalInv /\ [Next]_vars => [Motion!Next]_<<fn, body>>
  <2> SUFFICES ASSUME GlobalInv, [Next]_vars PROVE [Motion!Next]_<<fn, body>>
    OBVIOUS
  <2>1. CASE ApplyStep
    <3>1. fn' = fn
      BY <2>1 DEF ApplyStep, passVars
    <3>2. body' = body \/ Motion!IsLegalMotion(fn, body, body')
      BY <2>1, ApplyChanges, SameMotions
    <3> QED BY <3>1, <3>2 DEF Motion!Next
  <2>2. CASE ~ApplyStep
    BY <2>2, ProgramStays
  <2> QED BY <2>1, <2>2
<1> QED BY <1>1, <1>2, GlobalInvariant, PTL DEF Spec, IsCodeMotion, Motion!Spec

(* The motions of all traces add up to one legal motion: the program the *)
(* pass ends with is legal with respect to the one it was given.         *)
THEOREM PassMotionsAddUp == Spec => []PassIsLegalMotion
<1>1. GlobalInv => PassIsLegalMotion
  BY SameMotions DEF GlobalInv, ProgramInv, PassIsLegalMotion
<1> QED BY <1>1, GlobalInvariant, PTL

(* No DDG is stale when its trace is scheduled, though all of them were  *)
(* built before the first trace was moved: traces share no block, and    *)
(* the edges into a trace from outside are not in its graph.             *)
THEOREM GraphsStayFresh == Spec => []DDGIsFresh
<1>1. GlobalInv => DDGIsFresh
  <2> SUFFICES ASSUME GlobalInv, listPc = "leaves" PROVE DDGIsFresh
    BY DEF DDGIsFresh
  <2> DEFINE tr == traces[turn]
  <2>1. turn \in DOMAIN traces /\ applyPc = "none"
    BY DEF GlobalInv, CallsInv
  <2>2. /\ tr \in Seq(Blocks(fn)) /\ IsInjective(tr) /\ tr /= <<>>
        /\ graph = TraceDDG(fn, tr)
    BY <2>1, TurnFacts
  <2>3. IsFunction(fn) /\ IsPlacement(fn, body)
    BY PassFacts
  <2>4. \A b \in ToSet(tr) : body[b] = fn.body[b]
    BY <2>1 DEF GlobalInv, TurnInv
  <2>5. graph.nodes = TraceNodes(fn, tr) /\ graph.succ = TraceSuccessors(fn, tr)
    BY <2>2, <2>3, TraceDDGIs
  <2> DEFINE now == [fn EXCEPT !.body = body]
  <2>6. now.body = body /\ now.op = fn.op /\ now.use = fn.use
    BY <2>3 DEF IsFunction
  <2> HIDE DEF tr, now
  <2>7. /\ TraceNodes(now, tr) = TraceNodes(fn, tr)
        /\ \A n \in ToSet(TraceNodes(fn, tr)) :
             TraceSuccessors(now, tr)[n] = TraceSuccessors(fn, tr)[n]
    BY <2>2, <2>3, <2>4, <2>6, TraceDDGKept
  <2> QED BY <2>5, <2>7 DEF DDGIsFresh, tr, now
<1> QED BY <1>1, GlobalInvariant, PTL

(* The turn of a trace changes its own blocks only, so the pass needs no *)
(* bookkeeping code beside it, and adds nothing to a loop header.        *)
THEOREM OnlyTheTraceChanges == Spec => OnlyTraceChanges
<1> DEFINE Changes ==
      \A b \in Blocks(fn) :
          /\ body'[b] /= body[b] => b \in ToSet(traces[turn])
          /\ b \in fn.headers => ToSet(body'[b]) \subseteq ToSet(body[b])
<1>1. GlobalInv /\ [Next]_vars => Changes
  <2> SUFFICES ASSUME GlobalInv, [Next]_vars PROVE Changes
    OBVIOUS
  <2>1. CASE ApplyStep
    BY <2>1, ApplyChanges
  <2>2. CASE ~ApplyStep
    BY <2>2, ProgramStays
  <2> QED BY <2>1, <2>2
<1>2. Changes => [Changes]_vars
  OBVIOUS
<1> QED BY <1>1, <1>2, GlobalInvariant, PTL DEF Spec, OnlyTraceChanges

(* The call of listSchedule that is under way, and its graph.            *)
LEMMA CallGraph ==
    ASSUME GlobalInv, listPc /= "none"
    PROVE  graph \in TraceGraphs /\ LP!IInv
<1>1. turn \in DOMAIN traces
  BY DEF GlobalInv, CallsInv
<1> QED BY <1>1, TurnFacts

(* In the graph of a trace no instruction that can be queued waits for   *)
(* one that cannot: buildDDG gives PHIs no node and terminators no edge. *)
THEOREM NoneWaitsInTraces == Spec => [](listPc /= "none" => List!NoneWaitsForUnmovable)
<1>1. GlobalInv => (listPc /= "none" => List!NoneWaitsForUnmovable)
  <2> SUFFICES ASSUME GlobalInv, listPc /= "none" PROVE List!NoneWaitsForUnmovable
    OBVIOUS
  <2>1. graph \in TraceGraphs
    BY CallGraph
  <2>2. LP!WaitsOnlyForMovable(graph)
    BY <2>1, DDGsDescend
  <2> QED BY <2>2, SameOperators
          DEF List!NoneWaitsForUnmovable, List!WaitsOnlyForMovable, LP!WaitsOnlyForMovable
<1> QED BY <1>1, GlobalInvariant, PTL

(* Every DDG the pass schedules is acyclic, with critical paths that     *)
(* decrease along its edges: a trace is a forward path, and an operand is*)
(* computed on every path before it is used.                             *)
THEOREM CriticalPathsInTraces ==
    Spec => [](listPc /= "none" => List!CriticalPathCoversSuccessors)
<1>1. GlobalInv => (listPc /= "none" => List!CriticalPathCoversSuccessors)
  <2> SUFFICES ASSUME GlobalInv, listPc /= "none" PROVE List!CriticalPathCoversSuccessors
    OBVIOUS
  <2>1. graph \in TraceGraphs
    BY CallGraph
  <2>2. LP!EdgesDescend(graph)
    BY <2>1, DDGsDescend
  <2> QED BY <2>2, SameOperators
          DEF List!CriticalPathCoversSuccessors, List!EdgesDescend, LP!EdgesDescend
<1> QED BY <1>1, GlobalInvariant, PTL

(* So every trace of every function gets a complete schedule: when       *)
(* listSchedule returns, each instruction that may move is in it, once.  *)
THEOREM TracesAreScheduled == Spec => []List!ScheduleComplete
<1>1. GlobalInv => List!ScheduleComplete
  <2> SUFFICES ASSUME GlobalInv, listPc = "done" PROVE List!ScheduleComplete
    BY DEF List!ScheduleComplete
  <2>1. LP!IInv /\ readyQueue = <<>>
    BY CallGraph DEF GlobalInv, CallsInv
  <2>2. LP!ScheduleComplete
    BY <2>1, DDGsAreGraphs, DDGsDescend, LP!EmptyQueueIsComplete
  <2> QED BY <2>2, SameOperators
          DEF List!ScheduleComplete, LP!ScheduleComplete, List!Scheduled, LP!Scheduled
<1> QED BY <1>1, GlobalInvariant, PTL

(* And one in which critical paths only decrease.                        *)
PassUrgency == listPc /= "none" => LP!UrgencyInv

LEMMA UrgencyStays ==
    ASSUME PassUrgency, UNCHANGED <<listPc, graph, worklist, readyQueue, schedule>>
    PROVE  PassUrgency'
BY DEF PassUrgency, LP!UrgencyInv, LP!CriticalPathOrder

LEMMA UrgencyGoes == GlobalInv /\ GlobalInv' /\ PassUrgency /\ [Next]_vars => PassUrgency'
<1> SUFFICES ASSUME GlobalInv, GlobalInv', PassUrgency, [Next]_vars PROVE PassUrgency'
  OBVIOUS
<1>1. CASE StartSchedule
  <2>1. schedule' = <<>>
    BY <1>1 DEF StartSchedule, GlobalInv, CallsInv
  <2> QED BY <2>1 DEF PassUrgency, LP!UrgencyInv, LP!CriticalPathOrder
<1>2. CASE ScheduleStep
  <2>1. LP!Next /\ listPc /= "none"
    BY <1>2, SameNext DEF ScheduleStep, List!Next, List!CollectLeaf, List!Pick, List!Release, List!Return
  <2>2. LP!IInv /\ LP!UrgencyInv
    BY <2>1, CallGraph DEF PassUrgency
  <2>3. LP!IInv'
    BY <2>1, <2>2, CallSteps
  <2>4. LP!TypeOK /\ LP!TypeOK'
    BY <2>2, <2>3 DEF LP!IInv
  <2>5. LP!UrgencyInv'
    <3>1. LP!HasCriticalPaths(graph) /\ LP!EdgesDescend(graph)
      BY <2>4, DDGsDescend DEF LP!TypeOK
    <3>2. LP!ReadyEdgesDescend(graph)
      BY <3>1, DDGsAreGraphs, LP!AllEdgesDescend
    <3> QED BY <2>1, <2>2, <2>3, <2>4, <3>1, <3>2, DDGsAreGraphs, LP!UrgencyStep
  <2> QED BY <2>5 DEF PassUrgency
<1>3. CASE EndTrace
  BY <1>3 DEF EndTrace, PassUrgency
<1>4. CASE IdentifyStep \/ BuildDDGs \/ StartApply \/ ApplyStep \/ UNCHANGED vars
  <2>1. UNCHANGED <<listPc, graph, worklist, readyQueue, schedule>>
    BY <1>4 DEF IdentifyStep, BuildDDGs, StartApply, ApplyStep, vars, listVars
  <2> QED BY <2>1, UrgencyStays
<1> QED BY <1>1, <1>2, <1>3, <1>4 DEF Next, Step

THEOREM TracesAreSortedByUrgency == Spec => [](listPc /= "none" => List!CriticalPathOrder)
<1>1. Init => PassUrgency
  BY DEF Init, PassUrgency
<1>2. PassUrgency => (listPc /= "none" => List!CriticalPathOrder)
  BY DEF PassUrgency, LP!UrgencyInv, LP!CriticalPathOrder, List!CriticalPathOrder
<1> QED BY <1>1, <1>2, UrgencyGoes, GlobalInvariant, PTL DEF Spec

(* While the pass picks, pressure decides only between instructions of   *)
(* the same critical path, and then for the fewest live values.          *)
THEOREM TracesArePickedBest == Spec => List!PickIsBestChoice
<1> DEFINE Chosen ==
      \A n \in List!Range(readyQueue) :
          (Len(schedule') > Len(schedule) /\ List!IsInjective(graph.operands[n])) =>
              LET best == List!Last(schedule')
                  Grows(m) == List!Cardinality(List!LiveAfter(graph, m, currentLive))
              IN  \/ graph.cp[best] > graph.cp[n]
                  \/ /\ graph.cp[best] = graph.cp[n]
                     /\ usePressure /\ List!IsInjective(graph.operands[best])
                          => Grows(best) <= Grows(n)
<1>1. GlobalInv /\ [Next]_vars => [Chosen]_(List!vars)
  <2> SUFFICES ASSUME GlobalInv, [Next]_vars, NEW n \in List!Range(readyQueue),
                      Len(schedule') > Len(schedule), List!IsInjective(graph.operands[n])
               PROVE  LET best == List!Last(schedule')
                          Grows(m) == List!Cardinality(List!LiveAfter(graph, m, currentLive))
                      IN  \/ graph.cp[best] > graph.cp[n]
                          \/ /\ graph.cp[best] = graph.cp[n]
                             /\ usePressure /\ List!IsInjective(graph.operands[best])
                                  => Grows(best) <= Grows(n)
    OBVIOUS
  <2>1. ScheduleStep
    <3>1. Len(schedule) \in Nat
      <4>1. schedule = <<>> \/ List!StateOK
        BY DEF GlobalInv, CallsInv
      <4> QED BY <4>1 DEF List!StateOK
    <3>2. schedule' /= schedule /\ ~(schedule' = <<>>)
      BY <3>1
    <3> QED BY <3>2 DEF Next, Step, IdentifyStep, BuildDDGs, StartSchedule, StartApply, ApplyStep,
                        EndTrace, vars, listVars
  <2>2. LP!Next /\ listPc /= "none"
    BY <2>1, SameNext DEF ScheduleStep, List!Next, List!CollectLeaf, List!Pick, List!Release, List!Return
  <2>3. LP!IInv
    BY <2>2, CallGraph
  <2>4. n \in LP!Range(readyQueue) /\ LP!IsInjective(graph.operands[n])
    BY SameOperators DEF List!Range, LP!Range
  <2>5. \/ graph.cp[LP!Last(schedule')] > graph.cp[n]
        \/ /\ graph.cp[LP!Last(schedule')] = graph.cp[n]
           /\ usePressure /\ LP!IsInjective(graph.operands[LP!Last(schedule')])
                => LP!Cardinality(LP!LiveAfter(graph, LP!Last(schedule'), currentLive))
                      <= LP!Cardinality(LP!LiveAfter(graph, n, currentLive))
    BY <2>2, <2>3, <2>4, DDGsAreGraphs, DDGsDescend, LP!PickStep
  <2>6. List!Last(schedule') = LP!Last(schedule')
    BY DEF List!Last, LP!Last
  <2>7. \A m : List!LiveAfter(graph, m, currentLive) = LP!LiveAfter(graph, m, currentLive)
    BY SameOperators DEF List!LiveAfter, LP!LiveAfter
  <2>8. /\ LP!Cardinality(LP!LiveAfter(graph, LP!Last(schedule'), currentLive))
              = List!Cardinality(List!LiveAfter(graph, List!Last(schedule'), currentLive))
        /\ LP!Cardinality(LP!LiveAfter(graph, n, currentLive))
              = List!Cardinality(List!LiveAfter(graph, n, currentLive))
    BY <2>6, <2>7, SameOperators
  <2>9. LP!IsInjective(graph.operands[LP!Last(schedule')])
          <=> List!IsInjective(graph.operands[List!Last(schedule')])
    BY <2>6, SameOperators
  <2> QED BY <2>5, <2>6, <2>8, <2>9
<1> QED BY <1>1, GlobalInvariant, PTL DEF Spec, List!PickIsBestChoice
=============================================================================
