-------------------------- MODULE ListScheduler --------------------------
(*************************************************************************)
(* listSchedule() of listScheduler.hpp: one call, on one graph.          *)
(*                                                                       *)
(* The call resets predCount, walks the nodes for the leaves             *)
(* (CollectLeaf), then repeats: take the best ready node (Pick), and for *)
(* each of its successors decrement predCount and queue the node when it *)
(* drops to zero (Release).  It ends when the queue is empty (Return).   *)
(* `worklist` is what is left of the vector the current inner loop walks.*)
(*************************************************************************)
EXTENDS Integers, Sequences, FiniteSets, SequencesExt

CONSTANTS
    Value,      \* every IR value: arguments and non-void instructions
    Graphs      \* the graphs listSchedule may be called on (see DDG)

NodesOf(g) == ToSet(g.nodes)

PredsOf(g, n) == {m \in NodesOf(g) : n \in ToSet(g.succ[m])}

IsGraph(g) ==
    /\ g.nodes \in Seq(NodesOf(g)) /\ IsInjective(g.nodes)
    /\ g.succ \in [NodesOf(g) -> Seq(NodesOf(g))]
    /\ \A n \in NodesOf(g) : IsInjective(g.succ[n])     \* addEdge's duplicate test
    /\ g.movable \subseteq NodesOf(g)
    /\ g.result \in [NodesOf(g) -> SUBSET Value]
    /\ \A n \in NodesOf(g) : IsFiniteSet(g.result[n])
    /\ g.operands \in [NodesOf(g) -> Seq(Value)]
    /\ g.out \in [NodesOf(g) -> SUBSET Value]
    /\ g.live \subseteq Value /\ IsFiniteSet(g.live)

ASSUME GraphsAssumption == \A g \in Graphs : IsGraph(g)

(* A critical path is a number of cycles.                                *)
HasCriticalPaths(g) == g.cp \in [NodesOf(g) -> Nat]

(* What a DDG of a trace adds, and one of a block with PHIs does not:    *)
(* each node's critical path is longer than its successors' (the graph   *)
(* is acyclic), and no movable node waits for one that is never queued.  *)
EdgesDescend(g) ==
    \A n \in NodesOf(g) : \A s \in ToSet(g.succ[n]) : g.cp[s] < g.cp[n]

WaitsOnlyForMovable(g) == \A n \in g.movable : PredsOf(g, n) \subseteq g.movable

(* In SSA, only a PHI or code that is never executed uses its own result.*)
NeverUsesItself(g) == \A n \in g.movable : g.result[n] \cap ToSet(g.operands[n]) = {}

VARIABLES
    graph,          \* the DDG
    usePressure,    \* useRegPressure
    pc,             \* the loop being run: "leaves", "release", or "done"
    worklist,       \* the nodes the inner loop has still to visit
    predCount,      \* [node -> Int], DDGNode::predCount
    readyQueue,     \* sequence of nodes
    currentLive,    \* the live set
    schedule,       \* sequence of nodes, the result
    peak            \* g_peakLivePressure, SCHED_STATS on

vars == <<graph, usePressure, pc, worklist, predCount, readyQueue,
          currentLive, schedule, peak>>

Larger(a, b) == IF a >= b THEN a ELSE b

Init ==
    /\ graph \in Graphs
    /\ usePressure \in BOOLEAN
    /\ pc = "leaves"
    /\ worklist = graph.nodes
    /\ predCount = [n \in NodesOf(graph) |-> Cardinality(PredsOf(graph, n))]
    /\ readyQueue = <<>>
    /\ currentLive = graph.live
    /\ schedule = <<>>
    /\ peak = Cardinality(graph.live)

-----------------------------------------------------------------------------
(* The change in the number of live values that scheduling n is charged: *)
(* its result if it is new, and every operand (as often as it occurs)    *)
(* that is live now and not live out of n's block.                       *)
pressureDelta(g, n, live) ==
      Cardinality(g.result[n] \ live)
    - Cardinality({k \in DOMAIN g.operands[n] : g.operands[n][k] \in live \ g.out[n]})

(* Fault: the test for a result is missing.                              *)
LiveAfter_NoTypeTest(g, n, live) ==
    (live \cup {n}) \ (ToSet(g.operands[n]) \ g.out[n])

(* updateLiveSet: the result enters, operands not live out leave.        *)
LiveAfter(g, n, live) ==
    (live \cup g.result[n]) \ (ToSet(g.operands[n]) \ g.out[n])

Delta(n) == IF usePressure THEN pressureDelta(graph, n, currentLive) ELSE 0

(* Fault: the delta decides before the critical path.                    *)
NotWorse_DeltaFirst(k, j) ==
    LET n == readyQueue[k]
        m == readyQueue[j]
    IN  \/ Delta(n) < Delta(m)
        \/ Delta(n) = Delta(m) /\ graph.cp[n] > graph.cp[m]
        \/ Delta(n) = Delta(m) /\ graph.cp[n] = graph.cp[m] /\ k <= j

(* Fault: the sign of the delta is taken the wrong way.                  *)
NotWorse_HighestDelta(k, j) ==
    LET n == readyQueue[k]
        m == readyQueue[j]
    IN  \/ graph.cp[n] > graph.cp[m]
        \/ graph.cp[n] = graph.cp[m] /\ Delta(n) > Delta(m)
        \/ graph.cp[n] = graph.cp[m] /\ Delta(n) = Delta(m) /\ k <= j

(* pickBest: position k beats j on the critical path, then on the        *)
(* pressure delta, then by coming first.                                 *)
NotWorse(k, j) ==
    LET n == readyQueue[k]
        m == readyQueue[j]
    IN  \/ graph.cp[n] > graph.cp[m]
        \/ graph.cp[n] = graph.cp[m] /\ Delta(n) < Delta(m)
        \/ graph.cp[n] = graph.cp[m] /\ Delta(n) = Delta(m) /\ k <= j

IsBest(k) == \A j \in 1..Len(readyQueue) : NotWorse(k, j)

(* A node whose last predecessor is gone joins the queue unless it is a  *)
(* terminator or a PHI.                                                  *)
Enqueued(n) == IF n \in graph.movable THEN Append(readyQueue, n) ELSE readyQueue

-----------------------------------------------------------------------------
CollectLeaf ==
    /\ pc = "leaves"
    /\ worklist /= <<>>
    /\ worklist' = Tail(worklist)
    /\ readyQueue' = IF predCount[Head(worklist)] = 0
                     THEN Enqueued(Head(worklist)) ELSE readyQueue
    /\ UNCHANGED <<graph, usePressure, pc, predCount, currentLive, schedule, peak>>

(* Fault: the front of the queue is erased, not the chosen node.         *)
Pick_EraseFront ==
    /\ pc \in {"leaves", "release"}
    /\ worklist = <<>>
    /\ \E k \in 1..Len(readyQueue) :
        /\ IsBest(k)
        /\ schedule' = Append(schedule, readyQueue[k])
        /\ readyQueue' = Tail(readyQueue)
        /\ currentLive' = LiveAfter(graph, readyQueue[k], currentLive)
        /\ worklist' = graph.succ[readyQueue[k]]
    /\ peak' = Larger(peak, Cardinality(currentLive'))
    /\ pc' = "release"
    /\ UNCHANGED <<graph, usePressure, predCount>>

Pick ==
    /\ pc \in {"leaves", "release"}
    /\ worklist = <<>>
    /\ \E k \in 1..Len(readyQueue) :
        /\ IsBest(k)
        /\ schedule' = Append(schedule, readyQueue[k])
        /\ readyQueue' = RemoveAt(readyQueue, k)
        /\ currentLive' = LiveAfter(graph, readyQueue[k], currentLive)
        /\ worklist' = graph.succ[readyQueue[k]]
    /\ peak' = Larger(peak, Cardinality(currentLive'))
    /\ pc' = "release"
    /\ UNCHANGED <<graph, usePressure, predCount>>

(* Faults: the loop ends when it has queued a node; the count is tested  *)
(* before the decrement.                                                 *)
Release_StopAtReady ==
    /\ pc = "release"
    /\ worklist /= <<>>
    /\ worklist' = IF predCount[Head(worklist)] = 1 THEN <<>> ELSE Tail(worklist)
    /\ predCount' = [predCount EXCEPT ![Head(worklist)] = @ - 1]
    /\ readyQueue' = IF predCount[Head(worklist)] = 1
                     THEN Enqueued(Head(worklist)) ELSE readyQueue
    /\ UNCHANGED <<graph, usePressure, pc, currentLive, schedule, peak>>

Release_TestBefore ==
    /\ pc = "release"
    /\ worklist /= <<>>
    /\ worklist' = Tail(worklist)
    /\ predCount' = [predCount EXCEPT ![Head(worklist)] = @ - 1]
    /\ readyQueue' = IF predCount[Head(worklist)] = 0
                     THEN Enqueued(Head(worklist)) ELSE readyQueue
    /\ UNCHANGED <<graph, usePressure, pc, currentLive, schedule, peak>>

Release ==
    /\ pc = "release"
    /\ worklist /= <<>>
    /\ worklist' = Tail(worklist)
    /\ predCount' = [predCount EXCEPT ![Head(worklist)] = @ - 1]
    /\ readyQueue' = IF predCount[Head(worklist)] = 1
                     THEN Enqueued(Head(worklist)) ELSE readyQueue
    /\ UNCHANGED <<graph, usePressure, pc, currentLive, schedule, peak>>

(* Fault: the loop waits for every node.                                 *)
Return_AllNodes ==
    /\ Len(schedule) = Len(graph.nodes)
    /\ worklist = <<>>
    /\ pc' = "done"
    /\ UNCHANGED <<graph, usePressure, worklist, predCount, readyQueue,
                   currentLive, schedule, peak>>

Return ==
    /\ pc \in {"leaves", "release"}
    /\ worklist = <<>>
    /\ readyQueue = <<>>
    /\ pc' = "done"
    /\ UNCHANGED <<graph, usePressure, worklist, predCount, readyQueue,
                   currentLive, schedule, peak>>

Next == CollectLeaf \/ Pick \/ Release \/ Return

Spec == Init /\ [][Next]_vars /\ WF_vars(Next)
-----------------------------------------------------------------------------
Scheduled == ToSet(schedule)

Unscheduled(n) == PredsOf(graph, n) \ Scheduled

(* Type correctness of the state of one listSchedule call.               *)
StateOK ==
    /\ usePressure \in BOOLEAN
    /\ pc \in {"leaves", "release", "done"}
    /\ worklist \in Seq(NodesOf(graph))
    /\ predCount \in [NodesOf(graph) -> Int]
    /\ readyQueue \in Seq(NodesOf(graph))
    /\ currentLive \subseteq Value /\ IsFiniteSet(currentLive)
    /\ schedule \in Seq(NodesOf(graph))
    /\ peak \in Nat

TypeOK == graph \in Graphs /\ StateOK

(* DDGNode::predCount is the number of predecessors not yet scheduled,   *)
(* one more for the successors the inner loop has still to visit.        *)
PredCountExact ==
    \A n \in NodesOf(graph) :
        predCount[n] = Cardinality(Unscheduled(n))
                       + (IF pc = "release" /\ n \in ToSet(worklist) THEN 1 ELSE 0)

(* The result respects every dependence: an instruction appears only     *)
(* after all of its predecessors in the DDG.                             *)
DependenceOrder ==
    \A i \in 1..Len(schedule) :
        PredsOf(graph, schedule[i]) \subseteq {schedule[j] : j \in 1..(i-1)}

(* No wake-up is lost and none is given twice: between two picks the     *)
(* queue lists, once each, exactly the movable nodes that are not        *)
(* scheduled and whose predecessors all are.                             *)
ReadyQueueExact ==
    worklist = <<>> =>
        /\ IsInjective(readyQueue)
        /\ ToSet(readyQueue) = {n \in graph.movable \ Scheduled : Unscheduled(n) = {}}

(* The strengthening that makes DependenceOrder inductive: what the      *)
(* queue, the schedule and the inner loop's worklist hold between two    *)
(* steps.  A node that is queued or scheduled has no predecessor left,   *)
(* so the loop never meets it again.                                     *)
QueueInv ==
    /\ IsInjective(readyQueue)
    /\ ToSet(readyQueue) \subseteq graph.movable \ Scheduled
    /\ \A n \in ToSet(readyQueue) \cup Scheduled : predCount[n] = 0
    /\ \A n \in graph.movable :
          predCount[n] = 0 =>
              \/ n \in ToSet(readyQueue) \cup Scheduled
              \/ pc = "leaves" /\ n \in ToSet(worklist)

WorklistInv ==
    /\ IsInjective(worklist)
    /\ pc = "leaves" => schedule = <<>> /\ ToSet(worklist) \cap ToSet(readyQueue) = {}
    /\ pc = "done" => worklist = <<>>

ScheduleInv == IsInjective(schedule) /\ Scheduled \subseteq graph.movable

CallInv == PredCountExact /\ QueueInv /\ WorklistInv /\ ScheduleInv /\ DependenceOrder

IInv == TypeOK /\ CallInv

(* The priority is global although pickBest is greedy: a node released   *)
(* late never has a longer critical path than one scheduled before it,   *)
(* so critical paths only decrease along the schedule.                   *)
CriticalPathOrder ==
    \A i, j \in 1..Len(schedule) :
        i < j => graph.cp[schedule[i]] >= graph.cp[schedule[j]]

(* The nodes that wait, directly or through others, for one that is never*)
(* queued: the least set that has these and with each its successors.    *)
NeverReady(g) ==
    {n \in NodesOf(g) : \A C \in SUBSET NodesOf(g) :
        /\ NodesOf(g) \ g.movable \subseteq C
        /\ \A m \in C : ToSet(g.succ[m]) \subseteq C
        => n \in C}

(* Its strengthening: neither a queued node nor one just being released, *)
(* if it can get ready, is more urgent than a scheduled one.             *)
UrgencyInv ==
    /\ CriticalPathOrder
    /\ \A i \in 1..Len(schedule) :
        /\ \A n \in ToSet(readyQueue) : graph.cp[schedule[i]] >= graph.cp[n]
        /\ pc = "release" =>
              \A n \in ToSet(worklist) \ NeverReady(graph) :
                 graph.cp[schedule[i]] >= graph.cp[n]

(* applySchedule and the region reorder rely on a complete schedule: when *)
(* the call returns, every instruction that may be queued is scheduled,  *)
(* exactly once.                                                         *)
ScheduleComplete ==
    pc = "done" => IsInjective(schedule) /\ Scheduled = graph.movable

(* What topologicalSort and computeCriticalPath must have delivered: the  *)
(* critical path of a node was computed after that of its successors, so *)
(* it strictly decreases along every edge, and the DDG is acyclic.       *)
CriticalPathCoversSuccessors == EdgesDescend(graph)

(* Every instruction that can be queued is woken by one that can be: the *)
(* nodes listSchedule never takes (PHIs, terminators) block no other.    *)
NoneWaitsForUnmovable == WaitsOnlyForMovable(graph)

(* The pressure flag only breaks ties.  Among the nodes ready at a pick  *)
(* the chosen one has the longest critical path, and with the flag on no *)
(* ready node of the same critical path would have raised the size of    *)
(* the live set less, duplicate operands aside.                          *)
PickIsBestChoice ==
    [][\A n \in Range(readyQueue) :
          (Len(schedule') > Len(schedule) /\ IsInjective(graph.operands[n])) =>
              LET best == Last(schedule')
                  Grows(m) == Cardinality(LiveAfter(graph, m, currentLive))
              IN  \/ graph.cp[best] > graph.cp[n]
                  \/ /\ graph.cp[best] = graph.cp[n]
                     /\ usePressure /\ IsInjective(graph.operands[best])
                          => Grows(best) <= Grows(n)]_vars

(* The scheduling loop ends.                                             *)
Termination == <>(pc = "done")
=============================================================================
