------------------------------- MODULE DDG -------------------------------
(*************************************************************************)
(* The data dependence graph of a trace (ddg.hpp) or of one block        *)
(* (localScheduler.hpp), and the critical path of its nodes              *)
(* (critical.hpp).  A graph, as the list scheduler takes it, is a record *)
(*     nodes    : sequence of instructions, in the order they are added  *)
(*     succ     : [node -> sequence of nodes], the successor vectors     *)
(*     cp       : [node -> Nat], the critical path                       *)
(*     movable  : the nodes that may enter the ready queue               *)
(*     result   : [node -> set of values], {} or the value it produces   *)
(*     operands : [node -> sequence of values]                           *)
(*     out      : [node -> set of values], live out of the node's block  *)
(*     live     : the values live on entry to the first block            *)
(*************************************************************************)
EXTENDS IR

(* addEdge: a successor is listed once, where it was first added.        *)
AddEdges(vector, new) == vector \o Among(new, ToSet(new) \ ToSet(vector))

(* The ordered operations that follow i in its own block s, in order.    *)
OrderDependents(fn, s, i) ==
    IF IsOrderedOp(fn, i)
    THEN Among(s, {n \in ToSet(s) : IsOrderedOp(fn, n) /\
                                   \E p, q \in DOMAIN s : p < q /\ s[p] = i /\ s[q] = n})
    ELSE <<>>

(* Fault: PHIs get nodes and edges.                                      *)
TraceNodes_WithPHIs(fn, trace) ==
    FlattenSeq([t \in DOMAIN trace |-> fn.body[trace[t]]])

(* buildDDG, for one trace: PHIs get no node, and an edge of a value     *)
(* neither leaves nor enters a terminator.                               *)
TraceNodes(fn, trace) ==
    LET listed[t \in 0..Len(trace)] ==
            IF t = 0
            THEN <<>>
            ELSE listed[t-1] \o Among(fn.body[trace[t]], {i \in Instructions(fn) : ~IsPHI(fn, i)})
    IN  listed[Len(trace)]

TraceSuccessors(fn, trace) ==
    LET nodes == TraceNodes(fn, trace)
        TrueDependents(i) ==
            IF IsTerminator(fn, i) THEN <<>>
            ELSE Among(nodes, {n \in ToSet(nodes) : ~IsTerminator(fn, n) /\ i \in Operands(fn, n)})
    IN  [i \in ToSet(nodes) |->
            AddEdges(TrueDependents(i),
                     OrderDependents(fn, fn.body[BlockOf(fn.body, i)], i))]

(* buildLocalDDG: every instruction of the block has a node and every    *)
(* operand defined in the block is an edge, those of PHIs and of the     *)
(* terminator included.                                                  *)
LocalSuccessors(fn, b) ==
    [i \in ToSet(fn.body[b]) |->
        AddEdges(Among(fn.body[b], {n \in ToSet(fn.body[b]) : i \in Operands(fn, n)}),
                 OrderDependents(fn, fn.body[b], i))]

(* What topoSortDFS(n) appends to the result vector when `seen` is the   *)
(* visited set, as postorder[seen][n].                                   *)
topoSortDFS(N, succ) ==
    LET postorder[seen \in SUBSET N] ==
            [n \in N \ seen |->
                LET visited[k \in 0..Len(succ[n])] ==
                        IF k = 0
                        THEN <<>>
                        ELSE LET acc == visited[k-1]
                                 now == seen \cup {n} \cup ToSet(acc)
                             IN  IF succ[n][k] \in now
                                 THEN acc ELSE acc \o postorder[now][succ[n][k]]
                IN  Append(visited[Len(succ[n])], n)]
    IN  postorder

(* topologicalSort before it is reversed: sinks first.                   *)
PostOrder(nodes, succ) ==
    LET postorder == topoSortDFS(ToSet(nodes), succ)
        sorted[k \in 0..Len(nodes)] ==
            IF k = 0
            THEN <<>>
            ELSE LET acc == sorted[k-1]
                 IN  IF nodes[k] \in ToSet(acc)
                     THEN acc ELSE acc \o postorder[ToSet(acc)][nodes[k]]
    IN  sorted[Len(nodes)]

(* computeCriticalPath, for the nodes in this order: a node takes its    *)
(* latency plus the longest critical path its successors have so far (0  *)
(* for one not processed yet).                                           *)
Relaxed(fn, nodes, succ, order) ==
    LET relaxed[k \in 0..Len(order)] ==
            IF k = 0
            THEN [n \in ToSet(nodes) |-> 0]
            ELSE LET cp == relaxed[k-1]
                     n  == order[k]
                 IN  [cp EXCEPT ![n] =
                        getDelay(fn, n) + Max({0} \cup {cp[s] : s \in ToSet(succ[n])})]
    IN  relaxed[Len(order)]

(* Fault: the nodes are processed in topological order, sources first.   *)
CriticalPath_SourcesFirst(fn, nodes, succ) ==
    Relaxed(fn, nodes, succ, Reverse(PostOrder(nodes, succ)))

(* The code walks the topological order backwards: sinks first.          *)
CriticalPath(fn, nodes, succ) == Relaxed(fn, nodes, succ, PostOrder(nodes, succ))

(* The list scheduler's input: the graph with the liveness facts that    *)
(* pressureDelta and updateLiveSet look up.                              *)
ScheduleInput(fn, nodes, succ, first) ==
    LET N == ToSet(nodes)
        out == LiveOut(fn)
    IN  [nodes    |-> nodes,
         succ     |-> succ,
         cp       |-> CriticalPath(fn, nodes, succ),
         movable  |-> {n \in N : ~IsTerminator(fn, n) /\ ~IsPHI(fn, n)},
         result   |-> [n \in N |-> {n} \cap Universe(fn)],
         operands |-> [n \in N |-> fn.use[n]],
         out      |-> [n \in N |-> out[BlockOf(fn.body, n)]],
         live     |-> LiveIn(fn)[first]]

TraceDDG(fn, trace) ==
    ScheduleInput(fn, TraceNodes(fn, trace), TraceSuccessors(fn, trace), trace[1])

LocalDDG(fn, b) == ScheduleInput(fn, fn.body[b], LocalSuccessors(fn, b), b)
==========================================================================
