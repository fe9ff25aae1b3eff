----------------------- MODULE TraceIdentification -----------------------
(*************************************************************************)
(* identifyTraces() of traceIdentification.hpp: one call.  A seed is the *)
(* hottest block not yet in a trace (PickSeed); the trace grows forward  *)
(* from it block by block (GrowForward, StopForward), then backward      *)
(* (GrowBackward, StopBackward).  Without a seed left it ends (Return).  *)
(*                                                                       *)
(* A profile extends the record of CFG with                              *)
(*     prob : [block -> [successor -> 0..100]], the edge probabilities   *)
(*     freq : [block -> Nat], the block frequencies                      *)
(*************************************************************************)
EXTENDS CFG

CONSTANTS
    Profiles,       \* the functions with their profiles
    Threshold       \* getTraceThreshold(), in percent

ASSUME ThresholdAssumption == Threshold \in 1..100

VARIABLES
    profile,        \* the function
    bfsOrder,       \* its blocks in breadth-first order
    byFreqDesc,     \* bfsOrder, hottest first
    seedCursor,     \* position in byFreqDesc
    pc,             \* "seed", "forward", "backward" or "done"
    visited,        \* the blocks already in a trace
    trace,          \* the trace being grown
    current,        \* the block it grows from
    traces,         \* the result
    stats           \* g_traceIdStats, SCHED_STATS on

vars == <<profile, bfsOrder, byFreqDesc, seedCursor, pc, visited, trace,
          current, traces, stats>>

(* std::stable_sort by frequency, descending: as many blocks come before *)
(* one as are hotter than it, or as hot and before it already.           *)
HottestFirst(order, freq) ==
    LET Ahead(k) == {j \in DOMAIN order :
                        \/ freq[order[j]] > freq[order[k]]
                        \/ freq[order[j]] = freq[order[k]] /\ j < k}
    IN  [p \in DOMAIN order |->
            order[CHOOSE k \in DOMAIN order : Cardinality(Ahead(k)) = p - 1]]

(* What LLVM guarantees: an edge has a probability, and a block that can *)
(* be reached a frequency other than zero.                               *)
IsProfile(p) ==
    /\ p.layout \in Seq(Blocks(p)) /\ p.entry \in Blocks(p)
    /\ \A b \in Blocks(p) : p.succ[b] \in Seq(Blocks(p))
    /\ \A b \in Blocks(p) : \A s \in Succs(p, b) : p.prob[b][s] \in 0..100
    /\ \A b \in Reachable(p) : p.freq[b] \in Nat \ {0}

ASSUME ProfilesAssumption == \A p \in Profiles : IsProfile(p)

(* Blocks the search did not reach come after all others.                *)
bfsPos(b) ==
    IF b \in ToSet(bfsOrder)
    THEN CHOOSE k \in DOMAIN bfsOrder : bfsOrder[k] = b
    ELSE Len(bfsOrder) + 1

Prob(edge) == profile.prob[edge[1]][edge[2]]

OutEdges(b) == {<<b, s>> : s \in Succs(profile, b)}

InEdges(b) == {<<p, b>> : p \in Preds(profile, b)}

(* Fault: the blocks stay in the order of the search.                    *)
SeedOrder_Unsorted == bfsOrder

SeedOrder == HottestFirst(bfsOrder, profile.freq)
-----------------------------------------------------------------------------
Init ==
    /\ profile \in Profiles
    /\ bfsOrder = BreadthFirst(profile)
    /\ byFreqDesc = SeedOrder
    /\ seedCursor = 1
    /\ pc = "seed"
    /\ visited = {}
    /\ trace = <<>>
    /\ current = "none"
    /\ traces = <<>>
    /\ stats = [above |-> 0, below |-> 0, backedge |-> 0]

(* An edge to or from an unvisited block (`far` gives that end) is tested*)
(* for its probability, then for its direction in breadth-first order.   *)
Untaken(edges, far) == {e \in edges : e[far] \notin visited}

(* Fault: an edge at the threshold is accepted.                          *)
Hot_AtThreshold(edges) == {e \in edges : Prob(e) >= Threshold}

Hot(edges) == {e \in edges : Prob(e) > Threshold}

Backward(edges) == {e \in edges : bfsPos(e[2]) < bfsPos(e[1])}

Eligible(edges, far) == Hot(Untaken(edges, far)) \ Backward(edges)

(* The edges as often as the loops over successors() and predecessors()  *)
(* meet them: several cases of a switch may lead to one block.           *)
Listed(edges) ==
    UNION {{e} \X {k \in DOMAIN profile.succ[e[1]] : profile.succ[e[1]][k] = e[2]} :
              e \in edges}

Times(edges) == Cardinality(Listed(edges))

(* Fault: back edges are counted before the threshold is tested.        *)
Counted_ColdBackEdges(edges, far) ==
    LET tested == Untaken(edges, far)
    IN  [above    |-> stats.above + Times(Hot(tested)),
         below    |-> stats.below + Times(tested \ Hot(tested)),
         backedge |-> stats.backedge + Times(tested \cap Backward(edges))]

Counted(edges, far) ==
    LET tested == Untaken(edges, far)
    IN  [above    |-> stats.above + Times(Hot(tested)),
         below    |-> stats.below + Times(tested \ Hot(tested)),
         backedge |-> stats.backedge + Times(Hot(tested) \cap Backward(edges))]

(* bestSuccessor takes the first of the most probable edges.  So does    *)
(* bestPredecessor, but the order of predecessors() is LLVM's: any one.  *)
BestSuccessors(b) ==
    {e \in Eligible(OutEdges(b), 2) :
        \A f \in Eligible(OutEdges(b), 2) :
            LET Pos(g) == CHOOSE k \in DOMAIN profile.succ[b] : profile.succ[b][k] = g[2]
            IN  \/ Prob(f) < Prob(e)
                \/ Prob(f) = Prob(e) /\ Pos(e) <= Pos(f)}

(* (Fault: the direction is tested only on the most probable edge.)      *)
BestPredecessors_TestLast(b) ==
    {e \in Untaken(InEdges(b), 1) :
        \A f \in Untaken(InEdges(b), 1) : Prob(f) <= Prob(e)} \cap Eligible(InEdges(b), 1)

BestPredecessors(b) ==
    {e \in Eligible(InEdges(b), 1) : \A f \in Eligible(InEdges(b), 1) : Prob(f) <= Prob(e)}

(* The cursor passes visited blocks; a block of frequency zero ends it.  *)
Unvisited == {k \in seedCursor..Len(byFreqDesc) : byFreqDesc[k] \notin visited}

HasSeed(k) == (\A j \in Unvisited : k <= j) /\ profile.freq[byFreqDesc[k]] > 0

PickSeed ==
    /\ pc = "seed"
    /\ \E k \in Unvisited :
        /\ HasSeed(k)
        /\ seedCursor' = k
        /\ trace' = <<byFreqDesc[k]>>
        /\ visited' = visited \cup {byFreqDesc[k]}
        /\ current' = byFreqDesc[k]
    /\ pc' = "forward"
    /\ UNCHANGED <<profile, bfsOrder, byFreqDesc, traces, stats>>

GrowForward ==
    /\ pc = "forward"
    /\ \E e \in BestSuccessors(current) :
        /\ trace' = Append(trace, e[2])
        /\ visited' = visited \cup {e[2]}
        /\ current' = e[2]
    /\ stats' = Counted(OutEdges(current), 2)
    /\ UNCHANGED <<profile, bfsOrder, byFreqDesc, seedCursor, pc, traces>>

StopForward ==
    /\ pc = "forward"
    /\ BestSuccessors(current) = {}
    /\ stats' = Counted(OutEdges(current), 2)
    /\ pc' = "backward"
    /\ current' = byFreqDesc[seedCursor]
    /\ UNCHANGED <<profile, bfsOrder, byFreqDesc, seedCursor, visited, trace, traces>>

(* Fault: the block is not marked as visited.                            *)
GrowBackward_Unmarked ==
    /\ pc = "backward"
    /\ \E e \in BestPredecessors(current) :
        /\ trace' = <<e[1]>> \o trace
        /\ current' = e[1]
    /\ stats' = Counted(InEdges(current), 1)
    /\ UNCHANGED <<profile, bfsOrder, byFreqDesc, seedCursor, pc, visited, traces>>

GrowBackward ==
    /\ pc = "backward"
    /\ \E e \in BestPredecessors(current) :
        /\ trace' = <<e[1]>> \o trace
        /\ visited' = visited \cup {e[1]}
        /\ current' = e[1]
    /\ stats' = Counted(InEdges(current), 1)
    /\ UNCHANGED <<profile, bfsOrder, byFreqDesc, seedCursor, pc, traces>>

StopBackward ==
    /\ pc = "backward"
    /\ BestPredecessors(current) = {}
    /\ stats' = Counted(InEdges(current), 1)
    /\ pc' = "seed"
    /\ traces' = Append(traces, trace)
    /\ UNCHANGED <<profile, bfsOrder, byFreqDesc, seedCursor, visited, trace, current>>

(* Fault: the loop waits for every block of the function.                *)
Return_AllBlocks ==
    /\ pc = "seed"
    /\ visited = Blocks(profile)
    /\ pc' = "done"
    /\ UNCHANGED <<profile, bfsOrder, byFreqDesc, seedCursor, visited, trace,
                   current, traces, stats>>

Return ==
    /\ pc = "seed"
    /\ \A k \in Unvisited : ~HasSeed(k)
    /\ pc' = "done"
    /\ UNCHANGED <<profile, bfsOrder, byFreqDesc, seedCursor, visited, trace,
                   current, traces, stats>>

Next == PickSeed \/ GrowForward \/ StopForward \/ GrowBackward \/ StopBackward \/ Return

Spec == Init /\ [][Next]_vars /\ WF_vars(Next)
-----------------------------------------------------------------------------
(* Type correctness of the state of one identifyTraces call.             *)
TypeOK ==
    /\ seedCursor \in 1..(Len(byFreqDesc) + 1)
    /\ pc \in {"seed", "forward", "backward", "done"}
    /\ visited \subseteq Blocks(profile)
    /\ trace \in Seq(Blocks(profile))
    /\ current \in Blocks(profile) \cup {"none"}
    /\ traces \in Seq(Seq(Blocks(profile)))
    /\ stats \in [{"above", "below", "backedge"} -> Nat]

(* The DDG and the hoisting of one trace never see a block of another:   *)
(* every block is in at most one trace and there once, and at the end    *)
(* every block that can be executed is in one.                           *)
ReachableBlocksInOneTrace ==
    /\ \A t, u \in DOMAIN traces : \A j \in DOMAIN traces[t], k \in DOMAIN traces[u] :
          traces[t][j] = traces[u][k] => t = u /\ j = k
    /\ pc = "done" =>
          \A b \in Reachable(profile) : \E t \in DOMAIN traces : b \in ToSet(traces[t])

Edges == UNION {OutEdges(b) : b \in Blocks(profile)}

HotForward == {e \in Edges : Prob(e) > Threshold /\ bfsPos(e[1]) < bfsPos(e[2])}

IsHotPath(path) == \A k \in 1..(Len(path) - 1) : <<path[k], path[k+1]>> \in HotForward

(* A trace is a hot acyclic path: each block follows the one before it by*)
(* an edge above the threshold that leads forward in breadth-first order.*)
TracesAreHotPaths == \A t \in DOMAIN traces : IsHotPath(traces[t])

(* "Returns traces in hotness order": no trace holds a block hotter than *)
(* the hottest of an earlier one, though only seeds are chosen by heat.  *)
HotnessOrder ==
    \A t, u \in DOMAIN traces : t < u =>
        \E b \in ToSet(traces[t]) : \A c \in ToSet(traces[u]) :
            profile.freq[c] <= profile.freq[b]

Rejected == {e \in Edges : Prob(e) <= Threshold \/ bfsPos(e[2]) < bfsPos(e[1])}

(* Growing in both directions misses nothing: no two traces could be     *)
(* joined by an edge that either of them would have accepted.            *)
TracesCannotBeJoined ==
    \A t, u \in DOMAIN traces :
        LET edge == <<Last(traces[t]), Head(traces[u])>>
        IN  t /= u /\ edge \in Edges => edge \in Rejected

PathEdges(path) == {<<path[k], path[k+1]>> : k \in 1..(Len(path) - 1)}

TraceEdges == UNION {PathEdges(traces[t]) : t \in DOMAIN traces}

(* SCHED_STATS agrees with the result: every edge inside a trace was     *)
(* counted as above the threshold and not as a back edge.                *)
StatsCoverTraces == Cardinality(TraceEdges) <= stats.above - stats.backedge

(* The call ends.                                                        *)
Termination == <>(pc = "done")

(* "If successor appears before current block in BFS order it is a back  *)
(* edge": an edge is rejected for its direction only if it closes a loop.*)
RejectedEdgesAreBackEdges ==
    LET tested == IF pc = "forward" THEN Untaken(OutEdges(current), 2)
                  ELSE IF pc = "backward" THEN Untaken(InEdges(current), 1)
                  ELSE {}
    IN  \A e \in Hot(tested) \cap Backward(tested) :
            e[1] \in Reachable(profile) => e[1] \in ReachableFrom(profile, {e[2]}, {})
-----------------------------------------------------------------------------
(* The inductive invariant.  Growing, the trace is a hot path of blocks  *)
(* that are in no other; its seed is in it, the hottest of what was left.*)
Growing == pc \in {"forward", "backward"}

(* The blocks of the first t finished traces.                            *)
Placed(t) == {b \in Blocks(profile) : \E u \in 1..t : b \in ToSet(traces[u])}

InputInv ==
    /\ profile \in Profiles
    /\ bfsOrder = BreadthFirst(profile)
    /\ byFreqDesc = SeedOrder

VisitedInv ==
    /\ visited = Placed(Len(traces)) \cup (IF Growing THEN ToSet(trace) ELSE {})
    /\ visited \subseteq Reachable(profile)
    /\ \A k \in 1..(seedCursor - 1) : byFreqDesc[k] \in visited
    /\ pc = "done" => Reachable(profile) \subseteq visited

GrowthInv ==
    Growing =>
        /\ trace /= <<>> /\ IsInjective(trace) /\ IsHotPath(trace)
        /\ ToSet(trace) \cap Placed(Len(traces)) = {}
        /\ seedCursor \in DOMAIN byFreqDesc
        /\ byFreqDesc[seedCursor] \in ToSet(trace)
        /\ \A c \in Reachable(profile) \ Placed(Len(traces)) :
              profile.freq[c] <= profile.freq[byFreqDesc[seedCursor]]
        /\ pc = "forward" => current = trace[Len(trace)] /\ byFreqDesc[seedCursor] = trace[1]
        /\ pc = "backward" =>
              /\ current = trace[1]
              /\ \A c \in Succs(profile, trace[Len(trace)]) \ visited :
                    <<trace[Len(trace)], c>> \in Rejected

(* What was true of a trace when it was finished.                        *)
Finished(t) ==
    LET path == traces[t]
    IN  /\ path /= <<>> /\ IsHotPath(path)
        /\ \E b \in ToSet(path) : \A c \in Reachable(profile) \ Placed(t) :
              profile.freq[c] <= profile.freq[b]
        /\ \A c \in Succs(profile, path[Len(path)]) \ Placed(t) :
              <<path[Len(path)], c>> \in Rejected
        /\ \A c \in Preds(profile, path[1]) \ Placed(t) : <<c, path[1]>> \in Rejected

TracesInv ==
    /\ \A t, u \in DOMAIN traces : \A j \in DOMAIN traces[t], k \in DOMAIN traces[u] :
          traces[t][j] = traces[u][k] => t = u /\ j = k
    /\ \A t \in DOMAIN traces : Finished(t)

(* The edges of the trace that is being grown have been counted too.     *)
StatsInv ==
    Cardinality(TraceEdges \cup (IF Growing THEN PathEdges(trace) ELSE {}))
        <= stats.above - stats.backedge

IInv == TypeOK /\ InputInv /\ VisitedInv /\ GrowthInv /\ TracesInv

FullInv == IInv /\ StatsInv
=============================================================================
