-------------------------- MODULE LocalScheduler --------------------------
(*************************************************************************)
(* runLocalScheduler() of localScheduler.hpp: for each block of the      *)
(* function in layout order, build its DDG (BuildLocalDDG), run          *)
(* listSchedule on it, one of its steps at a time (ScheduleStep), and    *)
(* reorder the block within its regions (ApplyLocalSchedule).  Liveness  *)
(* is computed once, on the original function; a block is changed only   *)
(* by its own turn, so `ddgs` can hold every block's DDG from the start. *)
(*************************************************************************)
EXTENDS ScheduleLegality, DDG, LegalMotion

CONSTANT Functions      \* the functions the pass may run on

ASSUME FunctionsAssumption == \A f \in Functions : IsFunction(f)

VARIABLES
    fn,         \* the function, as it is when the pass starts
    ddgs,       \* what buildLocalDDG and computeCriticalPath make of each block
    body,       \* its program now: [block -> sequence of instructions]
    next,       \* position in the layout of the block whose turn it is
    graph, usePressure, pc, worklist, predCount, readyQueue,
    currentLive, schedule, peak     \* the state of the call of listSchedule

listVars == <<graph, usePressure, pc, worklist, predCount, readyQueue,
              currentLive, schedule, peak>>

vars == <<fn, ddgs, body, next, listVars>>

List == INSTANCE ListScheduler WITH
            Value  <- UNION {Universe(f) : f \in Functions},
            Graphs <- UNION {{LocalDDG(f, b) : b \in Blocks(f)} : f \in Functions}

block == fn.layout[next]

(* Between two calls the scheduler's state is that of a call on a graph  *)
(* without nodes that has returned.                                      *)
Init ==
    /\ fn \in Functions
    /\ ddgs = [b \in Blocks(fn) |-> LocalDDG(fn, b)]
    /\ body = fn.body
    /\ next = 1
    /\ graph = [nodes |-> <<>>]
    /\ usePressure = TRUE
    /\ pc = "none"
    /\ worklist = <<>>
    /\ predCount = <<>>
    /\ readyQueue = <<>>
    /\ currentLive = {}
    /\ schedule = <<>>
    /\ peak = 0

(* Fault: predCount leaves out the predecessors that are never scheduled.*)
BuildLocalDDG_MovableOnly ==
    /\ pc = "none"
    /\ next <= Len(fn.layout)
    /\ graph' = ddgs[block]
    /\ pc' = "leaves"
    /\ worklist' = graph'.nodes
    /\ predCount' = [n \in ToSet(graph'.nodes) |->
                        Cardinality(List!PredsOf(graph', n) \cap graph'.movable)]
    /\ currentLive' = graph'.live
    /\ peak' = List!Larger(peak, Cardinality(graph'.live))
    /\ UNCHANGED <<fn, ddgs, body, next, usePressure, readyQueue, schedule>>

BuildLocalDDG ==
    /\ pc = "none"
    /\ next <= Len(fn.layout)
    /\ graph' = ddgs[block]
    /\ pc' = "leaves"
    /\ worklist' = graph'.nodes
    /\ predCount' = [n \in ToSet(graph'.nodes) |-> Cardinality(List!PredsOf(graph', n))]
    /\ currentLive' = graph'.live
    /\ peak' = List!Larger(peak, Cardinality(graph'.live))
    /\ UNCHANGED <<fn, ddgs, body, next, usePressure, readyQueue, schedule>>

ScheduleStep == List!Next /\ UNCHANGED <<fn, ddgs, body, next>>

ApplyLocalSchedule ==
    /\ pc = "done"
    /\ body' = [body EXCEPT ![block] = reorderBlockWithinRegions(fn, schedule, @)]
    /\ next' = next + 1
    /\ pc' = "none"
    /\ graph' = [nodes |-> <<>>]
    /\ predCount' = <<>>
    /\ currentLive' = {}
    /\ schedule' = <<>>
    /\ UNCHANGED <<fn, ddgs, usePressure, worklist, readyQueue, peak>>

Next == BuildLocalDDG \/ ScheduleStep \/ ApplyLocalSchedule

Spec == Init /\ [][Next]_vars /\ WF_vars(Next)
-----------------------------------------------------------------------------
(* Local scheduling is legal code motion, whatever the list scheduler    *)
(* returns: blocks keep their instructions, anchors their order, and on  *)
(* every path operands are computed before they are used.                *)
Motion == INSTANCE CodeMotion

IsCodeMotion == Motion!Spec

(* The nodes of the block that listSchedule can never take, and all that *)
(* depend on them: from a PHI, or around a loop through its PHIs.        *)
Blocked(g) ==
    LET b[k \in 0..Len(g.nodes)] ==
            IF k = 0
            THEN ToSet(g.nodes) \ g.movable
            ELSE b[k-1] \cup UNION {ToSet(g.succ[n]) : n \in b[k-1]}
    IN  b[Len(g.nodes)]

(* A missing node never stops the loop early: the call returns with      *)
(* every node scheduled that does not wait, directly or through others,  *)
(* for a PHI or the terminator.                                          *)
ScheduleIsUnblockedPart ==
    pc = "done" => ToSet(schedule) = ToSet(graph.nodes) \ Blocked(graph)

(* The strengthening that makes the two inductive: where the pass is,    *)
(* that the program has stayed legal, and that the call of listSchedule  *)
(* in progress is one on the current block's graph.                      *)
LocalInv ==
    /\ fn \in Functions
    /\ ddgs = [b \in Blocks(fn) |-> LocalDDG(fn, b)]
    /\ next \in Nat \ {0}
    /\ IsPlacement(fn, body)
    /\ OperandsComputed(fn, body)
    /\ usePressure \in BOOLEAN /\ peak \in Nat
    /\ pc \in {"none", "done"} => readyQueue = <<>>
    /\ IF pc = "none"
       THEN schedule = <<>>
       ELSE next <= Len(fn.layout) /\ graph = ddgs[block] /\ List!StateOK /\ List!CallInv

(* A block is reordered region by region, each completely or not at all: *)
(* afterwards the instructions between two anchors are sorted by critical*)
(* path, unless one of them waits for a PHI; then they stand as before.  *)
RegionsAllOrNothing ==
    [][\A p \in DOMAIN body[block] :
          (next' > next /\ ~isSchedulingAnchor(fn, body[block][p])) =>
              LET region  == Region(fn, body[block], p)
                  members == {body[block][q] : q \in region}
              IN  IF members \cap Blocked(graph) /= {}
                  THEN \A q \in region : body'[block][q] = body[block][q]
                  ELSE \A q, r \in region :
                          q < r => graph.cp[body'[block][q]] >= graph.cp[body'[block][r]]]_vars

(* "Local vs. global differ only in the scheduling region": as for a     *)
(* trace, every movable instruction of the block is scheduled.           *)
LocalScheduleComplete == pc = "done" => List!ScheduleComplete
=============================================================================
