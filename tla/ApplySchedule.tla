-------------------------- MODULE ApplySchedule --------------------------
(*************************************************************************)
(* applySchedule() of applySchedule.hpp: one call, for one trace.        *)
(* Phase 1 reorders each block of the trace within its regions           *)
(* (ReorderBlock); then dynamicLive is set up (StartHoisting) and Phase 2*)
(* takes the scheduled instructions in turn: anchors are counted and     *)
(* skipped (SkipAnchor), another instruction goes to the first block of  *)
(* the trace that passes every check (Hoist), or stays (Stay).           *)
(*************************************************************************)
EXTENDS ScheduleLegality, LegalMotion

CONSTANTS
    Calls,      \* the calls: records [fn, trace, schedule, liveIn, liveOut]
    Budget      \* getPressureBudget()

ASSUME BudgetAssumption == Budget \in Nat \ {0}

(* What the pass hands over: a trace has no block twice, and a schedule  *)
(* lists instructions of the trace, none twice and none before an operand*)
(* it waits for (ListScheduler's theorems on the graphs of DDG).         *)
IsCall(c) ==
    /\ IsFunction(c.fn)
    /\ c.trace \in Seq(Blocks(c.fn)) /\ IsInjective(c.trace)
    /\ c.schedule \in Seq(Instructions(c.fn)) /\ IsInjective(c.schedule)
    /\ \A i \in ToSet(c.schedule) : BlockOf(c.fn.body, i) \in ToSet(c.trace)
    /\ \A j, k \in DOMAIN c.schedule :
          /\ ~isSchedulingAnchor(c.fn, c.schedule[k])
          /\ c.schedule[j] \in Operands(c.fn, c.schedule[k])
          => j < k

ASSUME CallsAssumption == \A c \in Calls : IsCall(c)

VARIABLES
    call,           \* the arguments
    usePressure,    \* whether the budget is checked
    body,           \* the program: [block -> sequence of instructions]
    pc,             \* "reorder", "hoist" or "done"
    next,           \* position of the loop of the current phase
    dynamicLive,    \* [trace block -> set of values]
    hoistStats      \* g_hoistStats, SCHED_STATS on

vars == <<call, usePressure, body, pc, next, dynamicLive, hoistStats>>

fn == call.fn
trace == call.trace
schedule == call.schedule

Reasons == <<"loop", "dominance", "operand", "unsafe", "pressure">>

Counters == ToSet(Reasons) \cup {"candidates", "done"}

Init ==
    /\ call \in Calls
    /\ usePressure \in BOOLEAN
    /\ body = fn.body
    /\ pc = "reorder"
    /\ next = 1
    /\ dynamicLive = [b \in ToSet(trace) |-> {}]
    /\ hoistStats = [c \in Counters |-> 0]

-----------------------------------------------------------------------------
originalBlock(i) == BlockOf(fn.body, i)

tracePos(b) == CHOOSE t \in DOMAIN trace : trace[t] = b

OrigIdx(i) == tracePos(originalBlock(i))

(* pressureDelta against the dynamic live set of the target; operands    *)
(* are looked up in the live-out set of the block i is still in.         *)
pressureDelta(i, live) ==
      Cardinality(({i} \cap Universe(fn)) \ live)
    - Cardinality({k \in DOMAIN fn.use[i] :
                     fn.use[i][k] \in live \ call.liveOut[BlockOf(body, i)]})

isSameLoopOrOuter(from, target) == fn.loop[from] = fn.loop[target]

OperandsAvailable(i, target) ==
    \A v \in Operands(fn, i) \cap Instructions(fn) : DominatesEndOf(fn, body, v, target)

WithinBudget(i, target) ==
    Cardinality(dynamicLive[target]) + pressureDelta(i, dynamicLive[target]) <= Budget

(* Faults: a check is left out - SafeToSpeculate, dominance, the loop    *)
(* header.                                                               *)
Fails_NoTrapCheck(i, target) ==
    [loop      |-> target \in fn.headers \/ ~isSameLoopOrOuter(originalBlock(i), target),
     dominance |-> target \notin fn.dom[originalBlock(i)],
     operand   |-> ~OperandsAvailable(i, target),
     unsafe    |-> FALSE,
     pressure  |-> usePressure /\ ~WithinBudget(i, target)]

Fails_NoDominance(i, target) ==
    [loop      |-> target \in fn.headers \/ ~isSameLoopOrOuter(originalBlock(i), target),
     dominance |-> FALSE,
     operand   |-> ~OperandsAvailable(i, target),
     unsafe    |-> ~SafeToSpeculate(fn, i),
     pressure  |-> usePressure /\ ~WithinBudget(i, target)]

Fails_NoHeaderCheck(i, target) ==
    [loop      |-> ~isSameLoopOrOuter(originalBlock(i), target),
     dominance |-> target \notin fn.dom[originalBlock(i)],
     operand   |-> ~OperandsAvailable(i, target),
     unsafe    |-> ~SafeToSpeculate(fn, i),
     pressure  |-> usePressure /\ ~WithinBudget(i, target)]

(* The checks a target block can fail, in the order they are made.       *)
Fails(i, target) ==
    [loop      |-> target \in fn.headers \/ ~isSameLoopOrOuter(originalBlock(i), target),
     dominance |-> target \notin fn.dom[originalBlock(i)],
     operand   |-> ~OperandsAvailable(i, target),
     unsafe    |-> ~SafeToSpeculate(fn, i),
     pressure  |-> usePressure /\ ~WithinBudget(i, target)]

Legal(i, t) == \A reason \in ToSet(Reasons) : ~Fails(i, trace[t])[reason]

FirstFailure(i, t) == Min({k \in DOMAIN Reasons : Fails(i, trace[t])[Reasons[k]]})

(* Fault: instructions of the first block count as candidates.           *)
Count_FirstBlock(i, outcome) ==
    [hoistStats EXCEPT !["candidates"] = @ + 1, ![outcome] = @ + 1]

(* Counters move only for an instruction with an earlier block to try.   *)
Count(i, outcome) ==
    IF OrigIdx(i) = 1
    THEN hoistStats
    ELSE [hoistStats EXCEPT !["candidates"] = @ + 1, ![outcome] = @ + 1]

(* The reason reported: of all attempts, the check reached furthest.     *)
BestReason(i) == Reasons[Max({FirstFailure(i, t) : t \in 1..(OrigIdx(i) - 1)})]

(* Fault: the instruction is inserted before the first of the target.    *)
MoveToFront(i, target) ==
    [body EXCEPT ![BlockOf(body, i)] = RemoveAt(@, PosOf(body, i)),
                 ![target] = <<i>> \o @]

(* I->moveBefore(targetBB's terminator).                                 *)
MoveToEnd(i, target) ==
    [body EXCEPT ![BlockOf(body, i)] = RemoveAt(@, PosOf(body, i)),
                 ![target] = Front(@) \o <<i, Last(@)>>]

-----------------------------------------------------------------------------
ReorderBlock ==
    /\ pc = "reorder"
    /\ next <= Len(trace)
    /\ body' = [body EXCEPT ![trace[next]] = reorderBlockWithinRegions(fn, schedule, @)]
    /\ next' = next + 1
    /\ UNCHANGED <<call, usePressure, pc, dynamicLive, hoistStats>>

StartHoisting ==
    /\ pc = "reorder"
    /\ next > Len(trace)
    /\ pc' = "hoist"
    /\ next' = 1
    /\ dynamicLive' = [b \in ToSet(trace) |-> call.liveIn[b]]
    /\ UNCHANGED <<call, usePressure, body, hoistStats>>

SkipAnchor(i) ==
    /\ isSchedulingAnchor(fn, i)
    /\ hoistStats' = Count(i, "unsafe")
    /\ UNCHANGED <<body, dynamicLive>>

Hoist(i) ==
    /\ ~isSchedulingAnchor(fn, i)
    /\ \E t \in 1..(OrigIdx(i) - 1) :
        /\ Legal(i, t)
        /\ \A u \in 1..(t-1) : ~Legal(i, u)
        /\ body' = MoveToEnd(i, trace[t])
        /\ dynamicLive' = [dynamicLive EXCEPT ![trace[t]] = @ \cup ({i} \cap Universe(fn))]
    /\ hoistStats' = Count(i, "done")

Stay(i) ==
    /\ ~isSchedulingAnchor(fn, i)
    /\ \A t \in 1..(OrigIdx(i) - 1) : ~Legal(i, t)
    /\ hoistStats' = IF OrigIdx(i) = 1 THEN hoistStats ELSE Count(i, BestReason(i))
    /\ UNCHANGED <<body, dynamicLive>>

(* Fault: the schedule is walked from its end.                           *)
HoistInstruction_Reversed ==
    /\ pc = "hoist"
    /\ next <= Len(schedule)
    /\ LET i == schedule[Len(schedule) - next + 1] IN SkipAnchor(i) \/ Hoist(i) \/ Stay(i)
    /\ next' = next + 1
    /\ UNCHANGED <<call, usePressure, pc>>

HoistInstruction ==
    /\ pc = "hoist"
    /\ next <= Len(schedule)
    /\ \/ SkipAnchor(schedule[next])
       \/ Hoist(schedule[next])
       \/ Stay(schedule[next])
    /\ next' = next + 1
    /\ UNCHANGED <<call, usePressure, pc>>

Return ==
    /\ pc = "hoist"
    /\ next > Len(schedule)
    /\ pc' = "done"
    /\ UNCHANGED <<call, usePressure, body, next, dynamicLive, hoistStats>>

Next == ReorderBlock \/ StartHoisting \/ HoistInstruction \/ Return

Spec == Init /\ [][Next]_vars /\ WF_vars(Next)
-----------------------------------------------------------------------------
(* The whole call is legal code motion: no instruction is lost, anchors  *)
(* keep their order in every block, operands are computed on every path  *)
(* before they are used, only speculatable instructions leave their      *)
(* region and none enters another loop.                                  *)
Motion == INSTANCE CodeMotion WITH fn <- call.fn, body <- body

IsCodeMotion == Motion!Spec

(* Moves compose: however many blocks an instruction crossed, at the end *)
(* it is where one legal motion from the original program could have put *)
(* it.  In particular a division stays between the anchors it had.       *)
EndIsLegalMotion ==
    pc = "done" => IsLegalMotion(fn, fn.body, body)

(* One pass over the schedule reaches a fixpoint: without the budget, no *)
(* pure instruction is left that an earlier block of the trace, tried    *)
(* again on the final program, would accept.                             *)
NoMissedHoist ==
    pc = "done" /\ ~usePressure =>
        \A i \in ToSet(schedule) :
            isSchedulingAnchor(fn, i) \/
            \A t \in 1..(tracePos(BlockOf(body, i)) - 1) : ~Legal(i, t)

(* SCHED_STATS adds up: each instruction with an earlier block to try is *)
(* counted once as a candidate, and once as done or under one reason;    *)
(* done counts exactly the instructions that changed block.              *)
StatsAccount ==
    LET moved == {i \in ToSet(schedule) : BlockOf(body, i) /= originalBlock(i)}
    IN  /\ hoistStats["candidates"] =
              hoistStats["done"] + hoistStats["loop"] + hoistStats["dominance"]
                + hoistStats["operand"] + hoistStats["unsafe"] + hoistStats["pressure"]
        /\ hoistStats["done"] = Cardinality(moved)
        /\ pc = "done" => hoistStats["candidates"] =
                             Cardinality({i \in ToSet(schedule) : OrigIdx(i) > 1})

(* Every instruction that leaves its block goes to the last place before *)
(* the terminator of the target, behind what was hoisted there before it,*)
(* so the program order of the hoisted ones is the order of the schedule.*)
HoistedInScheduleOrder ==
    \A j, k \in DOMAIN schedule :
        LET Moved(i) == BlockOf(body, i) /= originalBlock(i)
        IN  /\ j < k /\ Moved(schedule[j]) /\ Moved(schedule[k])
            /\ BlockOf(body, schedule[j]) = BlockOf(body, schedule[k])
            => PosOf(body, schedule[j]) < PosOf(body, schedule[k])

(* "Allow movement only if total pressure stays within register budget": *)
(* a block an instruction is hoisted into has, by the scheduler's own    *)
(* count, at most Budget values live afterwards.                         *)
HoistStaysWithinBudget ==
    [][usePressure /\ pc = "hoist" =>
          \A b \in ToSet(trace) :
              dynamicLive'[b] /= dynamicLive[b] => Cardinality(dynamicLive'[b]) <= Budget]_vars
-----------------------------------------------------------------------------
(* The inductive invariant behind these properties: what of the trace has*)
(* left its block was taken in an earlier turn of the second loop; the   *)
(* turns that are over would end the same way again, since the operands  *)
(* of an instruction have their turns before it; each of them is counted.*)
MovedInTurn ==
    \A i \in Instructions(fn) :
        originalBlock(i) \in ToSet(trace) /\ BlockOf(body, i) /= originalBlock(i) =>
            /\ pc /= "reorder"
            /\ ~isSchedulingAnchor(fn, i)
            /\ BlockOf(body, i) \in ToSet(trace)
            /\ \E j \in 1..(next-1) : schedule[j] = i

Settled ==
    pc /= "reorder" /\ ~usePressure =>
        \A j \in 1..(next-1) :
            isSchedulingAnchor(fn, schedule[j]) \/
            \A t \in 1..(tracePos(BlockOf(body, schedule[j])) - 1) : ~Legal(schedule[j], t)

Counted ==
    /\ hoistStats \in [Counters -> Nat]
    /\ hoistStats["candidates"] =
         IF pc = "reorder" THEN 0
         ELSE Cardinality({i \in ToSet(schedule) :
                OrigIdx(i) > 1 /\ \E j \in 1..(next-1) : schedule[j] = i})

MotionInv ==
    /\ IsCall(call)
    /\ pc \in {"reorder", "hoist", "done"}
    /\ next \in Nat \ {0}
    /\ pc /= "reorder" => next <= Len(schedule) + 1
    /\ pc = "done" => next = Len(schedule) + 1
    /\ IsLegalMotion(fn, fn.body, body)
    /\ TerminatorsLast(fn, body)
    /\ MovedInTurn

ApplyInv ==
    MotionInv /\ HoistedInScheduleOrder /\ Settled /\ Counted /\ StatsAccount
=============================================================================
