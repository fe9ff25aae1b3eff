------------------------- MODULE GlobalScheduler -------------------------
(*************************************************************************)
(* globalSchedulerPass::run() of schedulerPass.cpp.  identifyTraces runs *)
(* (IdentifyStep) and the DDGs of all traces are built before anything   *)
(* moves (BuildDDGs); then for each trace in turn the pass runs          *)
(* listSchedule (StartSchedule, ScheduleStep) and applySchedule on its   *)
(* result (StartApply, ApplyStep, EndTrace), each one of its own steps at*)
(* a time.  Liveness is that of the function before the pass (Analyses   *)
(* has the steps that compute it).  A function has the fields of IR and  *)
(* the profile of TraceIdentification.                                   *)
(*************************************************************************)
EXTENDS ScheduleLegality, DDG, LegalMotion

CONSTANTS
    Functions,  \* the functions the pass may run on
    Threshold,  \* getTraceThreshold()
    Budget      \* getPressureBudget()

ASSUME ThresholdAssumption == Threshold \in 1..100

ASSUME BudgetAssumption == Budget \in Nat \ {0}

VARIABLES
    fn,                             \* the function
    bfsOrder, byFreqDesc, seedCursor, tracePc, visited, growing,
    current, traces, traceStats,    \* identifyTraces
    ddgs,                           \* the DDG of each trace
    turn,                           \* the trace whose turn it is; 0: no DDGs yet
    usePressure,                    \* globalSchedulerPass(true) or (false)
    graph, listPc, worklist, predCount, readyQueue, currentLive,
    schedule, peak,                 \* listSchedule
    call, body, applyPc, next, dynamicLive, hoistStats      \* applySchedule

traceVars == <<bfsOrder, byFreqDesc, seedCursor, tracePc, visited, growing,
               current, traces, traceStats>>

passVars == <<fn, traceVars, ddgs, turn>>

listVars == <<graph, listPc, worklist, predCount, readyQueue, currentLive, schedule, peak>>

applyVars == <<call, body, applyPc, next, dynamicLive, hoistStats>>

vars == <<passVars, usePressure, listVars, applyVars>>

Identify == INSTANCE TraceIdentification WITH
                profile <- fn, pc <- tracePc, trace <- growing, stats <- traceStats,
                Profiles <- Functions

ASSUME FunctionsAssumption == \A f \in Functions : IsFunction(f) /\ Identify!IsProfile(f)

(* (The Inits of these two, where Graphs and Calls matter, are not used.)*)
List == INSTANCE ListScheduler WITH
            pc <- listPc, Graphs <- {}, Value <- UNION {Universe(f) : f \in Functions}

Apply == INSTANCE ApplySchedule WITH pc <- applyPc, Calls <- {}

Init ==
    /\ Identify!Init
    /\ ddgs = <<>>
    /\ turn = 0
    /\ usePressure \in BOOLEAN
    /\ graph = [nodes |-> <<>>]
    /\ listPc = "none"
    /\ worklist = <<>>
    /\ predCount = <<>>
    /\ readyQueue = <<>>
    /\ currentLive = {}
    /\ schedule = <<>>
    /\ peak = 0
    /\ call = [fn |-> fn, liveIn |-> LiveIn(fn), liveOut |-> LiveOut(fn)]
    /\ body = fn.body
    /\ applyPc = "none"
    /\ next = 1
    /\ dynamicLive = <<>>
    /\ hoistStats = [c \in Apply!Counters |-> 0]

IdentifyStep ==
    /\ Identify!Next
    /\ UNCHANGED <<ddgs, turn, usePressure, listVars, applyVars>>

FirstTurn == tracePc = "done" /\ turn = 0 /\ turn' = 1

(* buildDDG and computeCriticalPath, for every trace.                    *)
BuildDDGs ==
    /\ FirstTurn
    /\ ddgs' = [k \in DOMAIN traces |-> TraceDDG(fn, traces[k])]
    /\ UNCHANGED <<fn, traceVars, usePressure, listVars, applyVars>>

StartSchedule ==
    /\ listPc = "none"
    /\ turn \in DOMAIN traces
    /\ graph' = ddgs[turn]
    /\ listPc' = "leaves"
    /\ worklist' = graph'.nodes
    /\ predCount' = [n \in ToSet(graph'.nodes) |-> Cardinality(List!PredsOf(graph', n))]
    /\ currentLive' = graph'.live
    /\ peak' = List!Larger(peak, Cardinality(graph'.live))
    /\ UNCHANGED <<passVars, usePressure, readyQueue, schedule, applyVars>>

ScheduleStep == List!Next /\ UNCHANGED <<passVars, applyVars>>

(* Fault: an empty schedule is not passed on.                            *)
StartApply_NotEmpty ==
    /\ listPc = "done"
    /\ applyPc = "none"
    /\ schedule /= <<>>
    /\ call' = [fn |-> fn, liveIn |-> call.liveIn, liveOut |-> call.liveOut,
                trace |-> traces[turn], schedule |-> schedule]
    /\ applyPc' = "reorder"
    /\ next' = 1
    /\ dynamicLive' = [b \in ToSet(traces[turn]) |-> {}]
    /\ UNCHANGED <<passVars, usePressure, listVars, body, hoistStats>>

StartApply ==
    /\ listPc = "done"
    /\ applyPc = "none"
    /\ call' = [fn |-> fn, liveIn |-> call.liveIn, liveOut |-> call.liveOut,
                trace |-> traces[turn], schedule |-> schedule]
    /\ applyPc' = "reorder"
    /\ next' = 1
    /\ dynamicLive' = [b \in ToSet(traces[turn]) |-> {}]
    /\ UNCHANGED <<passVars, usePressure, listVars, body, hoistStats>>

ApplyStep == Apply!Next /\ UNCHANGED <<passVars, listVars>>

(* Fault: a trace in which something was hoisted is scheduled again.     *)
EndTrace_Repeat ==
    /\ applyPc = "done"
    /\ turn' = IF hoistStats["done"] > 0 THEN turn ELSE turn + 1
    /\ listPc' = "none"
    /\ applyPc' = "none"
    /\ graph' = [nodes |-> <<>>]
    /\ predCount' = <<>>
    /\ currentLive' = {}
    /\ schedule' = <<>>
    /\ UNCHANGED <<fn, traceVars, ddgs, usePressure, worklist, readyQueue, peak,
                   call, body, next, dynamicLive, hoistStats>>

EndTrace ==
    /\ applyPc = "done"
    /\ turn' = turn + 1
    /\ listPc' = "none"
    /\ applyPc' = "none"
    /\ graph' = [nodes |-> <<>>]
    /\ predCount' = <<>>
    /\ currentLive' = {}
    /\ schedule' = <<>>
    /\ UNCHANGED <<fn, traceVars, ddgs, usePressure, worklist, readyQueue, peak,
                   call, body, next, dynamicLive, hoistStats>>

Step == IdentifyStep \/ StartSchedule \/ ScheduleStep \/ StartApply \/ ApplyStep \/ EndTrace

Next == Step \/ BuildDDGs

Ended == turn = Len(traces) + 1

(* A step that takes `turn` from 0 is a BuildDDGs.                       *)
Spec == Init /\ [][Next]_vars /\ WF_vars(Step) /\ WF_turn(FirstTurn)
-----------------------------------------------------------------------------
(* The pass as a whole is legal code motion, step by step and from its   *)
(* first program to its last: traces that follow one another, their      *)
(* schedules and their hoists never combine to an illegal move.          *)
Motion == INSTANCE CodeMotion

IsCodeMotion == Motion!Spec

PassIsLegalMotion == Ended => Motion!IsLegalMotion(fn, fn.body, body)

(* A trace's DDG was built before the earlier traces were moved; when it *)
(* is scheduled it still has the nodes and edges of the program as it is.*)
DDGIsFresh ==
    listPc = "leaves" =>
        LET now == [fn EXCEPT !.body = body]
        IN  /\ graph.nodes = TraceNodes(now, traces[turn])
            /\ \A n \in ToSet(graph.nodes) :
                  graph.succ[n] = TraceSuccessors(now, traces[turn])[n]

(* No bookkeeping code is needed: the turn of a trace changes only its   *)
(* own blocks, not those beside it, and never adds an instruction to a   *)
(* loop header.                                                          *)
OnlyTraceChanges ==
    [][\A b \in Blocks(fn) :
          /\ body'[b] /= body[b] => b \in ToSet(traces[turn])
          /\ b \in fn.headers => ToSet(body'[b]) \subseteq ToSet(body[b])]_vars

(* The pass ends.                                                        *)
Termination == <>Ended
-----------------------------------------------------------------------------
(* The inductive invariant.  The DDGs are those of the program the pass  *)
(* began with; a turn is over when the next begins, and leaves the blocks*)
(* of the traces to come as they were.                                   *)
TurnInv ==
    /\ turn \in Nat
    /\ IF turn = 0
       THEN body = fn.body /\ listPc = "none"
       ELSE /\ tracePc = "done" /\ turn <= Len(traces) + 1
            /\ ddgs = [k \in DOMAIN traces |-> TraceDDG(fn, traces[k])]
    /\ \A t \in DOMAIN traces :
          t > turn \/ (t = turn /\ applyPc = "none") =>
              \A b \in ToSet(traces[t]) : body[b] = fn.body[b]

(* The program is one legal motion away from what it was at the start.   *)
ProgramInv ==
    /\ IsLegalMotion(fn, fn.body, body)
    /\ TerminatorsLast(fn, body)

(* The call of listSchedule, if there is one, is on the graph of the     *)
(* trace whose turn it is, and the call of applySchedule on its result.  *)
CallsInv ==
    /\ usePressure \in BOOLEAN /\ peak \in Nat /\ call.fn = fn
    /\ listPc \in {"none", "done"} => readyQueue = <<>>
    /\ IF listPc = "none"
       THEN schedule = <<>> /\ applyPc = "none"
       ELSE turn \in DOMAIN traces /\ graph = ddgs[turn] /\ List!StateOK /\ List!CallInv
    /\ applyPc /= "none" =>
          /\ listPc = "done" /\ call.trace = traces[turn] /\ call.schedule = schedule
          /\ Apply!MotionInv

GlobalInv == Identify!IInv /\ TurnInv /\ ProgramInv /\ CallsInv
=============================================================================
