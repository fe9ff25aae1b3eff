------------------------------ MODULE Reaching ------------------------------
(*************************************************************************)
(* computeReaching() of reaching.hpp: one call.  Rounds over the blocks  *)
(* in breadth-first order recompute IN and OUT of each (VisitBlock),     *)
(* until a round changes no OUT (NextRound, Return).                     *)
(*                                                                       *)
(* A function has one more field here,                                   *)
(*     name : [instruction -> name], NoName for the numbered ones        *)
(* LLVM keeps the names of a function's values distinct.                 *)
(*************************************************************************)
EXTENDS IR

CONSTANTS
    Functions,      \* the functions the analysis may be run on
    NoName          \* getName() of an instruction without a name

VARIABLES
    fn,                 \* the function
    order,              \* its blocks in breadth-first order
    reachIn, reachOut,  \* [block -> set of definitions], BlockStateReaching
    next,               \* position in order of the block to visit
    changed,            \* whether this round changed an OUT so far
    pc                  \* "round" or "done"

vars == <<fn, order, reachIn, reachOut, next, changed, pc>>

(* The definitions are the instructions with a value.                    *)
gen(b) == DefSet(fn, b)

(* Fault: the test that the name is not empty is missing.                *)
kill_Unnamed(b) ==
    {d \in Universe(fn) \ fn.args :
        \E i \in gen(b) : i /= d /\ fn.name[d] = fn.name[i]}

(* Other definitions of the same variable.                               *)
kill(b) ==
    {d \in Universe(fn) \ fn.args :
        \E i \in gen(b) : i /= d /\ fn.name[i] /= NoName /\ fn.name[d] = fn.name[i]}

(* A predecessor the search did not reach contributes the empty set.     *)
InitSets ==
    /\ order = BreadthFirst(fn)
    /\ reachIn = [b \in Blocks(fn) |-> {}]
    /\ reachOut = [b \in Blocks(fn) |-> {}]

Init ==
    /\ fn \in Functions
    /\ InitSets
    /\ next = 1
    /\ changed = FALSE
    /\ pc = "round"

NewIn(b) == UNION {reachOut[p] : p \in Preds(fn, b)}

NewOut(b) == gen(b) \cup (NewIn(b) \ kill(b))

(* Fault: `changed` forgets the earlier blocks of the round.             *)
VisitBlock_LastOnly ==
    /\ pc = "round"
    /\ next <= Len(order)
    /\ LET b == order[next]
       IN  /\ reachIn' = [reachIn EXCEPT ![b] = NewIn(b)]
           /\ reachOut' = [reachOut EXCEPT ![b] = NewOut(b)]
    /\ changed' = (reachOut' /= reachOut)
    /\ next' = next + 1
    /\ UNCHANGED <<fn, order, pc>>

VisitBlock ==
    /\ pc = "round"
    /\ next <= Len(order)
    /\ LET b == order[next]
       IN  /\ reachIn' = [reachIn EXCEPT ![b] = NewIn(b)]
           /\ reachOut' = [reachOut EXCEPT ![b] = NewOut(b)]
    /\ changed' = (changed \/ reachOut' /= reachOut)
    /\ next' = next + 1
    /\ UNCHANGED <<fn, order, pc>>

NextRound ==
    /\ pc = "round"
    /\ next > Len(order)
    /\ changed
    /\ changed' = FALSE
    /\ next' = 1
    /\ UNCHANGED <<fn, order, reachIn, reachOut, pc>>

Return ==
    /\ pc = "round"
    /\ next > Len(order)
    /\ ~changed
    /\ pc' = "done"
    /\ UNCHANGED <<fn, order, reachIn, reachOut, next, changed>>

Next == VisitBlock \/ NextRound \/ Return

Spec == Init /\ [][Next]_vars /\ WF_vars(Next)
-----------------------------------------------------------------------------
(* Reaching by paths: control can leave the block of the definition and  *)
(* arrive at the start of b.  Every value is defined once, so nothing on *)
(* the way can take the definition back.                                 *)
Reaches(d, b) ==
    \E home \in Reachable(fn) :
        d \in gen(home) /\ b \in ReachableFrom(fn, Succs(fn, home), {})

(* The result is exact: the unnamed values, which all have the same empty*)
(* name, do not kill one another; loops are followed around; definitions *)
(* of blocks that cannot be executed reach nothing.                      *)
ResultIsReaching ==
    pc = "done" =>
        \A b \in ToSet(order) :
            reachIn[b] = {d \in Universe(fn) \ fn.args : Reaches(d, b)}
=============================================================================
