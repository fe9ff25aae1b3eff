----------------------------- MODULE Dominators -----------------------------
(*************************************************************************)
(* computeDominators() of dom.hpp: one call.  Rounds over the blocks in  *)
(* breadth-first order intersect the dominators of their predecessors    *)
(* (VisitBlock) until a round changes nothing (NextRound, StartIdoms);   *)
(* then each block's immediate dominator is chosen (FindIdom, Return).   *)
(* Bit i of a set stands for the i-th block of the order, so a set of    *)
(* bits is a set of the blocks reached.                                  *)
(*************************************************************************)
EXTENDS CFG

CONSTANT Functions      \* the functions the analysis may be run on

VARIABLES
    fn,         \* the function
    order,      \* its blocks in breadth-first order
    dom,        \* [block reached -> set of its dominators]
    idom,       \* [block reached -> its immediate dominator]
    next,       \* position in order of the block to visit
    changed,    \* whether this round changed a set so far
    pc          \* "round", "idoms" or "done"

vars == <<fn, order, dom, idom, next, changed, pc>>

NoBlock == "none"       \* nullptr

InitSets ==
    /\ order = BreadthFirst(fn)
    /\ dom = [b \in ToSet(order) |-> IF b = fn.entry THEN {b} ELSE ToSet(order)]
    /\ idom = [b \in ToSet(order) |-> NoBlock]

Init ==
    /\ fn \in Functions
    /\ InitSets
    /\ next = 2
    /\ changed = FALSE
    /\ pc = "round"

(* Predecessors that cannot be executed do not count.                    *)
Known(b) == Preds(fn, b) \cap ToSet(order)

(* Fault: an unreachable predecessor has no dominators.                  *)
NewDom_AllPreds(b) ==
    {b} \cup {a \in ToSet(order) : Preds(fn, b) = Known(b) /\ \A p \in Known(b) : a \in dom[p]}

NewDom(b) ==
    {b} \cup {a \in ToSet(order) : Known(b) /= {} /\ \A p \in Known(b) : a \in dom[p]}

VisitBlock ==
    /\ pc = "round"
    /\ next <= Len(order)
    /\ dom' = [dom EXCEPT ![order[next]] = NewDom(order[next])]
    /\ changed' = (changed \/ dom' /= dom)
    /\ next' = next + 1
    /\ UNCHANGED <<fn, order, idom, pc>>

NextRound ==
    /\ pc = "round"
    /\ next > Len(order)
    /\ changed
    /\ changed' = FALSE
    /\ next' = 2
    /\ UNCHANGED <<fn, order, dom, idom, pc>>

StartIdoms ==
    /\ pc = "round"
    /\ next > Len(order)
    /\ ~changed
    /\ pc' = "idoms"
    /\ next' = 2
    /\ UNCHANGED <<fn, order, dom, idom, changed>>

Strict(b) == dom[b] \ {b}

(* Fault: the test of who dominates whom is the wrong way round.         *)
Closest_Farthest(b) == {d \in Strict(b) : \A e \in Strict(b) \ {d} : e \notin dom[d]}

(* The strict dominators of b that dominate no other one.                *)
Closest(b) == {d \in Strict(b) : \A e \in Strict(b) \ {d} : d \notin dom[e]}

FindIdom ==
    /\ pc = "idoms"
    /\ next <= Len(order)
    /\ LET b == order[next]
           bits == {k \in 1..Len(order) : order[k] \in Closest(b)}
       IN  idom' = [idom EXCEPT ![b] = IF bits = {} THEN NoBlock ELSE order[Min(bits)]]
    /\ next' = next + 1
    /\ UNCHANGED <<fn, order, dom, changed, pc>>

Return ==
    /\ pc = "idoms"
    /\ next > Len(order)
    /\ pc' = "done"
    /\ UNCHANGED <<fn, order, dom, idom, next, changed>>

Next == VisitBlock \/ NextRound \/ StartIdoms \/ FindIdom \/ Return

Spec == Init /\ [][Next]_vars /\ WF_vars(Next)
-----------------------------------------------------------------------------
Dominators(b) == {a \in Blocks(fn) : Dominates(fn, a, b)}

(* The intersection starts from "every block" and stops where it should: *)
(* the sets are exactly the blocks no path from the entry can avoid, in  *)
(* irreducible graphs and next to unreachable blocks as well.            *)
ResultIsDominance ==
    pc \in {"idoms", "done"} => \A b \in ToSet(order) : dom[b] = Dominators(b)

(* The block chosen is a strict dominator that every other one dominates;*)
(* only the entry has none.                                              *)
IdomIsClosest ==
    pc = "done" =>
        /\ idom[fn.entry] = NoBlock
        /\ \A b \in ToSet(order) \ {fn.entry} :
              /\ idom[b] \in Dominators(b) \ {b}
              /\ Dominators(b) \ {b} \subseteq Dominators(idom[b])
=============================================================================
