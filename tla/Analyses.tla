------------------------------ MODULE Analyses ------------------------------
(*************************************************************************)
(* The repository's dataflow analyses, called one after another on one   *)
(* function: computeLiveness and computeReaching as globalSchedulerPass  *)
(* does, then computeDominators, which is in the same family but which   *)
(* the passes replace by LLVM's.  Each takes its own steps; Call starts  *)
(* the next one.                                                         *)
(*************************************************************************)
EXTENDS IR

CONSTANTS Functions, NoName

(* What LLVM guarantees of a function.                                   *)
IsFlow(f) ==
    /\ f.layout \in Seq(Blocks(f)) /\ f.entry \in Blocks(f)
    /\ \A b \in Blocks(f) : f.succ[b] \in Seq(Blocks(f))

ASSUME FunctionsAssumption == \A f \in Functions : IsFlow(f)

VARIABLES
    fn, in, out, order, reachIn, reachOut, dom, idom,   \* input and results
    next, changed, pc,                                  \* of the current call
    phase       \* "liveness", "reaching" or "dominators"

vars == <<fn, in, out, order, reachIn, reachOut, dom, idom, next, changed, pc, phase>>

Live == INSTANCE Liveness
Reach == INSTANCE Reaching
Dom == INSTANCE Dominators

Init ==
    /\ Live!Init
    /\ Reach!InitSets
    /\ Dom!InitSets
    /\ phase = "liveness"

LivenessStep ==
    /\ phase = "liveness"
    /\ Live!Next
    /\ UNCHANGED <<order, reachIn, reachOut, dom, idom, phase>>

ReachingStep ==
    /\ phase = "reaching"
    /\ Reach!Next
    /\ UNCHANGED <<in, out, dom, idom, phase>>

DominatorsStep ==
    /\ phase = "dominators"
    /\ Dom!Next
    /\ UNCHANGED <<in, out, reachIn, reachOut, phase>>

Call(from, to, first) ==
    /\ phase = from
    /\ pc = "done"
    /\ phase' = to
    /\ next' = first
    /\ changed' = FALSE
    /\ pc' = "round"
    /\ UNCHANGED <<fn, in, out, order, reachIn, reachOut, dom, idom>>

CallReaching == Call("liveness", "reaching", 1)

CallDominators == Call("reaching", "dominators", 2)

Next == LivenessStep \/ ReachingStep \/ DominatorsStep \/ CallReaching \/ CallDominators

Spec == Init /\ [][Next]_vars /\ WF_vars(Next)
-----------------------------------------------------------------------------
(* computeLiveness: sound on the way, exact at the end (see Liveness).   *)
NeverTooMuch == phase = "liveness" => Live!NeverTooMuch

ResultIsLiveness == phase = "liveness" => Live!ResultIsLiveness

(* computeReaching: exact at the end (see Reaching).                     *)
ResultIsReaching == phase = "reaching" => Reach!ResultIsReaching

(* computeDominators: exact at the end (see Dominators).                 *)
ResultIsDominance == phase = "dominators" => Dom!ResultIsDominance

(* Its second part: the nearest strict dominator (see Dominators).       *)
IdomIsClosest == phase = "dominators" => Dom!IdomIsClosest

TakenByPHI(f) == UNION {Operands(f, i) : i \in {j \in Instructions(f) : IsPHI(f, j)}}

(* What LLVM's verifier demands of a function, as a hypothesis of proofs:*)
(* values have distinct names, which are not those of arguments; a use   *)
(* that is not a PHI's comes after the definition.                       *)
UniqueNames(f) ==
    \A b \in Blocks(f) : \A i \in DefSet(f, b) :
        /\ i \notin f.args
        /\ \A d \in Universe(f) \ f.args :
              i /= d /\ f.name[i] /= NoName => f.name[d] /= f.name[i]

StrictSSA(f) ==
    /\ UniqueNames(f)
    /\ \A b \in Blocks(f) : \A v \in UseSet(f, b) \ (f.args \cup TakenByPHI(f)) :
          LET home == BlockOf(f.body, v)
          IN  /\ home \in Blocks(f) /\ home /= b /\ v \in DefSet(f, home)
              /\ b \in ToSet(BreadthFirst(f)) => Dominates(f, home, b)

(* The analyses agree, though they run in opposite directions: a value   *)
(* live at the start of a block has been computed whenever control gets  *)
(* there - its definition reaches the block, and its block dominates it. *)
(* Only a value that a PHI takes may be counted as live where it does not*)
(* exist yet, because PHI operands are uses in the PHI's block.          *)
LiveValuesAreDefined ==
    phase = "dominators" /\ pc = "done" =>
        \A b \in ToSet(order) :
            LET live == in[b] \ (fn.args \cup TakenByPHI(fn))
            IN  /\ live \subseteq reachIn[b]
                /\ \A v \in live : BlockOf(fn.body, v) \in dom[b]

(* All three calls end.                                                  *)
Termination == <>(phase = "dominators" /\ pc = "done")
=============================================================================
