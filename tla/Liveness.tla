----------------------------- MODULE Liveness -----------------------------
(*************************************************************************)
(* computeLiveness() of liveness.hpp: one call.  Rounds over the blocks  *)
(* in reverse layout order recompute OUT and IN of each (VisitBlock),    *)
(* until a round changes nothing (NextRound, Return).                    *)
(*************************************************************************)
EXTENDS IR

CONSTANT Functions      \* the functions the analysis may be run on

VARIABLES
    fn,         \* the function
    in, out,    \* [block -> set of values], BlockStateLiveness
    next,       \* position in the layout of the block to visit, 0 after the last
    changed,    \* whether this round changed a set so far
    pc          \* "round" or "done"

vars == <<fn, in, out, next, changed, pc>>

Init ==
    /\ fn \in Functions
    /\ in = [b \in Blocks(fn) |-> {}]
    /\ out = [b \in Blocks(fn) |-> {}]
    /\ next = Len(fn.layout)
    /\ changed = FALSE
    /\ pc = "round"

NewOut(b) == UNION {in[s] : s \in Succs(fn, b)}

(* Fault: the definitions of the block are not taken out.                *)
NewIn_NoKill(b) == UseSet(fn, b) \cup NewOut(b)

NewIn(b) == UseSet(fn, b) \cup (NewOut(b) \ DefSet(fn, b))

(* Faults: `changed` forgets the earlier blocks of the round; it is set  *)
(* by a set that is not empty.                                           *)
VisitAs(change) ==
    /\ pc = "round"
    /\ next > 0
    /\ LET b == fn.layout[next]
       IN  /\ in' = [in EXCEPT ![b] = NewIn(b)]
           /\ out' = [out EXCEPT ![b] = NewOut(b)]
    /\ changed' = change
    /\ next' = next - 1
    /\ UNCHANGED <<fn, pc>>

VisitBlock_LastOnly == VisitAs(in' /= in \/ out' /= out)

VisitBlock_NotEmpty == VisitAs(changed \/ NewIn(fn.layout[next]) /= {})

VisitBlock ==
    /\ pc = "round"
    /\ next > 0
    /\ LET b == fn.layout[next]
       IN  /\ in' = [in EXCEPT ![b] = NewIn(b)]
           /\ out' = [out EXCEPT ![b] = NewOut(b)]
    /\ changed' = (changed \/ in' /= in \/ out' /= out)
    /\ next' = next - 1
    /\ UNCHANGED <<fn, pc>>

NextRound ==
    /\ pc = "round"
    /\ next = 0
    /\ changed
    /\ changed' = FALSE
    /\ next' = Len(fn.layout)
    /\ UNCHANGED <<fn, in, out, pc>>

Return ==
    /\ pc = "round"
    /\ next = 0
    /\ ~changed
    /\ pc' = "done"
    /\ UNCHANGED <<fn, in, out, next, changed>>

Next == VisitBlock \/ NextRound \/ Return

Spec == Init /\ [][Next]_vars /\ WF_vars(Next)
-----------------------------------------------------------------------------
DefBlocks(v) == {d \in Blocks(fn) : v \in DefSet(fn, d)}

(* Live by paths: from the start of b a path leads to one of `readers`   *)
(* without passing through a block that defines the value before.        *)
ReachesReader(b, v, readers) ==
    \/ b \in readers
    \/ \E t \in ReachableFrom(fn, {b}, DefBlocks(v)) : Succs(fn, t) \cap readers /= {}

LiveAtStart(b) ==
    {v \in Universe(fn) :
        ReachesReader(b, v, {u \in Blocks(fn) : v \in UseSet(fn, u)})}

(* The iteration never claims too much: on the way, a value in a set is  *)
(* live there by paths, also if a later round revisits the block.        *)
NeverTooMuch ==
    \A b \in Blocks(fn) :
        /\ in[b] \subseteq LiveAtStart(b)
        /\ out[b] \subseteq UNION {LiveAtStart(s) : s \in Succs(fn, b)}

(* The round that stops the iteration was not fooled: every live value   *)
(* has arrived in every block, around loops as well, and the result is   *)
(* the one (LiveIn, LiveOut of IR) that the schedulers are given.        *)
ResultIsLiveness ==
    pc = "done" => /\ in = [b \in Blocks(fn) |-> LiveAtStart(b)]
                   /\ in = LiveIn(fn)
                   /\ out = LiveOut(fn)
=============================================================================
