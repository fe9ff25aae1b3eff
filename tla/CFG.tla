------------------------------ MODULE CFG ------------------------------
(*************************************************************************)
(* Control-flow graphs as the scheduler sees them through LLVM's         *)
(* successors(), DominatorTree and LoopInfo.  A graph is a record        *)
(*     [entry  |-> block,                                                *)
(*      layout |-> sequence of all blocks, in the function's order,      *)
(*      succ   |-> [block -> sequence of blocks]]                        *)
(* The dominator and loop analyses are LLVM's, not the repository's, so  *)
(* they are defined here by what they mean.                              *)
(*************************************************************************)
EXTENDS Integers, Sequences, FiniteSets, SequencesExt

Blocks(cfg) == ToSet(cfg.layout)

Succs(cfg, b) == ToSet(cfg.succ[b])

Preds(cfg, b) == {p \in Blocks(cfg) : b \in Succs(cfg, p)}

(* The blocks reached from `from` by edges that stay outside `avoid`.    *)
ReachableFrom(cfg, from, avoid) ==
    LET reach[k \in 0..Len(cfg.layout)] ==
            IF k = 0
            THEN from \ avoid
            ELSE LET r == reach[k-1]
                 IN  r \cup ((UNION {Succs(cfg, b) : b \in r}) \ avoid)
    IN  reach[Len(cfg.layout)]

Reachable(cfg) == ReachableFrom(cfg, {cfg.entry}, {})

(* A list with the blocks of a vector that it does not hold yet.         *)
Entered(order, vector) ==
    LET entered[k \in 0..Len(vector)] ==
            IF k = 0
            THEN order
            ELSE LET now == entered[k-1]
                 IN  IF vector[k] \in ToSet(now) THEN now ELSE Append(now, vector[k])
    IN  entered[Len(vector)]

(* The blocks in breadth-first order from the entry, with which three of *)
(* the analyses start: each listed block in turn adds those of its       *)
(* successors that are not listed yet.                                   *)
BreadthFirst(cfg) ==
    LET visited[k \in 0..Len(cfg.layout)] ==
            IF k = 0
            THEN <<cfg.entry>>
            ELSE LET order == visited[k-1]
                 IN  IF k <= Len(order)
                     THEN Entered(order, cfg.succ[order[k]])
                     ELSE order
    IN  visited[Len(cfg.layout)]

(* A trace that leads forward in that order, as trace identification     *)
(* builds them.                                                          *)
IsForward(cfg, trace) ==
    /\ trace \in Seq(Blocks(cfg)) /\ trace /= <<>>
    /\ \E pos \in [1..Len(trace) -> 1..Len(BreadthFirst(cfg))] :
          /\ \A a \in 1..Len(trace) : BreadthFirst(cfg)[pos[a]] = trace[a]
          /\ \A a, b \in 1..Len(trace) : a < b => pos[a] < pos[b]

(* Every path from the entry to b goes through a.                        *)
Dominates(cfg, a, b) ==
    a = b \/ b \notin ReachableFrom(cfg, {cfg.entry}, {a})

(* A natural back edge: its target dominates its source.                 *)
IsBackEdge(cfg, b, s) == s \in Succs(cfg, b) /\ Dominates(cfg, s, b)

LoopHeaders(cfg) ==
    {h \in Reachable(cfg) : \E b \in Reachable(cfg) : IsBackEdge(cfg, b, h)}

(* The natural loop of h: the blocks that h dominates and that reach one *)
(* of its back edges without passing through h again.                    *)
NaturalLoop(cfg, h) ==
    {b \in Reachable(cfg) :
        /\ Dominates(cfg, h, b)
        /\ \E l \in ReachableFrom(cfg, {b}, {h} \ {b}) : IsBackEdge(cfg, l, h)}

(* The header of the innermost loop that holds b, or "none".             *)
LoopFor(cfg, b) ==
    LET around == {h \in LoopHeaders(cfg) : b \in NaturalLoop(cfg, h)}
    IN  IF around = {}
        THEN "none"
        ELSE CHOOSE h \in around :
                \A g \in around : NaturalLoop(cfg, h) \subseteq NaturalLoop(cfg, g)

(* The paths of at most k blocks that start at `from`.                   *)
Paths(cfg, from, k) ==
    LET paths[n \in 1..k] ==
            IF n = 1
            THEN {<<from>>}
            ELSE LET shorter == paths[n-1]
                 IN  shorter \cup
                     UNION {{Append(p, s) : s \in Succs(cfg, Last(p))} : p \in shorter}
    IN  paths[k]

(* The graph together with the analyses, computed once per function      *)
(* (dominators here, loops at line 79 of the same file): the pass never  *)
(* changes an edge, so they stay valid while it runs.                    *)
WithAnalyses(cfg) ==
    [entry   |-> cfg.entry,
     layout  |-> cfg.layout,
     succ    |-> cfg.succ,
     dom     |-> [b \in Blocks(cfg) |-> {a \in Blocks(cfg) : Dominates(cfg, a, b)}],
     headers |-> LoopHeaders(cfg),
     loop    |-> [b \in Blocks(cfg) |-> LoopFor(cfg, b)],
     paths   |-> Paths(cfg, cfg.entry, Len(cfg.layout))]
========================================================================
