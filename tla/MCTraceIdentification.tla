---------------------- MODULE MCTraceIdentification ----------------------
(*************************************************************************)
(* Every control-flow graph of an entry E, two blocks A and B and an exit*)
(* X in which E, A and B have one or two successors, with probabilities  *)
(* from Splits: diamonds, loops, nested and irreducible loops, blocks    *)
(* that cannot be reached.  A may branch to one block by both its edges. *)
(*************************************************************************)
EXTENDS TraceIdentification

Splits == {30, 60, 70}

Targets == {"A", "B", "X"}

(* The ends of a block: its successors and the probability of the first. *)
Ends ==
    {<<<<s>>, 100>> : s \in Targets}
    \cup {<<st, p>> : st \in {q \in Targets \X Targets : q[1] /= q[2]}, p \in Splits}

DoubleEdges == {<<<<s, s>>, 100>> : s \in Targets}

Flow(e, a, b) ==
    [entry  |-> "E",
     layout |-> <<"E", "A", "B", "X">>,
     succ   |-> [E |-> e[1], A |-> a[1], B |-> b[1], X |-> <<>>],
     prob   |-> [E |-> [s \in ToSet(e[1]) |-> IF s = e[1][1] THEN e[2] ELSE 100 - e[2]],
                 A |-> [s \in ToSet(a[1]) |-> IF s = a[1][1] THEN a[2] ELSE 100 - a[2]],
                 B |-> [s \in ToSet(b[1]) |-> IF s = b[1][1] THEN b[2] ELSE 100 - b[2]],
                 X |-> <<>>]]

(* BlockFrequencyInfo: the flow of 100 entries through Rounds steps, at  *)
(* least 1 for a block that is reached and 0 for one that is not.        *)
Rounds == 6

Freq(cfg) ==
    LET B == Blocks(cfg)
        flow[k \in 0..Rounds] ==
            IF k = 0
            THEN {<<b, IF b = cfg.entry THEN 100 ELSE 0>> : b \in B}
            ELSE LET prev == flow[k-1]
                     In(b) == {<<q, (q[2] * cfg.prob[q[1]][b]) \div 100>> :
                                  q \in {r \in prev : r[1] \in Preds(cfg, b)}}
                 IN  {<<b, IF b = cfg.entry THEN 100
                           ELSE MapThenSumSet(LAMBDA i : i[2], In(b))>> : b \in B}
        final == flow[Rounds]
    IN  [b \in B |->
            IF b \notin Reachable(cfg) THEN 0
            ELSE Max({1, (CHOOSE q \in final : q[1] = b)[2]})]

SmallProfiles ==
    {LET cfg == Flow(e, a, b)
     IN  [entry |-> cfg.entry, layout |-> cfg.layout, succ |-> cfg.succ,
          prob |-> cfg.prob, freq |-> Freq(cfg)] : e \in Ends, a \in Ends \cup DoubleEdges, b \in Ends}
=============================================================================
