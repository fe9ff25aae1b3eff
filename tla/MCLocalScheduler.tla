------------------------- MODULE MCLocalScheduler -------------------------
(*************************************************************************)
(* A loop of one block L, entered from E and left to X.  The block holds *)
(* a PHI and three slots that take any opcode of Ops and any operand that*)
(* is available; the PHI takes one of their results around the loop.     *)
(*************************************************************************)
EXTENDS LocalScheduler

Loop ==
    [entry |-> "E", layout |-> <<"E", "L", "X">>,
     succ |-> [E |-> <<"L">>, L |-> <<"L", "X">>, X |-> <<>>]]

LoopGraph == WithAnalyses(Loop)

Slots == {"x1", "x2", "x3"}

Placed == [E |-> <<"y", "tE">>, L |-> <<"p", "x1", "x2", "x3", "tL">>, X |-> <<"tX">>]

Function(ops, uses, around, condition) ==
    LET insts == UNION {ToSet(Placed[b]) : b \in DOMAIN Placed}
    IN  [entry |-> LoopGraph.entry, layout |-> LoopGraph.layout, succ |-> LoopGraph.succ,
         dom |-> LoopGraph.dom, headers |-> LoopGraph.headers, loop |-> LoopGraph.loop,
         paths |-> LoopGraph.paths,
         args |-> {"a"},
         body |-> Placed,
         op   |-> [i \in insts |-> IF i \in Slots THEN ops[i]
                                   ELSE IF i = "p" THEN "phi"
                                   ELSE IF i = "y" THEN "add" ELSE "br"],
         use  |-> [i \in insts |-> IF i \in Slots THEN uses[i]
                                   ELSE IF i = "p" THEN <<"y", around>>
                                   ELSE IF i = "y" THEN <<"a">>
                                   ELSE IF i = "tL" THEN <<condition>> ELSE <<>>],
         from |-> [i \in insts |-> IF i = "p" THEN <<"E", "L">> ELSE <<>>]]

Ops ==
    {[x1 |-> o1, x2 |-> o2, x3 |-> o3] :
        o1 \in {"add", "load"}, o2 \in {"add", "mul", "load"}, o3 \in {"add", "mul", "load"}}

Uses ==
    {[x1 |-> u1, x2 |-> u2, x3 |-> u3] :
        u1 \in {<<"y">>, <<"p">>},
        u2 \in {<<"y">>, <<"p">>, <<"x1", "x1">>},
        u3 \in {<<"a">>, <<"p", "y">>, <<"x1">>, <<"x2">>}}

LoopFunctions ==
    {Function(ops, uses, around, condition) :
        ops \in Ops, uses \in Uses, around \in {"x1", "x3"}, condition \in {"x2", "p"}}

(* The hypothesis of what is proved about the schedule.                  *)
ASSUME SSAAssumption == \A f \in Functions : SSAValid(f, f.body)
=============================================================================
