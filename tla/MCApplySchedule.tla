------------------------- MODULE MCApplySchedule -------------------------
(*************************************************************************)
(* Small functions around one trace: a diamond whose merge block the     *)
(* trace reaches, and a loop that the trace enters and runs through.     *)
(* Three slots x1, x2, x3 take any opcode of their Ops and any operand   *)
(* that is available there; the schedule is any order of the trace's     *)
(* instructions that respects its DDG, which includes every order        *)
(* listSchedule can return.                                              *)
(*************************************************************************)
EXTENDS ApplySchedule, DDG

Slots == {"x1", "x2", "x3"}

Diamond ==
    [entry |-> "E", layout |-> <<"E", "T", "F", "M">>,
     succ |-> [E |-> <<"T", "F">>, T |-> <<"M">>, F |-> <<"M">>, M |-> <<>>]]

Loop ==
    [entry |-> "E", layout |-> <<"E", "H", "B", "L", "X">>,
     succ |-> [E |-> <<"H">>, H |-> <<"B", "X">>, B |-> <<"L">>, L |-> <<"H">>, X |-> <<>>]]

(* A function over an analysed graph, from its blocks' contents, the     *)
(* slots' opcodes and operands and those of the other instructions.      *)
Function(a, placed, ops, uses, phi, incoming) ==
    LET insts == UNION {ToSet(placed[b]) : b \in DOMAIN placed}
    IN  [entry |-> a.entry, layout |-> a.layout, succ |-> a.succ, dom |-> a.dom,
         headers |-> a.headers, loop |-> a.loop, paths |-> a.paths,
         args |-> {"a"},
         body |-> placed,
         op   |-> [i \in insts |-> IF i \in Slots THEN ops[i]
                                   ELSE IF i = "p" THEN "phi"
                                   ELSE IF i = "c" THEN "call" ELSE "br"],
         use  |-> [i \in insts |-> IF i \in Slots THEN <<uses[i]>>
                                   ELSE IF i = "p" THEN phi
                                   ELSE IF i = "c" THEN <<"a">> ELSE <<>>],
         from |-> [i \in insts |-> IF i = "p" THEN incoming ELSE <<>>]]

Uses(own) == [Slots -> {"a", "p"} \cup own]

Ops ==
    {[x1 |-> o[1], x2 |-> o[2], x3 |-> o[3]] :
        o \in {<<"load", "add", "add">>, <<"add", "add", "add">>,
               <<"add", "sdiv", "add">>, <<"add", "add", "sdiv">>}}

DiamondGraph == WithAnalyses(Diamond)

(* x1 in the entry or in the hot arm, x2 and x3 in the merge, where the  *)
(* PHI is; a call separates x2 from x3.                                  *)
DiamondBodies ==
    {[E |-> <<"x1", "tE">>, T |-> <<"tT">>, F |-> <<"tF">>,
      M |-> <<"p", "x2", "c", "x3", "tM">>],
     [E |-> <<"tE">>, T |-> <<"x1", "tT">>, F |-> <<"tF">>,
      M |-> <<"p", "x2", "x3", "c", "tM">>]}

DiamondFunctions ==
    {f \in {Function(DiamondGraph, b, ops, uses, <<"x1", "a">>, <<"T", "F">>) :
              b \in DiamondBodies, ops \in Ops, uses \in Uses({"x1", "x2"})} :
        SSAValid(f, f.body)}

LoopGraph == WithAnalyses(Loop)

(* The PHI in the header, x1 in the header or in the body, x2 and x3 in  *)
(* the latch, before and after a call.                                   *)
LoopBodies ==
    {[E |-> <<"tE">>, H |-> <<"p", "x1", "tH">>, B |-> <<"tB">>,
      L |-> <<"x2", "c", "x3", "tL">>, X |-> <<"tX">>],
     [E |-> <<"tE">>, H |-> <<"p", "tH">>, B |-> <<"x1", "tB">>,
      L |-> <<"x2", "x3", "tL">>, X |-> <<"c", "tX">>]}

LoopFunctions ==
    {f \in {Function(LoopGraph, b, ops, uses, <<"a", "x3">>, <<"E", "L">>) :
              b \in LoopBodies, ops \in Ops, uses \in Uses({"x1", "x2"})} :
        SSAValid(f, f.body)}

(* Every order of the movable nodes that respects the graph.             *)
LinearExtensions(f, t) ==
    LET movable == {n \in ToSet(TraceNodes(f, t)) : ~IsTerminator(f, n)}
        succ == TraceSuccessors(f, t)
        edge == {<<n, m>> \in movable \X movable : m \in ToSet(succ[n])}
    IN  {s \in SetToSeqs(movable) :
            \A j, k \in DOMAIN s : <<s[j], s[k]>> \in edge => j < k}

CallsOf(f, t) ==
    LET in == LiveIn(f)
        out == LiveOut(f)
    IN  {[fn |-> f, trace |-> t, schedule |-> s, liveIn |-> in, liveOut |-> out] :
            s \in LinearExtensions(f, t)}

DiamondCalls == UNION {CallsOf(f, <<"E", "T", "M">>) : f \in DiamondFunctions}

LoopCalls == UNION {CallsOf(f, <<"E", "H", "B", "L">>) : f \in LoopFunctions}

SmallCalls == DiamondCalls \cup LoopCalls
=============================================================================
