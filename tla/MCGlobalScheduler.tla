------------------------ MODULE MCGlobalScheduler ------------------------
(*************************************************************************)
(* Two graphs of five blocks with their profiles, for a threshold of 60%:*)
(* a line of blocks with side exits to X (E to T 70%, T to M 60%: two    *)
(* traces), and a loop (H to B 60%: three traces, or 70%: two).  Slots x1*)
(* to x4 take any opcode of their Ops and any operand that is available; *)
(* a call separates x3 from x4.                                          *)
(*************************************************************************)
EXTENDS GlobalScheduler

Line ==
    [entry |-> "E", layout |-> <<"E", "T", "M", "N", "X">>,
     succ |-> [E |-> <<"T", "X">>, T |-> <<"M", "X">>, M |-> <<"N">>,
               N |-> <<"X">>, X |-> <<>>]]

LineGraph == WithAnalyses(Line)

LineProfile ==
    [prob |-> [E |-> [T |-> 70, X |-> 30], T |-> [M |-> 60, X |-> 40], M |-> [N |-> 100],
               N |-> [X |-> 100], X |-> <<>>],
     freq |-> [E |-> 9, T |-> 6, M |-> 4, N |-> 4, X |-> 9]]

LineBodies ==
    {[E |-> <<"v", "tE">>, T |-> <<"x1", "tT">>, M |-> <<"x2", "tM">>,
      N |-> <<"x3", "c", "x4", "tN">>, X |-> <<"tX">>],
     [E |-> <<"tE">>, T |-> <<"v", "x1", "tT">>, M |-> <<"c", "x2", "tM">>,
      N |-> <<"x3", "x4", "tN">>, X |-> <<"tX">>]}

Loop ==
    [entry |-> "E", layout |-> <<"E", "H", "B", "L", "X">>,
     succ |-> [E |-> <<"H">>, H |-> <<"B", "X">>, B |-> <<"L">>, L |-> <<"H">>, X |-> <<>>]]

LoopGraph == WithAnalyses(Loop)

LoopProfile(around) ==
    [prob |-> [E |-> [H |-> 100], H |-> [B |-> around, X |-> 100 - around], B |-> [L |-> 100],
               L |-> [H |-> 100], X |-> <<>>],
     freq |-> [E |-> 4, H |-> 9, B |-> 6, L |-> 6, X |-> 4]]

LoopBodies ==
    {[E |-> <<"v", "tE">>, H |-> <<"p", "x1", "tH">>, B |-> <<"x2", "tB">>,
      L |-> <<"x3", "c", "x4", "tL">>, X |-> <<"tX">>]}

Function(g, profile, placed, op, use) ==
    LET insts == UNION {ToSet(placed[b]) : b \in DOMAIN placed}
    IN  [entry |-> g.entry, layout |-> g.layout, succ |-> g.succ, dom |-> g.dom,
         headers |-> g.headers, loop |-> g.loop, paths |-> g.paths,
         prob |-> profile.prob, freq |-> profile.freq,
         args |-> {"a"},
         body |-> placed,
         op   |-> [i \in insts |-> CASE i \in DOMAIN op -> op[i]
                                     [] i = "p" -> "phi"
                                     [] i = "v" -> "add"
                                     [] i = "c" -> "call"
                                     [] OTHER -> "br"],
         use  |-> [i \in insts |-> CASE i \in DOMAIN use -> <<use[i]>>
                                     [] i = "p" -> <<"v", "x4">>
                                     [] i \in {"v", "c"} -> <<"a">>
                                     [] OTHER -> <<>>],
         from |-> [i \in insts |-> IF i = "p" THEN <<"E", "L">> ELSE <<>>]]

Ops(o1, o2, o3, o4) ==
    {[x1 |-> p1, x2 |-> p2, x3 |-> p3, x4 |-> p4] : p1 \in o1, p2 \in o2, p3 \in o3, p4 \in o4}

Uses(own) == [{"x1", "x2", "x3", "x4"} -> own]

Valid(functions) == {f \in functions : SSAValid(f, f.body)}

LineFunctions ==
    Valid({Function(LineGraph, LineProfile, b, op, use) :
             b \in LineBodies, use \in Uses({"v", "x1", "x2", "x3"}),
             op \in Ops({"load", "mul"}, {"add", "sdiv"}, {"add", "sdiv"}, {"add"})})

LoopFunctions ==
    Valid({Function(LoopGraph, LoopProfile(around), b, op, use) :
             around \in {60, 70}, b \in LoopBodies, use \in Uses({"p", "x1", "x2", "x3"}),
             op \in Ops({"add"}, {"add", "load"}, {"add"}, {"add", "sdiv"})})

SmallFunctions == LineFunctions \cup LoopFunctions
=============================================================================
