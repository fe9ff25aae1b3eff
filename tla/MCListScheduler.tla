------------------------- MODULE MCListScheduler -------------------------
(*************************************************************************)
(* The graphs of small traces.  Three slots, each filled with any opcode *)
(* and any operands among the argument and the earlier results, in a     *)
(* trace of one block or of two (the second begins at the last slot);    *)
(* the last block also stores or uses a value, so that something is live.*)
(* A third trace is the block of a loop, whose PHI the slots may use.    *)
(*************************************************************************)
EXTENDS ListScheduler, LegalMotion, DDG

Slots == <<"x1", "x2", "x3">>

Earlier(k) == {"a"} \cup {Slots[j] : j \in 1..(k-1)}

(* What a slot may hold: <<opcode, operands>>.                           *)
SlotChoices(k) ==
    {<<"add", <<v, w>>>> : v \in Earlier(k), w \in Earlier(k)}
    \cup {<<"load", <<v>>>> : v \in Earlier(k)}
    \cup {<<"mul", <<v>>>> : v \in Earlier(k)}

OneBlock ==
    WithAnalyses([entry |-> "A", layout |-> <<"A">>, succ |-> [A |-> <<>>]])

TwoBlocks ==
    WithAnalyses([entry |-> "A", layout |-> <<"A", "B">>, succ |-> [A |-> <<"B">>, B |-> <<>>]])

Function(cfg, body, slot, stored) ==
    LET insts == UNION {ToSet(body[b]) : b \in DOMAIN body}
    IN  [entry  |-> cfg.entry,
         layout |-> cfg.layout,
         succ   |-> cfg.succ,
         dom    |-> cfg.dom,
         loop   |-> cfg.loop,
         paths  |-> cfg.paths,
         args   |-> {"a"},
         body   |-> body,
         op     |-> Restrict([x1 |-> slot[1][1], x2 |-> slot[2][1], x3 |-> slot[3][1],
                              st |-> "store", tA |-> "br", tB |-> "br"], insts),
         use    |-> Restrict([x1 |-> slot[1][2], x2 |-> slot[2][2], x3 |-> slot[3][2],
                              st |-> <<stored>>, tA |-> <<>>, tB |-> <<"x2">>], insts),
         from   |-> [i \in insts |-> <<>>]]

Fillings == SlotChoices(1) \X SlotChoices(2) \X SlotChoices(3)

OneBlockFunction(slot) ==
    Function(OneBlock, [A |-> <<"x1", "x2", "x3", "st", "tB">>], slot, "x1")

TwoBlockFunction(slot) ==
    Function(TwoBlocks, [A |-> <<"x1", "x2", "tA">>, B |-> <<"x3", "st", "tB">>], slot, "x1")

Loop ==
    WithAnalyses([entry |-> "E", layout |-> <<"E", "L">>, succ |-> [E |-> <<"L">>, L |-> <<"L">>]])

LoopFunction(first, second, around) ==
    [entry  |-> Loop.entry,
     layout |-> Loop.layout,
     succ   |-> Loop.succ,
     dom    |-> Loop.dom,
     loop   |-> Loop.loop,
     paths  |-> Loop.paths,
     args   |-> {"a"},
     body   |-> [E |-> <<"tA">>, L |-> <<"p", "x1", "x2", "st", "tB">>],
     op     |-> [p |-> "phi", x1 |-> first, x2 |-> second, st |-> "store",
                 tA |-> "br", tB |-> "br"],
     use    |-> [p |-> <<"a", around>>, x1 |-> <<"p", "a">>, x2 |-> <<"x1", "p">>,
                 st |-> <<"p">>, tA |-> <<>>, tB |-> <<"x2">>],
     from   |-> [p |-> <<"E", "L">>, x1 |-> <<>>, x2 |-> <<>>, st |-> <<>>,
                 tA |-> <<>>, tB |-> <<>>]]

LoopFillings == {"add", "load"} \X {"add", "mul", "load"} \X {"x1", "x2"}

OneBlockDDGs == {TraceDDG(OneBlockFunction(slot), <<"A">>) : slot \in Fillings}

TwoBlockDDGs == {TraceDDG(TwoBlockFunction(slot), <<"A", "B">>) : slot \in Fillings}

LoopDDGs == {TraceDDG(LoopFunction(l[1], l[2], l[3]), <<"L">>) : l \in LoopFillings}

TraceDDGs == OneBlockDDGs \cup TwoBlockDDGs \cup LoopDDGs

(* The hypothesis of what is proved about the graphs of traces.          *)
IsTraceOf(f, trace) == IsFunction(f) /\ IsForward(f, trace)

ASSUME TraceDDGAssumption ==
    /\ \A slot \in Fillings : /\ IsTraceOf(OneBlockFunction(slot), <<"A">>)
                              /\ IsTraceOf(TwoBlockFunction(slot), <<"A", "B">>)
    /\ \A l \in LoopFillings : IsTraceOf(LoopFunction(l[1], l[2], l[3]), <<"L">>)

Values == {"a", "p", "x1", "x2", "x3"}
=============================================================================
