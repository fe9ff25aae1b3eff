----------------------------- MODULE MCAnalyses -----------------------------
(*************************************************************************)
(* A loop H, B behind an entry E with an exit X, left from H, from B or  *)
(* from both, the body B alone or a loop of its own, in every layout that*)
(* starts with the entry; a PHI in the header and one instruction per    *)
(* block with any available operand.  Then the graphs of four blocks, up *)
(* to renaming, with at most two successors and a value for each block:  *)
(* irreducible loops, unreachable blocks, values without a name.         *)
(*************************************************************************)
EXTENDS Analyses

Placed == [E |-> <<"v", "tE">>, H |-> <<"p", "w", "tH">>, B |-> <<"x", "tB">>,
           X |-> <<"y", "tX">>]

Graph(perm, ends) ==
    [entry  |-> "E",
     layout |-> <<"E">> \o perm,
     succ   |-> [E |-> <<"H">>, H |-> ends[1], B |-> ends[2], X |-> <<>>]]

(* The successors of H and of B.                                         *)
Ends == ({<<"B", "X">>} \X {<<"H">>, <<"B", "H">>, <<"X", "H">>})
        \cup {<< <<"B">>, <<"X", "H">> >>}

Graphs ==
    {WithAnalyses(Graph(perm, ends)) : perm \in SetToSeqs({"H", "B", "X"}), ends \in Ends}

Function(g, w, x, y, around) ==
    LET insts == UNION {ToSet(Placed[b]) : b \in DOMAIN Placed}
    IN  [entry |-> g.entry, layout |-> g.layout, succ |-> g.succ, dom |-> g.dom,
         args |-> {"a"},
         body |-> Placed,
         op   |-> [i \in insts |-> IF i \in {"v", "w", "x"} THEN "add"
                                   ELSE IF i = "p" THEN "phi"
                                   ELSE IF i = "y" THEN "store" ELSE "br"],
         use  |-> [i \in insts |-> CASE i = "v" -> <<"a">>
                                     [] i = "p" -> <<"v", around>>
                                     [] i = "w" -> <<w>>
                                     [] i = "x" -> <<x>>
                                     [] i = "y" -> <<y>>
                                     [] OTHER -> <<>>],
         from |-> [i \in insts |-> IF i = "p" THEN <<"E", "B">> ELSE <<>>],
         name |-> [i \in insts |-> IF i \in {"v", "x"} THEN i ELSE NoName]]

SmallFunctions ==
    {f \in {Function(g, w, x, y, around) :
              g \in Graphs, w \in {"v", "p"}, x \in {"a", "p", "w"},
              y \in {"v", "p", "w"}, around \in {"x", "w"}} :
        SSAValid(f, f.body)}

(* The graphs: each block but the entry ends with a branch to at most two*)
(* others; every value is computed from that of the entry.               *)
Targets == {<<>>} \cup {<<b>> : b \in {"A", "B", "C"}} \cup {<<"A", "B">>, <<"B", "C">>, <<"C", "A">>}

Values == [E |-> <<"v", "tE">>, A |-> <<"w", "tA">>, B |-> <<"x", "tB">>, C |-> <<"y", "tC">>]

GraphFunctions ==
    LET insts == UNION {ToSet(Values[b]) : b \in DOMAIN Values}
        value == {"v", "w", "x", "y"}
    IN  {[entry |-> "E", layout |-> <<"E", "A", "B", "C">>,
          succ |-> [E |-> e, A |-> a, B |-> b, C |-> c],
          args |-> {},
          body |-> Values,
          op   |-> [i \in insts |-> IF i \in value THEN "add" ELSE "br"],
          use  |-> [i \in insts |-> IF i \in value \ {"v"} THEN <<"v">> ELSE <<>>],
          from |-> [i \in insts |-> <<>>],
          name |-> [i \in insts |-> IF i = "w" THEN i ELSE NoName]] :
            e \in {<<"A">>, <<"A", "B">>}, a \in Targets, b \in Targets, c \in Targets}

AllFunctions == SmallFunctions \cup GraphFunctions

(* The hypothesis under which the proofs speak of them.                  *)
ASSUME SSAAssumption == \A f \in AllFunctions : StrictSSA(f)
=============================================================================
