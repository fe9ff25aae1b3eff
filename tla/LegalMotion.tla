--------------------------- MODULE LegalMotion ---------------------------
(*************************************************************************)
(* When moving the instructions of a program is legal: no instruction is *)
(* lost or duplicated, observable ones keep their order, operands are    *)
(* computed before they are used on every path, and what cannot be       *)
(* executed speculatively stays where it is executed.                    *)
(*************************************************************************)
EXTENDS IR

(* Every instruction is in the program exactly once.                     *)
IsPlacement(f, b) ==
    /\ b \in [Blocks(f) -> Seq(Instructions(f))]
    /\ \A x \in Blocks(f) : IsInjective(b[x])
    /\ \A i \in Instructions(f) : \E x \in Blocks(f) :
          \A y \in Blocks(f) : i \in ToSet(b[y]) <=> y = x

(* The observable instructions of a block with their order: the pairs of *)
(* an earlier one, or itself, and a later one.                           *)
Anchors(f, s) ==
    LET observable == {i \in ToSet(s) : isSchedulingAnchor(f, i)}
    IN  {ij \in observable \X observable :
            \E p, q \in DOMAIN s : p <= q /\ ij = <<s[p], s[q]>>}

(* The region of instruction i: its block and the anchors that come      *)
(* before it there.                                                      *)
Segment(f, b, i) ==
    LET s == b[BlockOf(b, i)]
    IN  <<BlockOf(b, i),
          {s[p] : p \in {q \in DOMAIN s : q < PosOf(b, i) /\ isSchedulingAnchor(f, s[q])}}>>

(* On every path from the entry, each instruction finds its operands     *)
(* already computed; a PHI finds the operand of the edge it is entered   *)
(* by.  (f.paths holds every path of at most as many blocks as there are:*)
(* every path without a repeated block and its prefixes among them, and  *)
(* the first visit of a block is the one that can go wrong.)             *)
OperandsComputed(f, b) ==
    \A path \in f.paths : \A i \in ToSet(b[Last(path)]) : \A k \in DOMAIN f.use[i] :
        LET v == f.use[i][k]
            passed == ToSet(Front(path))
        IN  v \in Instructions(f) =>
              IF IsPHI(f, i)
              THEN Len(path) > 1 /\ f.from[i][k] = path[Len(path) - 1]
                       => BlockOf(b, v) \in passed
              ELSE \/ BlockOf(b, v) \in passed
                   \/ BlockOf(b, v) = Last(path) /\ PosOf(b, v) < PosOf(b, i)

(* An instruction that cannot be executed speculatively stays between    *)
(* the same anchors; any other may move to a block that every path to it *)
(* goes through, in the same loop and thus no more often executed.       *)
MayMove(f, b, c, i) ==
    \/ Segment(f, c, i) = Segment(f, b, i)
    \/ /\ SafeToSpeculate(f, i)
       /\ BlockOf(c, i) \in f.dom[BlockOf(b, i)]
       /\ f.loop[BlockOf(c, i)] = f.loop[BlockOf(b, i)]

IsLegalMotion(f, b, c) ==
    /\ IsPlacement(f, c)
    /\ \A x \in Blocks(f) : Anchors(f, c[x]) = Anchors(f, b[x])
    /\ \A i \in Instructions(f) : MayMove(f, b, c, i)
    /\ OperandsComputed(f, c)

(* Each block ends with its terminator and has no other.                 *)
TerminatorsLast(f, b) ==
    \A x \in Blocks(f) :
        /\ b[x] /= <<>>
        /\ \A p \in DOMAIN b[x] : IsTerminator(f, b[x][p]) <=> p = Len(b[x])

(* What LLVM's verifier ensures of a function before it is scheduled - it*)
(* is well-formed SSA over finitely many values - with its DominatorTree.*)
IsFunction(f) ==
    /\ {"entry", "layout", "succ", "dom", "paths", "op", "use", "body"} \subseteq DOMAIN f
    /\ f.layout \in Seq(Blocks(f)) /\ f.entry \in Blocks(f)
    /\ \A x \in Blocks(f) : f.succ[x] \in Seq(Blocks(f))
    /\ f.dom = [x \in Blocks(f) |-> {a \in Blocks(f) : Dominates(f, a, x)}]
    /\ f.paths = Paths(f, f.entry, Len(f.layout))
    /\ IsFiniteSet(Universe(f))
    /\ f.use \in [Instructions(f) -> Seq(Universe(f))]
    /\ IsPlacement(f, f.body)
    /\ TerminatorsLast(f, f.body)
    /\ OperandsComputed(f, f.body)
    /\ \A i \in Instructions(f) : \A v \in Operands(f, i) \cap Instructions(f) :
          ~IsVoid(f, v) /\ (v = i => IsPHI(f, i))
=========================================================================
