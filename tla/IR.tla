------------------------------- MODULE IR -------------------------------
(*************************************************************************)
(* Functions in SSA form, as far as the scheduler looks at them.  A      *)
(* function extends the record of CFG with                               *)
(*     args : set of argument values                                     *)
(*     body : [block -> sequence of instructions], the initial program   *)
(*     op   : [instruction -> opcode]                                    *)
(*     use  : [instruction -> sequence of operand values] (constants and *)
(*            block operands carry no dependence and are left out)       *)
(*     from : [instruction -> sequence of blocks], the incoming block of *)
(*            each operand of a PHI, <<>> for other instructions         *)
(* An instruction and the value it produces have the same name.          *)
(* An opcode stands for its class: "add" for every pure instruction of   *)
(* one cycle, "sdiv" for a division that may trap, "call" for a call     *)
(* that produces a value.                                                *)
(*************************************************************************)
EXTENDS CFG

Opcode == {"phi", "br", "alloca", "load", "store", "call", "add", "mul", "sdiv"}

Instructions(fn) == DOMAIN fn.op

IsPHI(fn, i) == fn.op[i] = "phi"
IsTerminator(fn, i) == fn.op[i] = "br"
IsVoid(fn, i) == fn.op[i] \in {"br", "store"}

(* Args and non-void instructions: what the liveness bit vectors index.  *)
Universe(fn) == fn.args \cup {i \in Instructions(fn) : ~IsVoid(fn, i)}

(* CallBase, or touches memory, or has side effects: the instructions    *)
(* whose order the DDG preserves.                                        *)
IsOrderedOp(fn, i) == fn.op[i] \in {"load", "store", "call"}

(* A fixed scheduling boundary.  The class of "alloca" stands for every  *)
(* anchor that has a value and touches no memory: EH pads and values of  *)
(* token type that are no calls are in it.                               *)
isSchedulingAnchor(fn, i) ==
    IsPHI(fn, i) \/ IsTerminator(fn, i) \/ fn.op[i] = "alloca" \/ IsOrderedOp(fn, i)

(* ValueTracking's isSafeToSpeculativelyExecute: executing the           *)
(* instruction on a path that did not execute it before cannot trap.     *)
SafeToSpeculate(fn, i) == ~isSchedulingAnchor(fn, i) /\ fn.op[i] /= "sdiv"

(* Latency in cycles.                                                    *)
getDelay(fn, i) ==
    CASE fn.op[i] = "load" -> 3
      [] fn.op[i] = "call" -> 5
      [] fn.op[i] = "mul"  -> 2
      [] fn.op[i] = "sdiv" -> 10
      [] OTHER             -> 1

Operands(fn, i) == ToSet(fn.use[i])

(* The elements of s that are members, in their order.                   *)
Among(s, members) ==
    LET taken[k \in 0..Len(s)] ==
            IF k = 0
            THEN <<>>
            ELSE LET before == taken[k-1]
                 IN  IF s[k] \in members THEN Append(before, s[k]) ELSE before
    IN  taken[Len(s)]

(*************************************************************************)
(* A program is a placement of the instructions: [block -> sequence].    *)
(*************************************************************************)
BlockOf(body, i) == CHOOSE b \in DOMAIN body : i \in ToSet(body[b])

PosOf(body, i) ==
    LET b == BlockOf(body, i) IN CHOOSE p \in 1..Len(body[b]) : body[b][p] = i

Terminator(body, b) == Last(body[b])

(* DT.dominates(def, Terminator(b)): def has been computed when control  *)
(* reaches the end of b.                                                 *)
DominatesEndOf(fn, body, def, b) == BlockOf(body, def) \in fn.dom[b]

(* Every operand is computed before it is used, in dominance terms.      *)
SSAValid(fn, body) ==
    \A i \in Instructions(fn) : \A k \in 1..Len(fn.use[i]) :
        LET v == fn.use[i][k]
        IN  v \in Instructions(fn) =>
              IF IsPHI(fn, i)
              THEN DominatesEndOf(fn, body, v, fn.from[i][k])
              ELSE IF BlockOf(body, v) = BlockOf(body, i)
                   THEN PosOf(body, v) < PosOf(body, i)
                   ELSE BlockOf(body, v) \in fn.dom[BlockOf(body, i)]

(*************************************************************************)
(* The liveness sets of liveness.hpp.  PHI operands count as uses in the *)
(* PHI's own block.                                                      *)
(*************************************************************************)
DefSet(fn, b) == {i \in ToSet(fn.body[b]) : i \in Universe(fn)}

UseSet(fn, b) ==
    {v \in Universe(fn) :
        \E p \in 1..Len(fn.body[b]) :
            /\ v \in Operands(fn, fn.body[b][p])
            /\ \A q \in 1..(p-1) : fn.body[b][q] /= v}

(* The values live at the start of each block: the least solution of     *)
(* IN = use \cup (OUT \ def), OUT = union of the successors' IN.         *)
LiveIn(fn) ==
    LET B == Blocks(fn)
        used == {bv \in B \X Universe(fn) : bv[2] \in UseSet(fn, bv[1])}
        through == {bv \in B \X Universe(fn) : bv[2] \notin DefSet(fn, bv[1])}
        in[k \in 0..Len(fn.layout)] ==
            IF k = 0
            THEN used
            ELSE LET prev == in[k-1]
                 IN  prev \cup {bv \in through :
                                  \E s \in Succs(fn, bv[1]) : <<s, bv[2]>> \in prev}
        pairs == in[Len(fn.layout)]
    IN  [b \in B |-> {v \in Universe(fn) : <<b, v>> \in pairs}]

LiveOut(fn) ==
    LET in == LiveIn(fn)
    IN  [b \in Blocks(fn) |-> UNION {in[s] : s \in Succs(fn, b)}]
=========================================================================
