----------------------- MODULE ApplySchedule_proof -----------------------
(*************************************************************************)
(* Proofs about applySchedule, for every call the pass can make of it:   *)
(* on any function, along any trace, with any schedule that lists no     *)
(* instruction before its operands, with and without a budget.           *)
(*************************************************************************)
EXTENDS ApplySchedule, IR_proof

(* The reasons by name.                                                  *)
LEMMA ReasonNames ==
    /\ DOMAIN Reasons = 1..5
    /\ ToSet(Reasons) = {"loop", "dominance", "operand", "unsafe", "pressure"}
    /\ Counters = {"loop", "dominance", "operand", "unsafe", "pressure", "candidates", "done"}
<1>1. DOMAIN Reasons = 1..5
  BY DEF Reasons
<1>2. \A k \in 1..5 : k = 1 \/ k = 2 \/ k = 3 \/ k = 4 \/ k = 5
  OBVIOUS
<1>3. ToSet(Reasons) = {Reasons[1], Reasons[2], Reasons[3], Reasons[4], Reasons[5]}
  BY <1>1, <1>2 DEF ToSet
<1>4. /\ Reasons[1] = "loop" /\ Reasons[2] = "dominance" /\ Reasons[3] = "operand"
      /\ Reasons[4] = "unsafe" /\ Reasons[5] = "pressure"
  BY DEF Reasons
<1>5. ToSet(Reasons) = {"loop", "dominance", "operand", "unsafe", "pressure"}
  BY <1>3, <1>4
<1> QED BY <1>1, <1>5 DEF Counters

(* What a call is given: blocks and instructions, no instruction listed  *)
(* before an operand, each with its place in the trace.                  *)
LEMMA CallFacts ==
    ASSUME IsCall(call)
    PROVE  /\ IsFunction(fn) /\ IsPlacement(fn, fn.body)
           /\ schedule \in Seq(Instructions(fn)) /\ IsInjective(schedule)
           /\ Len(schedule) \in Nat /\ DOMAIN schedule = 1..Len(schedule)
           /\ AfterOperands(fn, schedule)
           /\ Len(trace) \in Nat /\ \A t \in 1..Len(trace) : trace[t] \in Blocks(fn)
           /\ \A j, k \in 1..Len(schedule) : schedule[j] = schedule[k] => j = k
<1>1. /\ IsFunction(fn) /\ schedule \in Seq(Instructions(fn)) /\ IsInjective(schedule)
      /\ trace \in Seq(Blocks(fn)) /\ AfterOperands(fn, schedule)
  BY DEF IsCall, fn, schedule, trace, AfterOperands
<1>2. IsPlacement(fn, fn.body)
  BY <1>1 DEF IsFunction
<1>3. Len(schedule) \in Nat /\ DOMAIN schedule = 1..Len(schedule)
  BY <1>1
<1>4. Len(trace) \in Nat /\ \A t \in 1..Len(trace) : trace[t] \in Blocks(fn)
  BY <1>1
<1>5. \A j, k \in 1..Len(schedule) : schedule[j] = schedule[k] => j = k
  BY <1>1, <1>3 DEF IsInjective
<1> QED BY <1>1, <1>2, <1>3, <1>4, <1>5

(* A place in the trace and the block there name each other, and what is *)
(* scheduled was in a block of the trace.                                *)
LEMMA TracePlaces ==
    ASSUME IsCall(call)
    PROVE  /\ \A t \in 1..Len(trace) : tracePos(trace[t]) = t /\ trace[t] \in ToSet(trace)
           /\ \A b \in ToSet(trace) : tracePos(b) \in 1..Len(trace) /\ trace[tracePos(b)] = b
           /\ \A j \in 1..Len(schedule) :
                /\ originalBlock(schedule[j]) \in ToSet(trace)
                /\ OrigIdx(schedule[j]) \in 1..Len(trace)
                /\ trace[OrigIdx(schedule[j])] = originalBlock(schedule[j])
<1>1. /\ trace \in Seq(Blocks(fn)) /\ IsInjective(trace)
      /\ \A i \in ToSet(schedule) : BlockOf(fn.body, i) \in ToSet(trace)
  BY DEF IsCall, fn, schedule, trace
<1>2. DOMAIN trace = 1..Len(trace)
  BY <1>1
<1>3. ASSUME NEW t \in 1..Len(trace)
      PROVE  tracePos(trace[t]) = t /\ trace[t] \in ToSet(trace)
  <2>1. trace[t] \in ToSet(trace)
    BY <1>2 DEF ToSet
  <2>2. \A u \in DOMAIN trace : trace[u] = trace[t] => u = t
    BY <1>1, <1>2 DEF IsInjective
  <2> QED BY <1>2, <2>1, <2>2 DEF tracePos
<1>4. ASSUME NEW b \in ToSet(trace)
      PROVE  tracePos(b) \in 1..Len(trace) /\ trace[tracePos(b)] = b
  <2>1. \E t \in DOMAIN trace : trace[t] = b
    BY DEF ToSet
  <2> QED BY <1>2, <2>1 DEF tracePos
<1>5. ASSUME NEW j \in 1..Len(schedule)
      PROVE  originalBlock(schedule[j]) \in ToSet(trace)
  <2>1. schedule[j] \in ToSet(schedule)
    BY CallFacts DEF ToSet
  <2> QED BY <1>1, <2>1 DEF originalBlock
<1> QED BY <1>3, <1>4, <1>5 DEF OrigIdx

-----------------------------------------------------------------------------
(* No motion is a legal motion.                                          *)
LEMMA InitIsMotion == Init => MotionInv
<1> SUFFICES ASSUME Init PROVE MotionInv
  OBVIOUS
<1>1. IsCall(call)
  BY CallsAssumption DEF Init
<1>2. IsFunction(fn) /\ IsPlacement(fn, fn.body) /\ Len(schedule) \in Nat
  BY <1>1, CallFacts
<1>3. body = fn.body /\ pc = "reorder" /\ next = 1
  BY DEF Init
<1>4. IsLegalMotion(fn, fn.body, body) /\ TerminatorsLast(fn, body)
  BY <1>2, <1>3 DEF IsLegalMotion, MayMove, IsFunction
<1>5. MovedInTurn
  BY <1>3 DEF MovedInTurn, originalBlock
<1> QED BY <1>1, <1>3, <1>4, <1>5 DEF MotionInv

(* An instruction whose turn it is is where it was.                      *)
LEMMA TurnIsAtHome ==
    ASSUME MotionInv, NEW k \in 1..Len(schedule), k >= next \/ pc = "reorder"
    PROVE  schedule[k] \in Instructions(fn) /\ BlockOf(body, schedule[k]) = originalBlock(schedule[k])
<1>1. IsCall(call)
  BY DEF MotionInv
<1>2. schedule[k] \in Instructions(fn) /\ originalBlock(schedule[k]) \in ToSet(trace)
  BY <1>1, CallFacts, TracePlaces
<1>3. ASSUME BlockOf(body, schedule[k]) /= originalBlock(schedule[k]) PROVE FALSE
  <2>1. pc /= "reorder" /\ \E j \in 1..(next-1) : schedule[j] = schedule[k]
    BY <1>2, <1>3 DEF MotionInv, MovedInTurn
  <2>2. pc /= "reorder" => next \in Nat /\ next <= Len(schedule) + 1
    BY DEF MotionInv
  <2>3. PICK j \in 1..(next-1) : schedule[j] = schedule[k]
    BY <2>1
  <2>4. j \in 1..Len(schedule) /\ j /= k
    BY <1>1, <2>1, <2>2, <2>3, CallFacts
  <2> QED BY <1>1, <2>3, <2>4, CallFacts
<1> QED BY <1>2, <1>3

(* Reordering a block is legal motion and leaves everything in its block.*)
LEMMA ReorderMoves ==
    ASSUME MotionInv, ReorderBlock
    PROVE  /\ Reordered(fn, body, body') /\ TerminatorsLast(fn, body')
           /\ IsLegalMotion(fn, body, body') /\ IsLegalMotion(fn, fn.body, body')
<1> DEFINE x == trace[next]
<1>1. IsCall(call) /\ IsLegalMotion(fn, fn.body, body) /\ TerminatorsLast(fn, body)
  BY DEF MotionInv
<1>2. IsPlacement(fn, body) /\ OperandsComputed(fn, body)
  BY <1>1 DEF IsLegalMotion
<1>3. next \in 1..Len(trace)
  BY <1>1, CallFacts DEF MotionInv, ReorderBlock
<1>4. x \in Blocks(fn)
  BY <1>1, <1>3, CallFacts
<1>5. body' = WithBlockReordered(fn, body, x, schedule)
  BY DEF ReorderBlock, WithBlockReordered
<1>6. IsFunction(fn) /\ schedule \in Seq(Instructions(fn)) /\ IsInjective(schedule)
      /\ AfterOperands(fn, schedule)
  BY <1>1, CallFacts
<1> HIDE DEF x
<1>7. Reordered(fn, body, body') /\ TerminatorsLast(fn, body')
  BY <1>1, <1>2, <1>4, <1>5, <1>6, ReorderIsReordered
<1>8. /\ IsLegalMotion(fn, body, body')
      /\ \A i \in Instructions(fn) : Segment(fn, body', i) = Segment(fn, body, i)
  BY <1>2, <1>6, <1>7, ReorderIsMotion
<1>9. IsLegalMotion(fn, fn.body, body')
  BY <1>1, <1>8, MotionsCompose
<1> QED BY <1>7, <1>8, <1>9

(* So is a hoist: the checks of the code are the conditions under which  *)
(* it may leave its block.                                               *)
LEMMA HoistMoves ==
    ASSUME MotionInv, pc = "hoist", next <= Len(schedule),
           ~isSchedulingAnchor(fn, schedule[next]),
           NEW t \in 1..(OrigIdx(schedule[next]) - 1), Legal(schedule[next], t),
           body' = MoveToEnd(schedule[next], trace[t])
    PROVE  /\ Hoisted(fn, body, body', schedule[next], trace[t]) /\ TerminatorsLast(fn, body')
           /\ t \in 1..Len(trace) /\ trace[t] /= originalBlock(schedule[next])
           /\ IsLegalMotion(fn, body, body') /\ IsLegalMotion(fn, fn.body, body')
<1> DEFINE i == schedule[next]
           x == trace[t]
<1>1. IsCall(call) /\ IsLegalMotion(fn, fn.body, body) /\ TerminatorsLast(fn, body)
  BY DEF MotionInv
<1>2. IsPlacement(fn, body) /\ OperandsComputed(fn, body) /\ IsFunction(fn)
  BY <1>1, CallFacts DEF IsLegalMotion
<1>3. next \in 1..Len(schedule)
  BY <1>1, CallFacts DEF MotionInv
<1>4. i \in Instructions(fn) /\ BlockOf(body, i) = originalBlock(i)
  <2>1. next >= next
    BY <1>3
  <2> QED BY <1>3, <2>1, TurnIsAtHome
<1>5. OrigIdx(i) \in 1..Len(trace) /\ trace[OrigIdx(i)] = originalBlock(i)
  BY <1>1, <1>3, TracePlaces
<1>6. t \in 1..Len(trace) /\ t /= OrigIdx(i)
  BY <1>1, <1>5, CallFacts
<1>7. x \in Blocks(fn) /\ x /= originalBlock(i)
  <2>1. tracePos(x) = t /\ tracePos(trace[OrigIdx(i)]) = OrigIdx(i)
    BY <1>1, <1>5, <1>6, TracePlaces
  <2> QED BY <1>1, <1>5, <1>6, <2>1, CallFacts
<1>8. body' = WithHoisted(body, i, x)
  BY DEF MoveToEnd, WithHoisted
<1>9. Hoisted(fn, body, body', i, x) /\ TerminatorsLast(fn, body')
  <2> HIDE DEF i, x
  <2>1. ~isSchedulingAnchor(fn, i)
    BY DEF i
  <2> QED BY <1>1, <1>2, <1>4, <1>7, <1>8, <2>1, HoistIsHoisted
<1>10. /\ SafeToSpeculate(fn, i) /\ x \in fn.dom[originalBlock(i)]
       /\ fn.loop[originalBlock(i)] = fn.loop[x] /\ OperandsAvailable(i, x)
  <2>1. \A reason \in {"loop", "dominance", "operand", "unsafe", "pressure"} : ~Fails(i, x)[reason]
    BY ReasonNames DEF Legal
  <2>2. ~Fails(i, x).loop /\ ~Fails(i, x).dominance /\ ~Fails(i, x).operand /\ ~Fails(i, x).unsafe
    BY <2>1
  <2> HIDE DEF i, x
  <2> QED BY <2>2 DEF Fails, isSameLoopOrOuter
<1>11. \A v \in Operands(fn, i) \cap Instructions(fn) : BlockOf(body, v) \in fn.dom[x]
  BY <1>10 DEF OperandsAvailable, DominatesEndOf
<1> HIDE DEF i, x
<1>12. /\ IsLegalMotion(fn, body, body')
       /\ \A j \in Instructions(fn) \ {i} : Segment(fn, body', j) = Segment(fn, body, j)
  BY <1>2, <1>4, <1>9, <1>10, <1>11, HoistIsMotion
<1>13. \A j \in Instructions(fn) :
          Segment(fn, body', j) = Segment(fn, body, j) \/ BlockOf(body, j) = BlockOf(fn.body, j)
  BY <1>4, <1>12 DEF originalBlock
<1>14. IsLegalMotion(fn, fn.body, body')
  BY <1>1, <1>12, <1>13, MotionsCompose
<1> QED BY <1>6, <1>7, <1>9, <1>12, <1>14 DEF i, x

(* A call keeps its arguments.                                           *)
LEMMA ArgumentsKept ==
    ASSUME [Next]_vars
    PROVE  /\ call' = call /\ fn' = fn /\ trace' = trace /\ schedule' = schedule
           /\ usePressure' = usePressure
<1>1. call' = call /\ usePressure' = usePressure
  BY DEF Next, vars, ReorderBlock, StartHoisting, HoistInstruction, Return
<1> QED BY <1>1 DEF fn, trace, schedule

(* Every step is a legal motion, and so is the way from the start to it. *)
LEMMA StepMoves ==
    ASSUME MotionInv, [Next]_vars
    PROVE  /\ body' = body \/ IsLegalMotion(fn, body, body')
           /\ IsLegalMotion(fn, fn.body, body') /\ TerminatorsLast(fn, body')
<1>1. CASE body' = body
  BY <1>1 DEF MotionInv
<1>2. CASE ReorderBlock
  BY <1>2, ReorderMoves
<1>3. CASE HoistInstruction /\ body' /= body
  <2>1. pc = "hoist" /\ next <= Len(schedule) /\ Hoist(schedule[next])
    BY <1>3 DEF HoistInstruction, SkipAnchor, Stay
  <2>2. PICK t \in 1..(OrigIdx(schedule[next]) - 1) :
          Legal(schedule[next], t) /\ body' = MoveToEnd(schedule[next], trace[t])
    BY <2>1 DEF Hoist
  <2>3. ~isSchedulingAnchor(fn, schedule[next])
    BY <2>1 DEF Hoist
  <2> QED BY <2>1, <2>2, <2>3, HoistMoves
<1> QED BY <1>1, <1>2, <1>3 DEF Next, vars, StartHoisting, Return

(* The inductive step.                                                   *)
LEMMA MotionStep == MotionInv /\ [Next]_vars => MotionInv'
<1> SUFFICES ASSUME MotionInv, [Next]_vars PROVE MotionInv'
  OBVIOUS
<1>1. call' = call /\ fn' = fn /\ trace' = trace /\ schedule' = schedule
  BY ArgumentsKept
<1>2. IsCall(call) /\ IsCall(call')
  BY <1>1 DEF MotionInv
<1>3. /\ Len(schedule) \in Nat /\ next \in Nat \ {0} /\ pc \in {"reorder", "hoist", "done"}
      /\ pc /= "reorder" => next <= Len(schedule) + 1
      /\ pc = "done" => next = Len(schedule) + 1
  BY <1>2, CallFacts DEF MotionInv
<1>4. /\ next' \in Nat \ {0} /\ pc' \in {"reorder", "hoist", "done"}
      /\ pc' /= "reorder" => next' <= Len(schedule) + 1
      /\ pc' = "done" => next' = Len(schedule) + 1
  BY <1>3 DEF Next, vars, ReorderBlock, StartHoisting, HoistInstruction, Return
<1>5. IsLegalMotion(fn, fn.body, body') /\ TerminatorsLast(fn, body')
  BY StepMoves
<1>6. IsLegalMotion(fn', fn'.body, body') /\ TerminatorsLast(fn', body')
  BY <1>1, <1>5
<1>7. ASSUME NEW i \in Instructions(fn), originalBlock(i) \in ToSet(trace),
             BlockOf(body', i) /= originalBlock(i)
      PROVE  /\ pc' /= "reorder"
             /\ ~isSchedulingAnchor(fn, i)
             /\ BlockOf(body', i) \in ToSet(trace)
             /\ \E j \in 1..(next' - 1) : schedule[j] = i
  <2>1. CASE BlockOf(body, i) = BlockOf(body', i)
    <3>1. /\ pc /= "reorder" /\ ~isSchedulingAnchor(fn, i)
          /\ BlockOf(body, i) \in ToSet(trace)
          /\ \E j \in 1..(next-1) : schedule[j] = i
      BY <1>7, <2>1 DEF MotionInv, MovedInTurn
    <3>2. pc' /= "reorder" /\ next' \in Nat /\ next' >= next
      BY <1>3, <3>1 DEF Next, vars, ReorderBlock, StartHoisting, HoistInstruction, Return
    <3>3. PICK j \in 1..(next-1) : schedule[j] = i
      BY <3>1
    <3>4. j \in 1..(next' - 1)
      <4>1. \A m, n \in Nat : n >= m => 1..(m-1) \subseteq 1..(n-1)
        OBVIOUS
      <4> QED BY <1>3, <3>2, <3>3, <4>1
    <3> QED BY <2>1, <3>1, <3>2, <3>3, <3>4
  <2>2. CASE BlockOf(body, i) /= BlockOf(body', i)
    <3>1. ~ReorderBlock
      BY <2>2, ReorderMoves DEF Reordered
    <3>2. HoistInstruction /\ Hoist(schedule[next])
      BY <2>2, <3>1 DEF Next, vars, StartHoisting, HoistInstruction, Return, SkipAnchor, Stay
    <3>3. /\ pc = "hoist" /\ next <= Len(schedule) /\ next' = next + 1 /\ pc' = pc
          /\ ~isSchedulingAnchor(fn, schedule[next])
      BY <3>2 DEF HoistInstruction, Hoist
    <3>4. PICK t \in 1..(OrigIdx(schedule[next]) - 1) :
            Legal(schedule[next], t) /\ body' = MoveToEnd(schedule[next], trace[t])
      BY <3>2 DEF Hoist
    <3>5. Hoisted(fn, body, body', schedule[next], trace[t]) /\ t \in 1..Len(trace)
      BY <3>3, <3>4, HoistMoves
    <3>6. i = schedule[next] /\ BlockOf(body', i) = trace[t]
      BY <2>2, <3>5 DEF Hoisted
    <3>7. trace[t] \in ToSet(trace)
      BY <1>2, <3>5, TracePlaces
    <3>8. next \in 1..(next' - 1)
      BY <1>3, <3>3
    <3> QED BY <3>3, <3>6, <3>7, <3>8
  <2> QED BY <2>1, <2>2
<1>8. MovedInTurn'
  BY <1>1, <1>7 DEF MovedInTurn, originalBlock
<1> QED BY <1>1, <1>2, <1>4, <1>6, <1>8 DEF MotionInv

(* The instance of the abstract specification means the same by a legal  *)
(* motion.                                                               *)
LEMMA SameMotions ==
    ASSUME NEW f, NEW b, NEW c
    PROVE  Motion!IsLegalMotion(f, b, c) <=> IsLegalMotion(f, b, c)
<1>1. \A d, i : Motion!BlockOf(d, i) = BlockOf(d, i)
  BY DEF Motion!BlockOf, BlockOf, Motion!ToSet, ToSet
<1>2. \A d, i : Motion!PosOf(d, i) = PosOf(d, i)
  BY <1>1 DEF Motion!PosOf, PosOf
<1>3. Motion!Blocks(f) = Blocks(f) /\ Motion!Instructions(f) = Instructions(f)
  BY DEF Motion!Blocks, Blocks, Motion!Instructions, Instructions, Motion!ToSet, ToSet
<1>4. \A i : /\ Motion!isSchedulingAnchor(f, i) <=> isSchedulingAnchor(f, i)
             /\ Motion!SafeToSpeculate(f, i) <=> SafeToSpeculate(f, i)
             /\ Motion!IsPHI(f, i) <=> IsPHI(f, i)
  BY DEF Motion!isSchedulingAnchor, isSchedulingAnchor, Motion!SafeToSpeculate, SafeToSpeculate,
         Motion!IsPHI, IsPHI, Motion!IsTerminator, IsTerminator, Motion!IsOrderedOp, IsOrderedOp
<1>5. \A s : Motion!Anchors(f, s) = Anchors(f, s)
  BY <1>4 DEF Motion!Anchors, Anchors, Motion!ToSet, ToSet
<1>6. \A d, i : Motion!Segment(f, d, i) = Segment(f, d, i)
  BY <1>1, <1>2, <1>4 DEF Motion!Segment, Segment
<1>7. Motion!IsPlacement(f, c) <=> IsPlacement(f, c)
  BY <1>3 DEF Motion!IsPlacement, IsPlacement, Motion!ToSet, ToSet, Motion!IsInjective, IsInjective
<1>8. Motion!OperandsComputed(f, c) <=> OperandsComputed(f, c)
  <2>1. \A s : /\ Motion!ToSet(s) = ToSet(s)
               /\ Motion!Front(s) = Front(s)
               /\ Motion!Last(s) = Last(s)
    BY DEF Motion!ToSet, ToSet, Motion!Front, Front, Motion!Last, Last
  <2> QED BY <1>1, <1>2, <1>3, <1>4, <2>1, ZenonT(60) DEF Motion!OperandsComputed, OperandsComputed
<1>9. \A i : Motion!MayMove(f, b, c, i) <=> MayMove(f, b, c, i)
  BY <1>1, <1>4, <1>6 DEF Motion!MayMove, MayMove
<1> QED BY <1>3, <1>5, <1>7, <1>8, <1>9 DEF Motion!IsLegalMotion, IsLegalMotion

(* At every moment of a call the program is a legal motion away from the *)
(* one it was given.                                                     *)
LEMMA AlwaysMotion == Spec => []MotionInv
<1>1. Init => MotionInv
  BY InitIsMotion
<1>2. MotionInv /\ [Next]_vars => MotionInv'
  BY MotionStep
<1> QED BY <1>1, <1>2, PTL DEF Spec

(* However a call moves instructions, it implements the specification    *)
(* that promises no more than legal code motion: each step of both loops *)
(* is one motion of that specification, or changes nothing of it.        *)
THEOREM CallIsCodeMotion == Spec => IsCodeMotion
<1>1. Init => Motion!Init
  BY DEF Init, Motion!Init, fn
<1>2. MotionInv /\ [Next]_vars => [Motion!Next]_<<call.fn, body>>
  <2> SUFFICES ASSUME MotionInv, [Next]_vars PROVE [Motion!Next]_<<call.fn, body>>
    OBVIOUS
  <2>1. fn' = fn /\ (body' = body \/ IsLegalMotion(fn, body, body'))
    BY ArgumentsKept, StepMoves
  <2>2. call.fn' = call.fn /\ (body' = body \/ Motion!IsLegalMotion(call.fn, body, body'))
    BY <2>1, SameMotions DEF fn
  <2> QED BY <2>2 DEF Motion!Next
<1> QED BY <1>1, <1>2, AlwaysMotion, PTL DEF Spec, IsCodeMotion, Motion!Spec

(* Motions compose: however many blocks an instruction crossed, it ends  *)
(* where a single legal motion from the original program could put it.   *)
THEOREM MotionsAddUp == Spec => []EndIsLegalMotion
<1>1. MotionInv => EndIsLegalMotion
  BY DEF MotionInv, EndIsLegalMotion
<1> QED BY <1>1, AlwaysMotion, PTL

-----------------------------------------------------------------------------
(* What one turn of the second loop does: it leaves the program alone, or*)
(* hoists the instruction whose turn it is to the first legal block.     *)
LEMMA TurnHoists ==
    ASSUME MotionInv, HoistInstruction
    PROVE  /\ next \in 1..Len(schedule) /\ schedule[next] \in Instructions(fn)
           /\ BlockOf(body, schedule[next]) = originalBlock(schedule[next])
           /\ ~Hoist(schedule[next]) => body' = body
           /\ Hoist(schedule[next]) =>
                \E t \in 1..(OrigIdx(schedule[next]) - 1) :
                    /\ \A u \in 1..(t-1) : ~Legal(schedule[next], u)
                    /\ Hoisted(fn, body, body', schedule[next], trace[t])
                    /\ t \in 1..Len(trace) /\ trace[t] /= originalBlock(schedule[next])
<1> DEFINE i == schedule[next]
<1>1. IsCall(call) /\ pc = "hoist" /\ next \in 1..Len(schedule)
  <2>1. IsCall(call) /\ pc = "hoist" /\ next \in Nat \ {0} /\ next <= Len(schedule)
    BY DEF MotionInv, HoistInstruction
  <2> QED BY <2>1, CallFacts
<1>2. i \in Instructions(fn) /\ BlockOf(body, i) = originalBlock(i)
  <2>1. next >= next
    BY <1>1
  <2> QED BY <1>1, <2>1, TurnIsAtHome
<1>3. ~Hoist(i) => body' = body
  BY DEF HoistInstruction, SkipAnchor, Stay
<1>4. ASSUME Hoist(i)
      PROVE  \E t \in 1..(OrigIdx(i) - 1) :
                /\ \A u \in 1..(t-1) : ~Legal(i, u)
                /\ Hoisted(fn, body, body', i, trace[t])
                /\ t \in 1..Len(trace) /\ trace[t] /= originalBlock(i)
  <2>1. PICK t \in 1..(OrigIdx(i) - 1) :
          /\ Legal(i, t) /\ body' = MoveToEnd(i, trace[t])
          /\ \A u \in 1..(t-1) : ~Legal(i, u)
    BY <1>4 DEF Hoist
  <2>2. next <= Len(schedule) /\ ~isSchedulingAnchor(fn, i)
    BY <1>4 DEF HoistInstruction, Hoist
  <2>3. /\ Hoisted(fn, body, body', i, trace[t])
        /\ t \in 1..Len(trace) /\ trace[t] /= originalBlock(i)
    BY <1>1, <2>1, <2>2, HoistMoves
  <2> QED BY <2>1, <2>3
<1> QED BY <1>1, <1>2, <1>3, <1>4

(* The step of the order of the hoisted instructions: the next one goes  *)
(* behind those already there, and later ones have not moved.            *)
LEMMA OrderStep == MotionInv /\ HoistedInScheduleOrder /\ [Next]_vars => HoistedInScheduleOrder'
<1> SUFFICES ASSUME MotionInv, HoistedInScheduleOrder, [Next]_vars PROVE HoistedInScheduleOrder'
  OBVIOUS
<1>1. fn' = fn /\ schedule' = schedule /\ IsCall(call)
  BY ArgumentsKept DEF MotionInv
<1>2. DOMAIN schedule = 1..Len(schedule) /\ Len(schedule) \in Nat
  BY <1>1, CallFacts
<1>3. /\ MovedInTurn
      /\ \A j \in 1..Len(schedule) :
            schedule[j] \in Instructions(fn) /\ originalBlock(schedule[j]) \in ToSet(trace)
  BY <1>1, CallFacts, TracePlaces DEF MotionInv
<1>4. ASSUME NEW j \in 1..Len(schedule), NEW k \in 1..Len(schedule), j < k,
             BlockOf(body', schedule[j]) /= originalBlock(schedule[j]),
             BlockOf(body', schedule[k]) /= originalBlock(schedule[k]),
             BlockOf(body', schedule[j]) = BlockOf(body', schedule[k])
      PROVE  PosOf(body', schedule[j]) < PosOf(body', schedule[k])
  <2>1. CASE body' = body
    BY <1>2, <1>4, <2>1 DEF HoistedInScheduleOrder
  <2>2. CASE ReorderBlock
    <3>1. BlockOf(body', schedule[j]) = BlockOf(body, schedule[j])
      BY <1>3, <2>2, ReorderMoves DEF Reordered
    <3>2. pc = "reorder"
      BY <2>2 DEF ReorderBlock
    <3> QED BY <1>4, <3>1, <3>2, TurnIsAtHome
  <2>3. CASE HoistInstruction /\ body' /= body
    <3> DEFINE i == schedule[next]
    <3>1. next \in 1..Len(schedule) /\ i \in Instructions(fn) /\ BlockOf(body, i) = originalBlock(i)
      BY <2>3, TurnHoists
    <3>2. PICK t \in 1..(OrigIdx(i) - 1) : Hoisted(fn, body, body', i, trace[t])
      BY <2>3, TurnHoists
    <3>3. \A m, n \in 1..Len(schedule) : schedule[m] = schedule[n] => m = n
      BY <1>1, CallFacts
    <3>4. CASE k = next
      <4>1. schedule[j] /= i
        BY <1>4, <3>1, <3>3, <3>4
      <4>2. BlockOf(body, schedule[j]) = BlockOf(body', schedule[j])
            /\ BlockOf(body', schedule[j]) = trace[t]
        BY <1>3, <1>4, <3>2, <3>4, <4>1 DEF Hoisted
      <4>3. ~IsTerminator(fn, schedule[j])
        BY <1>3, <1>4, <4>2 DEF MovedInTurn, isSchedulingAnchor
      <4>4. Before(body', schedule[j], i)
        BY <1>3, <3>2, <4>2, <4>3 DEF Hoisted
      <4> QED BY <3>4, <4>4 DEF Before
    <3>5. CASE j = next
      <4>1. k >= next /\ schedule[k] /= i
        BY <1>4, <3>1, <3>3, <3>5
      <4>2. BlockOf(body, schedule[k]) = originalBlock(schedule[k])
        BY <4>1, TurnIsAtHome
      <4>3. BlockOf(body', schedule[k]) = BlockOf(body, schedule[k])
        BY <1>3, <3>2, <4>1 DEF Hoisted
      <4> QED BY <1>4, <4>2, <4>3
    <3>6. CASE j /= next /\ k /= next
      <4>1. schedule[j] /= i /\ schedule[k] /= i
        BY <3>1, <3>3, <3>6
      <4>2. /\ BlockOf(body', schedule[j]) = BlockOf(body, schedule[j])
            /\ BlockOf(body', schedule[k]) = BlockOf(body, schedule[k])
            /\ Before(body', schedule[j], schedule[k]) <=> Before(body, schedule[j], schedule[k])
        BY <1>3, <3>2, <4>1 DEF Hoisted
      <4>3. PosOf(body, schedule[j]) < PosOf(body, schedule[k])
        BY <1>2, <1>4, <4>2 DEF HoistedInScheduleOrder
      <4> QED BY <1>4, <4>2, <4>3 DEF Before
    <3> QED BY <3>4, <3>5, <3>6
  <2> QED BY <2>1, <2>2, <2>3 DEF Next, vars, StartHoisting, Return
<1> QED BY <1>1, <1>2, <1>4 DEF HoistedInScheduleOrder, originalBlock

(* The instructions hoisted into a block stand there in the order of the *)
(* schedule.                                                             *)
THEOREM HoistsKeepOrder == Spec => []HoistedInScheduleOrder
<1>1. Init => HoistedInScheduleOrder
  BY DEF Init, HoistedInScheduleOrder, originalBlock
<1>2. MotionInv /\ HoistedInScheduleOrder /\ [Next]_vars => HoistedInScheduleOrder'
  BY OrderStep
<1> QED BY <1>1, <1>2, AlwaysMotion, PTL DEF Spec

-----------------------------------------------------------------------------
(* Without the budget, what a block says to an instruction depends on    *)
(* nothing that moves but the instruction's operands.                    *)
LEMMA LegalKept ==
    ASSUME ~usePressure, usePressure' = usePressure, call' = call, NEW i, NEW t,
           \A v \in Operands(fn, i) \cap Instructions(fn) : BlockOf(body', v) = BlockOf(body, v)
    PROVE  Legal(i, t)' <=> Legal(i, t)
<1>1. fn' = fn /\ trace' = trace
  BY DEF fn, trace
<1>2. OperandsAvailable(i, trace[t])' <=> OperandsAvailable(i, trace[t])
  BY <1>1 DEF OperandsAvailable, DominatesEndOf
<1>3. Fails(i, trace[t])' = Fails(i, trace[t])
  BY <1>1, <1>2 DEF Fails, isSameLoopOrOuter, originalBlock
<1> QED BY <1>1, <1>3 DEF Legal

(* The step of Settled: a turn moves no operand of an instruction whose  *)
(* turn it is or is over, and leaves that of the turn at the first legal *)
(* block, or at home if there is none.                                   *)
LEMMA SettledStep == MotionInv /\ Settled /\ [Next]_vars => Settled'
<1> SUFFICES ASSUME MotionInv, Settled, [Next]_vars PROVE Settled'
  OBVIOUS
<1>1. /\ call' = call /\ fn' = fn /\ trace' = trace /\ schedule' = schedule
      /\ usePressure' = usePressure /\ IsCall(call)
  BY ArgumentsKept DEF MotionInv
<1>2. CASE ReorderBlock \/ StartHoisting
  <2>1. pc' = "reorder" \/ next' = 1
    BY <1>2 DEF ReorderBlock, StartHoisting
  <2> QED BY <2>1 DEF Settled
<1>3. CASE Return \/ UNCHANGED vars
  <2>1. body' = body /\ next' = next /\ (pc' /= "reorder" => pc /= "reorder")
    BY <1>3 DEF Return, vars
  <2>2. ~usePressure => \A i, t : Legal(i, t)' <=> Legal(i, t)
    BY <1>1, <2>1, LegalKept
  <2>3. ASSUME pc /= "reorder", ~usePressure, NEW j \in 1..(next-1),
               NEW m, m = schedule[j], ~isSchedulingAnchor(fn, m),
               NEW t \in 1..(tracePos(BlockOf(body, m)) - 1)
        PROVE  ~Legal(m, t)'
    <3>1. ~Legal(m, t)
      BY <2>3 DEF Settled
    <3> QED BY <2>2, <2>3, <3>1
  <2> QED BY <1>1, <2>1, <2>3 DEF Settled, tracePos
<1>4. CASE HoistInstruction
  <2>1. PICK i : /\ i = schedule[next] /\ next \in 1..Len(schedule) /\ i \in Instructions(fn)
                 /\ BlockOf(body, i) = originalBlock(i)
    BY <1>4, TurnHoists
  <2>2. next' = next + 1 /\ pc = "hoist" /\ pc' = pc
    BY <1>4 DEF HoistInstruction
  <2>3. \A v \in Instructions(fn) \ {i} : BlockOf(body', v) = BlockOf(body, v)
    BY <1>4, <2>1, TurnHoists DEF Hoisted
  <2>4. ASSUME NEW j \in 1..next, NEW m, m = schedule[j], ~isSchedulingAnchor(fn, m),
               ~usePressure, NEW t
        PROVE  Legal(m, t)' <=> Legal(m, t)
    <3>1. j \in 1..Len(schedule) /\ next \in 1..Len(schedule) /\ DOMAIN schedule = 1..Len(schedule)
      BY <1>1, <2>1, CallFacts
    <3>2. i \notin Operands(fn, m)
      BY <1>1, <2>1, <2>4, <3>1, CallFacts DEF AfterOperands
    <3> QED BY <1>1, <2>3, <2>4, <3>2, LegalKept
  <2>5. ASSUME ~usePressure, NEW j \in 1..(next-1), NEW m, m = schedule[j],
               ~isSchedulingAnchor(fn, m), NEW t \in 1..(tracePos(BlockOf(body', m)) - 1)
        PROVE  ~Legal(m, t)'
    <3>1. j \in 1..next /\ j \in 1..Len(schedule) /\ j /= next
      BY <1>1, <2>1, CallFacts
    <3>2. m \in Instructions(fn) \ {i}
      BY <1>1, <2>1, <2>5, <3>1, CallFacts
    <3>3. BlockOf(body', m) = BlockOf(body, m)
      BY <2>3, <3>2
    <3>4. ~Legal(m, t)
      BY <2>2, <2>5, <3>3 DEF Settled
    <3> QED BY <2>4, <2>5, <3>1, <3>4
  <2>6. ASSUME ~usePressure, ~isSchedulingAnchor(fn, i),
               NEW t \in 1..(tracePos(BlockOf(body', i)) - 1)
        PROVE  ~Legal(i, t)'
    <3>1. ~Legal(i, t)
      <4>1. CASE Hoist(i)
        <5>1. PICK u \in 1..(OrigIdx(i) - 1) :
                /\ \A w \in 1..(u-1) : ~Legal(i, w)
                /\ Hoisted(fn, body, body', i, trace[u]) /\ u \in 1..Len(trace)
          BY <1>4, <2>1, <4>1, TurnHoists
        <5>2. tracePos(BlockOf(body', i)) = u
          BY <1>1, <5>1, TracePlaces DEF Hoisted
        <5> QED BY <2>6, <5>1, <5>2
      <4>2. CASE ~Hoist(i)
        <5>1. Stay(i)
          BY <1>4, <2>1, <2>6, <4>2 DEF HoistInstruction, SkipAnchor
        <5>2. BlockOf(body', i) = originalBlock(i)
          BY <1>4, <2>1, <4>2, TurnHoists
        <5> QED BY <2>6, <5>1, <5>2 DEF Stay, OrigIdx
      <4> QED BY <4>1, <4>2
    <3>2. next \in 1..next
      BY <2>1
    <3> QED BY <2>1, <2>4, <2>6, <3>1, <3>2
  <2>7. ASSUME ~usePressure, NEW j \in 1..(next' - 1), NEW m, m = schedule[j],
               ~isSchedulingAnchor(fn, m), NEW t \in 1..(tracePos(BlockOf(body', m)) - 1)
        PROVE  ~Legal(m, t)'
    <3>1. j \in 1..(next-1) \/ j = next
      BY <2>1, <2>2
    <3> QED BY <2>1, <2>5, <2>6, <2>7, <3>1
  <2> QED BY <1>1, <2>7 DEF Settled, tracePos
<1> QED BY <1>2, <1>3, <1>4 DEF Next

(* One pass over the schedule misses nothing: at the end of a call       *)
(* without the budget, no instruction is left that an earlier block of   *)
(* the trace, tried again, would accept.                                 *)
THEOREM NothingIsMissed == Spec => []NoMissedHoist
<1>1. Init => Settled
  BY DEF Init, Settled
<1>2. MotionInv /\ Settled /\ [Next]_vars => Settled'
  BY SettledStep
<1>3. MotionInv /\ Settled => NoMissedHoist
  <2> SUFFICES ASSUME MotionInv, Settled, pc = "done", ~usePressure,
                      NEW i \in ToSet(schedule)
               PROVE  isSchedulingAnchor(fn, i) \/
                      \A t \in 1..(tracePos(BlockOf(body, i)) - 1) : ~Legal(i, t)
    BY DEF NoMissedHoist
  <2>1. IsCall(call) /\ next = Len(schedule) + 1
    BY DEF MotionInv
  <2>2. Len(schedule) \in Nat /\ DOMAIN schedule = 1..Len(schedule)
    BY <2>1, CallFacts
  <2>3. PICK j \in 1..Len(schedule) : schedule[j] = i
    BY <2>2 DEF ToSet
  <2>4. j \in 1..(next-1)
    BY <2>1, <2>2
  <2> QED BY <2>3, <2>4 DEF Settled
<1> QED BY <1>1, <1>2, <1>3, AlwaysMotion, PTL DEF Spec

-----------------------------------------------------------------------------
(* An instruction that stays has a reason.                               *)
LEMMA StaysForAReason ==
    ASSUME NEW i, OrigIdx(i) \in Nat, OrigIdx(i) > 1,
           \A t \in 1..(OrigIdx(i) - 1) : ~Legal(i, t)
    PROVE  BestReason(i) \in ToSet(Reasons)
<1> DEFINE tried == 1..(OrigIdx(i) - 1)
           failed(t) == {k \in DOMAIN Reasons : Fails(i, trace[t])[Reasons[k]]}
           T == {FirstFailure(i, t) : t \in tried}
<1>1. DOMAIN Reasons = 1..5
  BY ReasonNames
<1>2. ASSUME NEW t \in tried PROVE FirstFailure(i, t) \in 1..5
  <2>1. \E reason \in ToSet(Reasons) : Fails(i, trace[t])[reason]
    BY <1>2 DEF Legal
  <2>2. failed(t) \subseteq 1..5 /\ failed(t) /= {}
    BY <1>1, <2>1 DEF ToSet
  <2>3. FirstFailure(i, t) = Min(failed(t))
    BY DEF FirstFailure
  <2> HIDE DEF failed
  <2> QED BY <2>2, <2>3, MinAndMax
<1>3. T \subseteq 1..5 /\ T /= {}
  <2>1. 1 \in tried
    OBVIOUS
  <2> QED BY <1>2, <2>1
<1>4. BestReason(i) = Reasons[Max(T)]
  BY DEF BestReason
<1>5. Max(T) \in 1..5
  <2> HIDE DEF T
  <2> QED BY <1>3, MinAndMax
<1> QED BY <1>1, <1>4, <1>5 DEF ToSet

(* The outcomes of a turn but "candidates", and the sum of the counters. *)
Outcomes == {"done", "loop", "dominance", "operand", "unsafe", "pressure"}

Balanced(h) ==
    h["candidates"] = h["done"] + h["loop"] + h["dominance"]
                        + h["operand"] + h["unsafe"] + h["pressure"]

(* What counting an outcome does to the counters.                        *)
LEMMA CountIs ==
    ASSUME hoistStats \in [Counters -> Nat], NEW i, OrigIdx(i) /= 1, NEW outcome \in Outcomes
    PROVE  /\ Count(i, outcome) \in [Counters -> Nat]
           /\ Count(i, outcome)["candidates"] = hoistStats["candidates"] + 1
           /\ Count(i, outcome)["done"] =
                IF outcome = "done" THEN hoistStats["done"] + 1 ELSE hoistStats["done"]
           /\ Balanced(hoistStats) => Balanced(Count(i, outcome))
<1> DEFINE h == Count(i, outcome)
<1>1. Counters = Outcomes \cup {"candidates"} /\ "candidates" \notin Outcomes
  BY ReasonNames DEF Outcomes
<1>3. /\ h \in [Counters -> Nat]
      /\ h["candidates"] = hoistStats["candidates"] + 1
      /\ h[outcome] = hoistStats[outcome] + 1
      /\ \A c \in Outcomes : c /= outcome => h[c] = hoistStats[c]
  <2>1. h = [hoistStats EXCEPT !["candidates"] = @ + 1, ![outcome] = @ + 1]
    BY DEF Count
  <2>2. DOMAIN h = Counters
    BY <2>1
  <2>3. h["candidates"] = hoistStats["candidates"] + 1
    BY <1>1, <2>1
  <2>4. h[outcome] = hoistStats[outcome] + 1
    BY <1>1, <2>1
  <2>5. \A c \in Outcomes : c /= outcome => h[c] = hoistStats[c]
    BY <1>1, <2>1
  <2>6. h = [c \in Counters |-> h[c]]
    BY <2>1
  <2> HIDE DEF h
  <2> QED BY <1>1, <2>2, <2>3, <2>4, <2>5, <2>6
<1>4. \A c \in Outcomes : hoistStats[c] \in Nat
  BY <1>1
<1> HIDE DEF h
<1>5. Balanced(hoistStats) => Balanced(h)
  BY <1>1, <1>3, <1>4 DEF Balanced, Outcomes
<1>6. h["done"] = IF outcome = "done" THEN hoistStats["done"] + 1 ELSE hoistStats["done"]
  BY <1>3 DEF Outcomes
<1> QED BY <1>3, <1>5, <1>6 DEF h

(* A turn counts one outcome of an instruction with an earlier block to  *)
(* try, "done" if it hoists it; it counts nothing for another.           *)
LEMMA TurnCounts ==
    ASSUME MotionInv, HoistInstruction
    PROVE  /\ OrigIdx(schedule[next]) = 1 => hoistStats' = hoistStats /\ ~Hoist(schedule[next])
           /\ OrigIdx(schedule[next]) /= 1 =>
                \E outcome \in Outcomes :
                    /\ hoistStats' = Count(schedule[next], outcome)
                    /\ outcome = "done" <=> Hoist(schedule[next])
<1> DEFINE i == schedule[next]
<1>1. next \in 1..Len(schedule) /\ IsCall(call)
  BY TurnHoists DEF MotionInv
<1>2. OrigIdx(i) \in 1..Len(trace) /\ Len(trace) \in Nat
  BY <1>1, TracePlaces, CallFacts
<1>3. OrigIdx(i) = 1 => ~Hoist(i)
  BY DEF Hoist
<1>4. CASE SkipAnchor(i)
  <2>1. ~Hoist(i) /\ hoistStats' = Count(i, "unsafe")
    BY <1>4 DEF SkipAnchor, Hoist
  <2> QED BY <2>1 DEF Outcomes, Count
<1>5. CASE Hoist(i)
  <2>1. hoistStats' = Count(i, "done")
    BY <1>5 DEF Hoist
  <2> QED BY <1>3, <1>5, <2>1 DEF Outcomes
<1>6. CASE Stay(i)
  <2>1. \A t \in 1..(OrigIdx(i) - 1) : ~Legal(i, t)
    BY <1>6 DEF Stay
  <2>2. ~Hoist(i)
    BY <2>1 DEF Hoist
  <2>3. OrigIdx(i) /= 1 => BestReason(i) \in ToSet(Reasons)
    BY <1>2, <2>1, StaysForAReason
  <2>4. OrigIdx(i) /= 1 =>
           BestReason(i) \in Outcomes /\ BestReason(i) /= "done" /\ hoistStats' = Count(i, BestReason(i))
    BY <1>6, <2>3, ReasonNames DEF Stay, Outcomes
  <2>5. OrigIdx(i) = 1 => hoistStats' = hoistStats
    BY <1>6 DEF Stay
  <2> QED BY <2>2, <2>4, <2>5
<1>7. SkipAnchor(i) \/ Hoist(i) \/ Stay(i)
  BY DEF HoistInstruction
<1> QED BY <1>4, <1>5, <1>6, <1>7

(* A part of the schedule and one instruction more.                      *)
LEMMA OneMore ==
    ASSUME IsCall(call), NEW A, A \subseteq ToSet(schedule), NEW i
    PROVE  /\ Cardinality(A) \in Nat
           /\ i \notin A => Cardinality(A \cup {i}) = Cardinality(A) + 1
<1>1. schedule \in Surjection(1..Len(schedule), ToSet(schedule))
  <2>1. /\ DOMAIN schedule = 1..Len(schedule)
        /\ schedule = [k \in 1..Len(schedule) |-> schedule[k]]
    BY CallFacts
  <2>2. schedule \in [1..Len(schedule) -> ToSet(schedule)]
    BY <2>1 DEF ToSet
  <2> QED BY <2>1, <2>2 DEF Surjection, ToSet
<1>2. IsFiniteSet(1..Len(schedule))
  <2>1. Len(schedule) \in Int /\ 1 \in Int
    BY CallFacts
  <2> QED BY <2>1, FS_Interval
<1>3. IsFiniteSet(ToSet(schedule))
  BY <1>1, <1>2, FS_Surjection
<1>4. IsFiniteSet(A)
  BY <1>3, FS_Subset
<1>5. Cardinality(A) \in Nat
  BY <1>4, FS_CardinalityType
<1>6. i \notin A => Cardinality(A \cup {i}) = Cardinality(A) + 1
  BY <1>4, FS_AddElement
<1> QED BY <1>5, <1>6

(* The step of the counters: a turn adds its instruction to those counted*)
(* if there is an earlier block to try, and to those moved if it moves.  *)
LEMMA CountStep ==
    MotionInv /\ Counted /\ StatsAccount /\ [Next]_vars => Counted' /\ StatsAccount'
<1> DEFINE turned(i, n) == \E j \in 1..(n-1) : schedule[j] = i
           due == {i \in ToSet(schedule) : OrigIdx(i) > 1}
           counted(n) == {i \in ToSet(schedule) : OrigIdx(i) > 1 /\ turned(i, n)}
           moved(b) == {i \in ToSet(schedule) : BlockOf(b, i) /= originalBlock(i)}
<1> SUFFICES ASSUME MotionInv, Counted, StatsAccount, [Next]_vars
             PROVE  Counted' /\ StatsAccount'
  OBVIOUS
<1>1. /\ call' = call /\ fn' = fn /\ trace' = trace /\ schedule' = schedule
      /\ IsCall(call)
  BY ArgumentsKept DEF MotionInv
<1>2. /\ Len(schedule) \in Nat /\ DOMAIN schedule = 1..Len(schedule)
      /\ \A j \in 1..Len(schedule) : schedule[j] \in Instructions(fn)
      /\ \A j, k \in 1..Len(schedule) : schedule[j] = schedule[k] => j = k
      /\ \A i \in ToSet(schedule) : \E j \in 1..Len(schedule) : schedule[j] = i
      /\ \A j \in 1..Len(schedule) : schedule[j] \in ToSet(schedule)
  <2>1. Len(schedule) \in Nat /\ DOMAIN schedule = 1..Len(schedule)
    BY <1>1, CallFacts
  <2>2. \A j \in 1..Len(schedule) : schedule[j] \in Instructions(fn)
    BY <1>1, CallFacts
  <2>3. \A j, k \in 1..Len(schedule) : schedule[j] = schedule[k] => j = k
    BY <1>1, CallFacts
  <2> QED BY <2>1, <2>2, <2>3 DEF ToSet
<1>3. /\ hoistStats \in [Counters -> Nat] /\ Balanced(hoistStats)
      /\ hoistStats["candidates"] = IF pc = "reorder" THEN 0 ELSE Cardinality(counted(next))
      /\ hoistStats["done"] = Cardinality(moved(body))
  BY DEF Counted, StatsAccount, Balanced
<1>4. /\ pc \in {"reorder", "hoist", "done"} /\ next \in Nat \ {0}
      /\ pc = "done" => next = Len(schedule) + 1
  BY DEF MotionInv
<1>5. /\ hoistStats' \in [Counters -> Nat] /\ Balanced(hoistStats')
      /\ hoistStats'["candidates"] = IF pc' = "reorder" THEN 0 ELSE Cardinality(counted(next'))
      /\ hoistStats'["done"] = Cardinality(moved(body'))
  <2>1. CASE ReorderBlock
    <3>1. \A i \in Instructions(fn) : BlockOf(body', i) = BlockOf(body, i)
      BY <2>1, ReorderMoves DEF Reordered
    <3>2. moved(body') = moved(body)
      BY <1>2, <3>1
    <3>3. hoistStats' = hoistStats /\ pc = "reorder" /\ pc' = "reorder"
      BY <2>1 DEF ReorderBlock
    <3> HIDE DEF moved, counted
    <3> QED BY <1>3, <3>2, <3>3
  <2>2. CASE StartHoisting
    <3>1. hoistStats' = hoistStats /\ pc = "reorder" /\ pc' = "hoist" /\ next' = 1 /\ body' = body
      BY <2>2 DEF StartHoisting
    <3>2. counted(next') = {}
      BY <3>1
    <3> HIDE DEF moved, counted
    <3>3. Cardinality(counted(next')) = 0
      BY <3>2, FS_EmptySet
    <3> QED BY <1>3, <3>1, <3>3
  <2>3. CASE Return \/ UNCHANGED vars
    <3>1. /\ hoistStats' = hoistStats /\ (pc = "reorder" <=> pc' = "reorder")
          /\ next' = next /\ body' = body
      BY <2>3 DEF Return, vars
    <3> HIDE DEF moved, counted
    <3> QED BY <1>3, <3>1
  <2>4. CASE HoistInstruction
    <3> DEFINE i == schedule[next]
    <3>1. /\ next \in 1..Len(schedule) /\ i \in Instructions(fn)
          /\ BlockOf(body, i) = originalBlock(i)
      BY <2>4, TurnHoists
    <3>2. pc = "hoist" /\ pc' = "hoist" /\ next' = next + 1
      BY <2>4 DEF HoistInstruction
    <3>3. OrigIdx(i) \in Nat \ {0}
      BY <1>1, <3>1, TracePlaces
    <3>4. i \in ToSet(schedule) /\ i \notin counted(next) /\ i \notin moved(body)
      BY <1>2, <3>1
    <3>5. \A k \in ToSet(schedule) : turned(k, next') <=> turned(k, next) \/ k = i
      <4>1. 1..(next' - 1) = 1..(next-1) \cup {next}
        BY <3>1, <3>2
      <4> QED BY <4>1
    <3>6. counted(next') = IF OrigIdx(i) /= 1 THEN counted(next) \cup {i} ELSE counted(next)
      <4>1. OrigIdx(i) > 1 <=> OrigIdx(i) /= 1
        BY <3>3
      <4> HIDE DEF turned
      <4> QED BY <3>4, <3>5, <4>1
    <3>7. moved(body') = IF Hoist(i) THEN moved(body) \cup {i} ELSE moved(body)
      <4>1. CASE ~Hoist(i)
        <5>1. body' = body
          BY <2>4, <4>1, TurnHoists
        <5> QED BY <4>1, <5>1
      <4>2. CASE Hoist(i)
        <5>1. PICK t \in 1..(OrigIdx(i) - 1) :
                Hoisted(fn, body, body', i, trace[t]) /\ trace[t] /= originalBlock(i)
          BY <2>4, <4>2, TurnHoists
        <5>2. /\ BlockOf(body', i) /= originalBlock(i)
              /\ \A k \in Instructions(fn) \ {i} : BlockOf(body', k) = BlockOf(body, k)
          BY <5>1 DEF Hoisted
        <5>3. \A k \in ToSet(schedule) : k \in Instructions(fn)
          BY <1>2
        <5> HIDE DEF i
        <5> QED BY <3>4, <4>2, <5>2, <5>3
      <4> QED BY <4>1, <4>2
    <3>8. counted(next) \subseteq ToSet(schedule) /\ moved(body) \subseteq ToSet(schedule)
      OBVIOUS
    <3> HIDE DEF counted, moved, i
    <3>9. /\ Cardinality(counted(next) \cup {i}) = Cardinality(counted(next)) + 1
          /\ Cardinality(moved(body) \cup {i}) = Cardinality(moved(body)) + 1
      BY <1>1, <3>4, <3>8, OneMore
    <3>10. CASE OrigIdx(i) = 1
      <4>1. hoistStats' = hoistStats /\ ~Hoist(i)
        BY <2>4, <3>10, TurnCounts DEF i
      <4> QED BY <1>3, <3>2, <3>6, <3>7, <3>10, <4>1
    <3>11. CASE OrigIdx(i) /= 1
      <4>1. PICK outcome \in Outcomes :
              hoistStats' = Count(i, outcome) /\ (outcome = "done" <=> Hoist(i))
        BY <2>4, <3>11, TurnCounts DEF i
      <4>2. /\ hoistStats' \in [Counters -> Nat] /\ Balanced(hoistStats')
            /\ hoistStats'["candidates"] = hoistStats["candidates"] + 1
            /\ hoistStats'["done"] =
                 IF outcome = "done" THEN hoistStats["done"] + 1 ELSE hoistStats["done"]
        BY <1>3, <3>11, <4>1, CountIs
      <4> QED BY <1>3, <3>2, <3>6, <3>7, <3>9, <3>11, <4>1, <4>2
    <3> QED BY <3>10, <3>11
  <2> QED BY <2>1, <2>2, <2>3, <2>4 DEF Next
<1>6. Counted'
  BY <1>1, <1>5 DEF Counted, OrigIdx, tracePos, originalBlock
<1>7. pc' = "done" => hoistStats'["candidates"] = Cardinality(due)
  <2> SUFFICES ASSUME pc' = "done" PROVE hoistStats'["candidates"] = Cardinality(due)
    OBVIOUS
  <2>1. next' = Len(schedule) + 1
    BY <1>1, <1>4, MotionStep DEF MotionInv
  <2>2. counted(next') = due
    BY <1>2, <2>1
  <2> HIDE DEF counted, due
  <2> QED BY <1>5, <2>2
<1>8. StatsAccount'
  BY <1>1, <1>5, <1>7 DEF StatsAccount, Balanced, OrigIdx, tracePos, originalBlock
<1> QED BY <1>6, <1>8

(* The statistics add up in every call: the candidates are counted once  *)
(* each, as done or under one reason, and "done" counts the instructions *)
(* that changed block.                                                   *)
THEOREM StatsAddUp == Spec => []StatsAccount
<1>1. Init => Counted /\ StatsAccount
  <2> SUFFICES ASSUME Init PROVE Counted /\ StatsAccount
    OBVIOUS
  <2>1. body = fn.body /\ pc = "reorder" /\ hoistStats = [c \in Counters |-> 0]
    BY DEF Init
  <2>2. \A c \in Counters : hoistStats[c] = 0
    BY <2>1
  <2>3. {i \in ToSet(schedule) : BlockOf(body, i) /= originalBlock(i)} = {}
    BY <2>1 DEF originalBlock
  <2>4. Cardinality({i \in ToSet(schedule) : BlockOf(body, i) /= originalBlock(i)}) = 0
    BY <2>3, FS_EmptySet
  <2>5. Counted
    BY <2>1, <2>2, ReasonNames DEF Counted
  <2>6. StatsAccount
    BY <2>1, <2>2, <2>4, ReasonNames DEF StatsAccount
  <2> QED BY <2>5, <2>6
<1>2. MotionInv /\ Counted /\ StatsAccount /\ [Next]_vars => Counted' /\ StatsAccount'
  BY CountStep
<1> QED BY <1>1, <1>2, AlwaysMotion, PTL DEF Spec
-----------------------------------------------------------------------------
(* A step changes blocks of the trace only, and loop headers lose        *)
(* instructions but never get new ones.                                  *)
LEMMA StepChanges ==
    ASSUME MotionInv, [Next]_vars, NEW b \in Blocks(fn)
    PROVE  /\ body'[b] /= body[b] => b \in ToSet(trace)
           /\ b \in fn.headers => ToSet(body'[b]) \subseteq ToSet(body[b])
<1>1. IsCall(call) /\ IsPlacement(fn, body) /\ TerminatorsLast(fn, body)
  BY DEF MotionInv, IsLegalMotion
<1>2. body[b] \in Seq(Instructions(fn)) /\ IsInjective(body[b])
  BY <1>1 DEF IsPlacement
<1>3. CASE body' = body
  BY <1>3
<1>4. CASE ReorderBlock
  <2> DEFINE x == trace[next]
  <2>1. next \in 1..Len(trace)
    BY <1>1, <1>4, CallFacts DEF MotionInv, ReorderBlock
  <2>2. x \in Blocks(fn) /\ x \in ToSet(trace)
    BY <1>1, <2>1, CallFacts, TracePlaces
  <2>3. body' = WithBlockReordered(fn, body, x, schedule)
    BY <1>4 DEF ReorderBlock, WithBlockReordered
  <2>4. schedule \in Seq(Instructions(fn)) /\ IsInjective(schedule)
    BY <1>1, CallFacts
  <2> HIDE DEF x
  <2>5. ShufflesBlock(fn, body, body', x)
    BY <1>1, <2>2, <2>3, <2>4, ReorderShufflesBlock
  <2>6. /\ Shuffled(fn, body[x], body'[x])
        /\ \A y \in Blocks(fn) : y /= x => body'[y] = body[y]
    BY <2>5 DEF ShufflesBlock
  <2>7. b = x => ToSet(body'[b]) = ToSet(body[b])
    BY <1>2, <2>6, ShuffleIsPermutation
  <2> QED BY <2>2, <2>6, <2>7
<1>5. CASE HoistInstruction /\ body' /= body
  <2> DEFINE i == schedule[next]
             o == originalBlock(i)
  <2>1. pc = "hoist" /\ next <= Len(schedule) /\ Hoist(i)
    BY <1>5 DEF HoistInstruction, SkipAnchor, Stay
  <2>2. PICK t \in 1..(OrigIdx(i) - 1) : Legal(i, t) /\ body' = MoveToEnd(i, trace[t])
    BY <2>1 DEF Hoist
  <2> DEFINE x == trace[t]
  <2>3. next \in 1..Len(schedule) /\ next >= next
    BY <1>1, <2>1, CallFacts DEF MotionInv
  <2>4. i \in Instructions(fn) /\ BlockOf(body, i) = o /\ o \in ToSet(trace)
    BY <1>1, <2>3, TurnIsAtHome, TracePlaces
  <2>5. t \in 1..Len(trace) /\ x /= o
    BY <2>1, <2>2, HoistMoves DEF Hoist
  <2>6. x \in Blocks(fn) /\ x \in ToSet(trace)
    BY <1>1, <2>5, CallFacts, TracePlaces
  <2>7. x \notin fn.headers
    <3>1. ~Fails(i, x)["loop"]
      BY <2>2, ReasonNames DEF Legal
    <3> HIDE DEF i, x
    <3> QED BY <3>1 DEF Fails
  <2>8. body' = WithHoisted(body, i, x)
    BY <2>2 DEF MoveToEnd, WithHoisted
  <2> HIDE DEF i, x, o
  <2>9. Rearranged(fn, body, body', i, o, x)
    BY <1>1, <2>4, <2>5, <2>6, <2>8, HoistRearranges
  <2>10. o \in Blocks(fn) /\ PosOf(body, i) \in 1..Len(body[o])
    BY <1>1, <2>4, PlacedOnce
  <2>11. ToSet(body'[o]) \subseteq ToSet(body[o])
    <3>1. body[o] \in Seq(Instructions(fn)) /\ body'[o] \in Seq(Instructions(fn))
      BY <1>1, <2>9, <2>10 DEF IsPlacement, Rearranged
    <3>2. /\ Len(body[o]) \in Nat /\ DOMAIN body[o] = 1..Len(body[o])
          /\ DOMAIN body'[o] = 1..(Len(body[o]) - 1)
      BY <2>9, <3>1 DEF Rearranged
    <3>3. \A k \in 1..(Len(body[o]) - 1) : body'[o][k] = body[o][k] \/ body'[o][k] = body[o][k+1]
      BY <2>9 DEF Rearranged
    <3>4. \A k \in 1..(Len(body[o]) - 1) : k \in 1..Len(body[o]) /\ k + 1 \in 1..Len(body[o])
      BY <3>2
    <3> QED BY <3>2, <3>3, <3>4 DEF ToSet
  <2>12. b \notin {o, x} => body'[b] = body[b]
    BY <2>9 DEF Rearranged
  <2> QED BY <2>4, <2>6, <2>7, <2>11, <2>12
<1> QED BY <1>3, <1>4, <1>5 DEF Next, vars, StartHoisting, Return
==========================================================================
