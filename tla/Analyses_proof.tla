--------------------------- MODULE Analyses_proof ---------------------------
(*************************************************************************)
(* Proofs about the dataflow analyses: for every function, what they     *)
(* compute is what a statement about paths says.  The two directions are *)
(* proved differently.  That the sets hold no more than that (no less,   *)
(* for dominators) is invariant all along; that they hold no less (no    *)
(* more) follows by induction on a path from the equations between       *)
(* blocks, which hold when the last round has changed nothing.           *)
(*************************************************************************)
EXTENDS Analyses, IR_proof

(* INSTANCE makes copies of the operators of IR; they are the same.      *)
LEMMA SameCFG ==
    /\ \A f : Live!Blocks(f) = Blocks(f) /\ Reach!Blocks(f) = Blocks(f) /\ Dom!Blocks(f) = Blocks(f)
    /\ \A f, b : /\ Live!Succs(f, b) = Succs(f, b)
                 /\ Reach!Preds(f, b) = Preds(f, b) /\ Dom!Preds(f, b) = Preds(f, b)
  BY DEF Live!Blocks, Reach!Blocks, Dom!Blocks, Blocks, Live!Succs, Reach!Succs, Dom!Succs,
         Succs, Reach!Preds, Dom!Preds, Preds, Live!ToSet, Reach!ToSet, Dom!ToSet, ToSet

(* Neither does it change what can be reached.                           *)
LEMMA SameReach ==
    /\ \A f, from, avoid : /\ Live!ReachableFrom(f, from, avoid) = ReachableFrom(f, from, avoid)
                          /\ Reach!ReachableFrom(f, from, avoid) = ReachableFrom(f, from, avoid)
                          /\ Dom!ReachableFrom(f, from, avoid) = ReachableFrom(f, from, avoid)
    /\ \A f : Reach!Reachable(f) = Reachable(f)
    /\ \A f, a, b : Dom!Dominates(f, a, b) = Dominates(f, a, b)
  BY DEF Live!ReachableFrom, Reach!ReachableFrom, Dom!ReachableFrom, ReachableFrom,
         Live!Succs, Reach!Succs, Dom!Succs, Succs, Live!ToSet, Reach!ToSet, Dom!ToSet, ToSet,
         Reach!Reachable, Reachable, Dom!Dominates, Dominates

(* The uses and definitions of a block are the same in each instance.    *)
LEMMA SameIR ==
    \A f, b : /\ Live!UseSet(f, b) = UseSet(f, b) /\ Live!DefSet(f, b) = DefSet(f, b)
             /\ Reach!DefSet(f, b) = DefSet(f, b)
  BY DEF Live!UseSet, Live!DefSet, Reach!DefSet, UseSet, DefSet, Live!ToSet, Reach!ToSet, ToSet,
         Live!Universe, Reach!Universe, Universe, Live!Operands, Operands,
         Live!Instructions, Reach!Instructions, Instructions, Live!IsVoid, Reach!IsVoid, IsVoid

(* So is what is live.                                                   *)
LEMMA SameLiveness ==
    \A f : Live!LiveIn(f) = LiveIn(f) /\ Live!LiveOut(f) = LiveOut(f)
<1>1. \A f : Live!LiveIn(f) = LiveIn(f)
  BY DEF Live!LiveIn, LiveIn, Live!UseSet, UseSet, Live!DefSet, DefSet, Live!Operands, Operands,
         Live!Universe, Universe, Live!Instructions, Instructions, Live!IsVoid, IsVoid,
         Live!Blocks, Blocks, Live!Succs, Succs, Live!ToSet, ToSet
<1> QED BY <1>1, SameCFG DEF Live!LiveOut, LiveOut

(* So is the order of the search.                                        *)
LEMMA SameSearch ==
    \A f : Reach!BreadthFirst(f) = BreadthFirst(f) /\ Dom!BreadthFirst(f) = BreadthFirst(f)
  BY DEF Reach!BreadthFirst, Dom!BreadthFirst, BreadthFirst, Reach!Entered, Dom!Entered, Entered,
         Reach!ToSet, Dom!ToSet, ToSet

(* The equations of computeLiveness, as operators of the sets.           *)
LiveOutOf(f, I, b) == UNION {I[s] : s \in Succs(f, b)}

LiveInOf(f, I, b) == UseSet(f, b) \cup (LiveOutOf(f, I, b) \ DefSet(f, b))

(* What computeLiveness assigns to a block, in these terms.              *)
LEMMA LiveEquations ==
    \A b : Live!NewOut(b) = LiveOutOf(fn, in, b) /\ Live!NewIn(b) = LiveInOf(fn, in, b)
<1>1. \A b : Live!NewOut(b) = LiveOutOf(fn, in, b)
  BY SameCFG DEF Live!NewOut, LiveOutOf
<1> QED BY <1>1, SameIR DEF Live!NewIn, LiveInOf

(* The sets of liveness, at every step: no value that is not live.       *)
LiveSound ==
    /\ in \in [Blocks(fn) -> SUBSET Universe(fn)]
    /\ out \in [Blocks(fn) -> SUBSET Universe(fn)]
    /\ \A b \in Blocks(fn) :
          /\ \A v \in in[b] : IsLive(fn, v, b)
          /\ \A v \in out[b] : \E s \in Succs(fn, b) : IsLive(fn, v, s)

(* The equations hold in the last blocks of the layout, from k on.       *)
LiveSettled(k) ==
    \A j \in 1..Len(fn.layout) : j > k =>
        /\ in[fn.layout[j]] = LiveInOf(fn, in, fn.layout[j])
        /\ out[fn.layout[j]] = LiveOutOf(fn, in, fn.layout[j])

LiveInv ==
    /\ fn \in Functions
    /\ LiveSound
    /\ phase = "liveness" => next \in 0..Len(fn.layout)
    /\ phase = "liveness" /\ ~changed => LiveSettled(next)
    /\ phase = "liveness" /\ pc = "done" => LiveSettled(0)
    /\ phase /= "liveness" => LiveSettled(0)

(* A function is a graph such as the lemmas about graphs assume.         *)
LEMMA FunctionIsFlowGraph ==
    ASSUME fn \in Functions
    PROVE  IsFlowGraph(fn)
  BY FunctionsAssumption DEF IsFlow, IsFlowGraph

(* What is known of the function that is analysed.                       *)
LEMMA FlowFacts ==
    ASSUME fn \in Functions
    PROVE  /\ fn.layout \in Seq(Blocks(fn)) /\ Len(fn.layout) \in Nat
           /\ DOMAIN fn.layout = 1..Len(fn.layout)
           /\ \A b \in Blocks(fn) : Succs(fn, b) \subseteq Blocks(fn)
           /\ \A b \in Blocks(fn) : \E k \in 1..Len(fn.layout) : fn.layout[k] = b
<1>1. /\ fn.layout \in Seq(Blocks(fn))
      /\ \A b \in Blocks(fn) : Succs(fn, b) \subseteq Blocks(fn)
  BY FunctionIsFlowGraph, FlowGraphIsCFG DEF IsCFG, IsFlowGraph
<1>2. Len(fn.layout) \in Nat /\ DOMAIN fn.layout = 1..Len(fn.layout)
  BY <1>1
<1> QED BY <1>1, <1>2 DEF Blocks, ToSet

(* What a visit of a block does.                                         *)
LEMMA LiveVisited ==
    ASSUME LiveInv, phase = "liveness", Live!VisitBlock
    PROVE  LET b == fn.layout[next]
           IN  /\ next \in 1..Len(fn.layout) /\ next' = next - 1 /\ fn' = fn
               /\ in' = [in EXCEPT ![b] = LiveInOf(fn, in, b)]
               /\ out' = [out EXCEPT ![b] = LiveOutOf(fn, in, b)]
               /\ changed' = (changed \/ in' /= in \/ out' /= out)
<1> DEFINE b == fn.layout[next]
<1>1. /\ next > 0 /\ next' = next - 1 /\ fn' = fn
      /\ in' = [in EXCEPT ![b] = Live!NewIn(b)] /\ out' = [out EXCEPT ![b] = Live!NewOut(b)]
      /\ changed' = (changed \/ in' /= in \/ out' /= out)
  BY DEF Live!VisitBlock
<1>2. Live!NewOut(b) = LiveOutOf(fn, in, b) /\ Live!NewIn(b) = LiveInOf(fn, in, b)
  BY LiveEquations
<1>3. next \in 1..Len(fn.layout)
  BY <1>1, FlowFacts DEF LiveInv
<1> QED BY <1>1, <1>2, <1>3

(* A visit of a block keeps the sets sound.                              *)
LEMMA LiveVisitSound ==
    ASSUME LiveInv, phase = "liveness", Live!VisitBlock
    PROVE  LiveSound'
<1> DEFINE b == fn.layout[next]
           U == SUBSET Universe(fn)
<1>1. /\ fn' = fn /\ next \in 1..Len(fn.layout)
      /\ in' = [in EXCEPT ![b] = LiveInOf(fn, in, b)] /\ out' = [out EXCEPT ![b] = LiveOutOf(fn, in, b)]
      /\ in \in [Blocks(fn) -> U] /\ out \in [Blocks(fn) -> U]
      /\ \A c \in Blocks(fn) : /\ \A v \in in[c] : IsLive(fn, v, c)
                               /\ \A v \in out[c] : \E s \in Succs(fn, c) : IsLive(fn, v, s)
  BY LiveVisited DEF LiveInv, LiveSound
<1>2. b \in Blocks(fn) /\ \A c \in Blocks(fn) : Succs(fn, c) \subseteq Blocks(fn)
  BY <1>1, FlowFacts DEF LiveInv
<1> HIDE DEF b
<1>3. ASSUME NEW v \in LiveOutOf(fn, in, b)
      PROVE  v \in Universe(fn) /\ \E s \in Succs(fn, b) : IsLive(fn, v, s)
  <2>1. PICK s \in Succs(fn, b) : v \in in[s]
    BY <1>3 DEF LiveOutOf
  <2> QED BY <1>1, <1>2, <2>1
<1>4. ASSUME NEW v \in LiveInOf(fn, in, b) PROVE v \in Universe(fn) /\ IsLive(fn, v, b)
  <2>1. CASE v \in UseSet(fn, b)
    BY <1>2, <2>1, LiveAtUse DEF UseSet
  <2>2. CASE v \in LiveOutOf(fn, in, b) \ DefSet(fn, b)
    BY <1>2, <1>3, <2>2, LiveBefore
  <2> QED BY <2>1, <2>2 DEF LiveInOf
<1>5. LiveInOf(fn, in, b) \in U /\ LiveOutOf(fn, in, b) \in U
  BY <1>3, <1>4
<1> HIDE DEF U
<1>6. /\ in' \in [Blocks(fn) -> U] /\ out' \in [Blocks(fn) -> U]
      /\ in'[b] = LiveInOf(fn, in, b) /\ out'[b] = LiveOutOf(fn, in, b)
      /\ \A c \in Blocks(fn) : c /= b => in'[c] = in[c] /\ out'[c] = out[c]
  BY <1>1, <1>2, <1>5
<1>7. \A c \in Blocks(fn) : /\ \A v \in in'[c] : IsLive(fn, v, c)
                            /\ \A v \in out'[c] : \E s \in Succs(fn, c) : IsLive(fn, v, s)
  BY <1>1, <1>3, <1>4, <1>6
<1> QED BY <1>1, <1>6, <1>7 DEF LiveSound, U

(* A round that has changed nothing so far has settled what it visited.  *)
LEMMA LiveVisitSettled ==
    ASSUME LiveInv, phase = "liveness", Live!VisitBlock
    PROVE  /\ next' \in 0..Len(fn'.layout)
           /\ ~changed' => LiveSettled(next)'
<1> DEFINE b == fn.layout[next]
<1>1. /\ fn' = fn /\ next \in 1..Len(fn.layout) /\ next' = next - 1 /\ Len(fn.layout) \in Nat
      /\ in' = [in EXCEPT ![b] = LiveInOf(fn, in, b)] /\ out' = [out EXCEPT ![b] = LiveOutOf(fn, in, b)]
      /\ DOMAIN in = Blocks(fn) /\ DOMAIN out = Blocks(fn)
      /\ changed' = (changed \/ in' /= in \/ out' /= out)
  BY LiveVisited, FlowFacts DEF LiveInv, LiveSound
<1>2. b \in Blocks(fn)
  BY <1>1, FlowFacts DEF LiveInv
<1>7. next' \in 0..Len(fn'.layout)
  BY <1>1
<1>3. SUFFICES ASSUME ~changed', NEW j \in 1..Len(fn.layout), j > next - 1
      PROVE  /\ in[fn.layout[j]] = LiveInOf(fn, in, fn.layout[j])
             /\ out[fn.layout[j]] = LiveOutOf(fn, in, fn.layout[j])
  BY <1>1, <1>7 DEF LiveSettled
<1>4. ~changed /\ in' = in /\ out' = out
  BY <1>1, <1>3
<1>5. CASE j = next
  BY <1>1, <1>2, <1>4, <1>5
<1>6. CASE j > next
  BY <1>4, <1>6 DEF LiveInv, LiveSettled
<1> QED BY <1>1, <1>3, <1>5, <1>6

(* computeLiveness: the invariant of its sets.                           *)
LEMMA LiveStep == LiveInv /\ [Next]_vars => LiveInv'
<1> SUFFICES ASSUME LiveInv, [Next]_vars PROVE LiveInv'
  OBVIOUS
<1>1. CASE LivenessStep
  <2>1. CASE Live!VisitBlock
    <3>1. phase = "liveness" /\ phase' = phase /\ pc' = "round" /\ fn' = fn
      BY <1>1, <2>1 DEF LivenessStep, Live!VisitBlock
    <3>2. LiveSound' /\ next' \in 0..Len(fn'.layout) /\ (~changed' => LiveSettled(next)')
      BY <2>1, <3>1, LiveVisitSound, LiveVisitSettled
    <3> QED BY <3>1, <3>2 DEF LiveInv
  <2>2. CASE Live!NextRound
    <3>1. /\ phase = "liveness" /\ phase' = phase /\ pc' = "round" /\ fn' = fn
          /\ next' = Len(fn.layout) /\ in' = in /\ out' = out
      BY <1>1, <2>2 DEF LivenessStep, Live!NextRound
    <3>2. LiveSound' /\ fn' \in Functions /\ next' \in 0..Len(fn'.layout)
      BY <3>1, FlowFacts DEF LiveInv, LiveSound
    <3>3. LiveSettled(next)'
      BY <3>1, <3>2, FlowFacts DEF LiveSettled, LiveInv
    <3> QED BY <3>1, <3>2, <3>3 DEF LiveInv
  <2>3. CASE Live!Return
    <3>1. /\ phase = "liveness" /\ phase' = phase /\ fn' = fn /\ next = 0 /\ ~changed
          /\ UNCHANGED <<in, out, next, changed>>
      BY <1>1, <2>3 DEF LivenessStep, Live!Return
    <3>2. LiveSettled(0) /\ LiveSound /\ fn \in Functions /\ next \in 0..Len(fn.layout)
      BY <3>1 DEF LiveInv
    <3> QED BY <3>1, <3>2 DEF LiveInv, LiveSound, LiveSettled
  <2> QED BY <1>1, <2>1, <2>2, <2>3 DEF LivenessStep, Live!Next
<1>2. CASE ReachingStep \/ DominatorsStep
  <2>1. phase /= "liveness" /\ UNCHANGED <<fn, in, out, phase>>
    BY <1>2 DEF ReachingStep, DominatorsStep, Reach!Next, Reach!VisitBlock, Reach!NextRound,
                Reach!Return, Dom!Next, Dom!VisitBlock, Dom!NextRound, Dom!StartIdoms,
                Dom!FindIdom, Dom!Return
  <2> QED BY <2>1 DEF LiveInv, LiveSound, LiveSettled
<1>3. CASE CallReaching \/ CallDominators
  <2>1. /\ phase' /= "liveness" /\ (phase = "liveness" => pc = "done")
        /\ UNCHANGED <<fn, in, out>>
    BY <1>3 DEF CallReaching, CallDominators, Call
  <2>2. LiveSettled(0)
    BY <2>1 DEF LiveInv
  <2> QED BY <2>1, <2>2 DEF LiveInv, LiveSound, LiveSettled
<1>4. CASE UNCHANGED vars
  BY <1>4 DEF vars, LiveInv, LiveSound, LiveSettled
<1> QED BY <1>1, <1>2, <1>3, <1>4 DEF Next

(* When the equations hold everywhere, a live value is in the set of     *)
(* every block on its path: backwards from the use.                      *)
LEMMA LiveComplete ==
    ASSUME LiveInv, LiveSettled(0), NEW b, NEW v, IsLive(fn, v, b)
    PROVE  v \in in[b]
<1>1. PICK p : /\ IsPath(fn, p) /\ p[1] = b /\ v \in UseSet(fn, p[Len(p)])
               /\ \A k \in 1..(Len(p) - 1) : v \notin DefSet(fn, p[k])
  BY DEF IsLive
<1>2. /\ p \in Seq(Blocks(fn)) /\ Len(p) \in Nat \ {0}
      /\ \A k \in 1..(Len(p) - 1) : p[k+1] \in Succs(fn, p[k])
      /\ \A k \in 1..Len(p) : p[k] \in Blocks(fn)
  BY <1>1 DEF IsPath
<1>3. \A c \in Blocks(fn) :
        /\ UseSet(fn, c) \subseteq in[c]
        /\ \A s \in Succs(fn, c) : in[s] \ DefSet(fn, c) \subseteq in[c]
  <2>1. \A j \in 1..Len(fn.layout) : in[fn.layout[j]] = LiveInOf(fn, in, fn.layout[j])
    BY FlowFacts DEF LiveSettled, LiveInv
  <2>2. \A c \in Blocks(fn) : in[c] = LiveInOf(fn, in, c)
    BY <2>1, FlowFacts DEF LiveInv
  <2> QED BY <2>2 DEF LiveInOf, LiveOutOf
<1> DEFINE T == {j \in 0..(Len(p) - 1) : v \notin in[p[Len(p) - j]]}
<1>4. T = {}
  <2> SUFFICES ASSUME T /= {} PROVE FALSE
    OBVIOUS
  <2>0. T \subseteq Nat
    BY <1>2
  <2>1. PICK j \in T : \A i \in T : j <= i
    BY <2>0, Least
  <2>2. j /= 0
    BY <1>1, <1>2, <1>3, <2>1
  <2>3. j - 1 \in 0..(Len(p) - 1) /\ j - 1 \notin T
    <3>1. j \in 0..(Len(p) - 1) /\ j - 1 \in 0..(Len(p) - 1) /\ ~(j <= j - 1)
      BY <1>2, <2>1, <2>2
    <3> HIDE DEF T
    <3> QED BY <2>1, <3>1
  <2> DEFINE k == Len(p) - j
  <2>4. k \in 1..(Len(p) - 1) /\ k + 1 = Len(p) - (j - 1) /\ k \in 1..Len(p)
    BY <1>2, <2>1, <2>2
  <2>5. v \in in[p[k+1]] /\ p[k+1] \in Succs(fn, p[k])
    BY <1>2, <2>3, <2>4
  <2>6. v \notin DefSet(fn, p[k]) /\ p[k] \in Blocks(fn)
    BY <1>1, <1>2, <2>4
  <2>7. v \in in[p[k]]
    BY <1>3, <2>5, <2>6
  <2> QED BY <2>1, <2>7
<1>5. Len(p) - 1 \in 0..(Len(p) - 1) /\ Len(p) - (Len(p) - 1) = 1
  BY <1>2
<1> QED BY <1>1, <1>4, <1>5

(* It holds when the call starts.                                        *)
LEMMA LiveInit == Init => LiveInv
<1> SUFFICES ASSUME Init PROVE LiveInv
  OBVIOUS
<1>1. /\ fn \in Functions /\ in = [b \in Blocks(fn) |-> {}] /\ out = [b \in Blocks(fn) |-> {}]
      /\ next = Len(fn.layout) /\ ~changed /\ pc = "round" /\ phase = "liveness"
  BY SameCFG DEF Init, Live!Init
<1>2. LiveSettled(next) /\ next \in 0..Len(fn.layout)
  BY <1>1, FlowFacts DEF LiveSettled
<1> QED BY <1>1, <1>2 DEF LiveInv, LiveSound
-----------------------------------------------------------------------------
(* What is known of the breadth-first order.                             *)
LEMMA SearchFacts ==
    ASSUME fn \in Functions, order = BreadthFirst(fn)
    PROVE  /\ order \in Seq(Blocks(fn)) /\ Len(order) \in Nat \ {0} /\ DOMAIN order = 1..Len(order)
           /\ order[1] = fn.entry /\ fn.entry \in ToSet(order) /\ ToSet(order) \subseteq Blocks(fn)
           /\ \A k \in 1..Len(order) : order[k] \in ToSet(order)
           /\ \A b \in ToSet(order) : \E k \in 1..Len(order) : order[k] = b
           /\ \A k \in 2..Len(order) : order[k] /= fn.entry
           /\ \A k \in 2..Len(order) : \E j \in 1..(k-1) : order[k] \in Succs(fn, order[j])
           /\ \A k \in 2..Len(order) : \E b \in ToSet(order) : order[k] \in Succs(fn, b)
           /\ \A b \in ToSet(order) : Succs(fn, b) \subseteq ToSet(order)
<1>1. /\ order \in Seq(Blocks(fn)) /\ order /= <<>> /\ order[1] = fn.entry /\ IsInjective(order)
      /\ \A b \in ToSet(order) : Succs(fn, b) \subseteq ToSet(order)
      /\ \A k \in 2..Len(order) : \E j \in 1..(k-1) : order[k] \in Succs(fn, order[j])
  <2>1. /\ IsSearchOrder(fn, Len(fn.layout), order)
        /\ \A b \in ToSet(order) : Succs(fn, b) \subseteq ToSet(order)
    BY FunctionIsFlowGraph, BreadthFirstIs
  <2> QED BY <2>1 DEF IsSearchOrder
<1>2. Len(order) \in Nat \ {0} /\ DOMAIN order = 1..Len(order)
  BY <1>1
<1>3. /\ \A k \in 1..Len(order) : order[k] \in ToSet(order) /\ order[k] \in Blocks(fn)
      /\ \A b \in ToSet(order) : \E k \in 1..Len(order) : order[k] = b
  BY <1>1, <1>2 DEF ToSet
<1>4. fn.entry \in ToSet(order) /\ ToSet(order) \subseteq Blocks(fn)
  BY <1>1, <1>2, <1>3
<1>5. \A k \in 2..Len(order) : order[k] /= fn.entry
  BY <1>1, <1>2 DEF IsInjective
<1>6. ASSUME NEW k \in 2..Len(order) PROVE \E b \in ToSet(order) : order[k] \in Succs(fn, b)
  <2>1. PICK j \in 1..(k-1) : order[k] \in Succs(fn, order[j])
    BY <1>1
  <2>2. j \in 1..Len(order)
    BY <1>2
  <2> QED BY <1>3, <2>1, <2>2
<1> QED BY <1>1, <1>2, <1>3, <1>4, <1>5, <1>6

(* It is a graph such as the lemmas about graphs assume.                 *)
LEMMA FlowIsCFG ==
    ASSUME fn \in Functions, order = BreadthFirst(fn)
    PROVE  IsCFG(fn) /\ fn.entry \in Blocks(fn)
  BY FunctionIsFlowGraph, FlowGraphIsCFG DEF IsFlowGraph

(* The search has listed every block of a path that starts in a listed   *)
(* one.                                                                  *)
LEMMA PathIsListed ==
    ASSUME fn \in Functions, order = BreadthFirst(fn),
           NEW p, IsPath(fn, p), p[1] \in ToSet(order), NEW n \in 1..Len(p)
    PROVE  p[n] \in ToSet(order)
<1>1. /\ Len(p) \in Nat \ {0}
      /\ \A k \in 1..(Len(p) - 1) : p[k+1] \in Succs(fn, p[k])
  BY DEF IsPath
<1> DEFINE T == {k \in 1..Len(p) : p[k] \notin ToSet(order)}
<1> SUFFICES ASSUME n \in T PROVE FALSE
  OBVIOUS
<1>2. T \subseteq Nat
  BY <1>1
<1>3. PICK k \in T : \A i \in T : k <= i
  BY <1>2, Least
<1>4. k - 1 \in 1..(Len(p) - 1) /\ (k - 1) + 1 = k /\ k - 1 \in 1..Len(p) /\ ~(k <= k - 1)
  BY <1>1, <1>3
<1>5. k - 1 \notin T
  <2> HIDE DEF T
  <2> QED BY <1>3, <1>4
<1>6. p[k-1] \in ToSet(order) /\ p[k] \in Succs(fn, p[k-1])
  BY <1>1, <1>4, <1>5
<1> QED BY <1>3, <1>6, SearchFacts

(* A block that the search has listed is on a path from the entry.       *)
LEMMA Reached ==
    ASSUME fn \in Functions, order = BreadthFirst(fn), NEW b \in ToSet(order)
    PROVE  \E p : IsPath(fn, p) /\ p[1] = fn.entry /\ p[Len(p)] = b
<1> DEFINE To(c) == \E p : IsPath(fn, p) /\ p[1] = fn.entry /\ p[Len(p)] = c
           T == {k \in 1..Len(order) : ~To(order[k])}
<1>1. PICK n \in 1..Len(order) : order[n] = b
  BY SearchFacts
<1> SUFFICES ASSUME n \in T PROVE FALSE
  BY <1>1
<1>2. T \subseteq Nat
  BY SearchFacts
<1>3. PICK k \in T : \A i \in T : k <= i
  BY <1>2, Least
<1>4. /\ k \in 1..Len(order) /\ order[k] \in Blocks(fn) /\ fn.entry \in Blocks(fn)
      /\ Len(order) \in Nat
  BY <1>3, SearchFacts
<1>5. k /= 1
  <2>1. To(fn.entry)
    BY <1>4, ShortestPath
  <2> QED BY <1>3, <2>1, SearchFacts
<1>6. k \in 2..Len(order)
  BY <1>4, <1>5
<1>7. PICK j \in 1..(k-1) : order[k] \in Succs(fn, order[j])
  BY <1>6, SearchFacts
<1>8. j \in 1..Len(order) /\ ~(k <= j)
  BY <1>4, <1>7
<1>9. To(order[j])
  <2>1. j \notin T
    <3> HIDE DEF T
    <3> QED BY <1>3, <1>8
  <2> QED BY <1>8, <2>1
<1>10. To(order[k])
  <2>1. PICK p : IsPath(fn, p) /\ p[1] = fn.entry /\ p[Len(p)] = order[j]
    BY <1>9
  <2> DEFINE q == Append(p, order[k])
  <2>2. /\ IsPath(fn, q) /\ Len(q) = Len(p) + 1 /\ q[Len(p) + 1] = order[k]
        /\ \A i \in 1..Len(p) : q[i] = p[i]
    BY <1>4, <1>7, <2>1, LongerBehind
  <2>3. Len(p) \in Nat \ {0}
    BY <2>1 DEF IsPath
  <2> HIDE DEF q
  <2>4. q[1] = fn.entry /\ q[Len(q)] = order[k]
    BY <2>1, <2>2, <2>3
  <2> QED BY <2>2, <2>4
<1> QED BY <1>3, <1>10
-----------------------------------------------------------------------------
(* The equation of computeDominators, as an operator of the sets.        *)
KnownPreds(f, o, b) == Preds(f, b) \cap ToSet(o)

DomOf(f, o, D, b) ==
    {b} \cup {a \in ToSet(o) : KnownPreds(f, o, b) /= {} /\ \A p \in KnownPreds(f, o, b) : a \in D[p]}

(* What computeDominators assigns to a block, in these terms.            *)
LEMMA DomEquation == \A b : Dom!NewDom(b) = DomOf(fn, order, dom, b)
  BY SameCFG DEF Dom!NewDom, Dom!Known, DomOf, KnownPreds, Dom!ToSet, ToSet

(* The sets of dominators, at every step: none is missing.               *)
DomSound ==
    /\ DOMAIN dom = ToSet(order) /\ dom[fn.entry] = {fn.entry}
    /\ \A a, b \in ToSet(order) : MustPass(fn, a, b) => a \in dom[b]

(* The equation holds in the blocks of the order before k.               *)
DomSettled(k) ==
    \A j \in 2..Len(order) : j < k => dom[order[j]] = DomOf(fn, order, dom, order[j])

DomInv ==
    /\ fn \in Functions /\ order = BreadthFirst(fn)
    /\ DomSound
    /\ phase = "dominators" /\ pc = "round" => next \in 2..(Len(order) + 1)
    /\ phase = "dominators" /\ pc = "round" /\ ~changed => DomSettled(next)
    /\ phase = "dominators" /\ pc /= "round" => DomSettled(Len(order) + 1)

(* A visit of a block drops no dominator.                                *)
LEMMA DomVisit ==
    ASSUME DomInv, phase = "dominators", Dom!VisitBlock
    PROVE  /\ DomSound' /\ next' \in 2..(Len(order') + 1)
           /\ ~changed' => DomSettled(next)'
<1> DEFINE b == order[next]
<1>1. /\ pc = "round" /\ next <= Len(order) /\ fn' = fn /\ order' = order /\ next' = next + 1
      /\ changed' = (changed \/ dom' /= dom) /\ dom' = [dom EXCEPT ![b] = DomOf(fn, order, dom, b)]
  <2>1. Dom!NewDom(b) = DomOf(fn, order, dom, b)
    BY DomEquation
  <2> QED BY <2>1 DEF Dom!VisitBlock
<1>2. next \in 2..Len(order) /\ Len(order) \in Nat \ {0}
  BY <1>1, SearchFacts DEF DomInv
<1>3. /\ b \in ToSet(order) /\ b \in Blocks(fn) /\ b /= fn.entry
      /\ \E c \in ToSet(order) : b \in Succs(fn, c)
  BY <1>2, SearchFacts DEF DomInv
<1>4. KnownPreds(fn, order, b) /= {} /\ \A c \in KnownPreds(fn, order, b) : b \in Succs(fn, c)
      /\ KnownPreds(fn, order, b) \subseteq ToSet(order)
  BY <1>3, SearchFacts DEF DomInv, KnownPreds, Preds
<1>5. ASSUME NEW a \in ToSet(order), MustPass(fn, a, b) PROVE a \in DomOf(fn, order, dom, b)
  <2>1. CASE a = b
    BY <2>1 DEF DomOf
  <2>2. CASE a /= b
    <3>1. \A c \in KnownPreds(fn, order, b) : MustPass(fn, a, c)
      BY <1>3, <1>4, <1>5, <2>2, MustPassBefore
    <3>2. \A c \in KnownPreds(fn, order, b) : a \in dom[c]
      BY <1>4, <3>1 DEF DomInv, DomSound
    <3> QED BY <1>4, <3>2 DEF DomOf
  <2> QED BY <2>1, <2>2
<1> HIDE DEF b
<1>6. DOMAIN dom' = ToSet(order) /\ dom'[b] = DomOf(fn, order, dom, b)
      /\ \A c \in ToSet(order) : c /= b => dom'[c] = dom[c]
  BY <1>1, <1>3 DEF DomInv, DomSound
<1>7. DomSound'
  BY <1>1, <1>3, <1>5, <1>6, SearchFacts DEF DomInv, DomSound
<1>8. next' \in 2..(Len(order') + 1)
  BY <1>1, <1>2
<1>9. ASSUME ~changed' PROVE DomSettled(next)'
  <2>1. ~changed /\ dom' = dom
    BY <1>1, <1>9
  <2>2. SUFFICES ASSUME NEW j \in 2..Len(order), j < next + 1
                 PROVE  dom[order[j]] = DomOf(fn, order, dom, order[j])
    BY <1>1, <2>1 DEF DomSettled
  <2>3. CASE j = next
    BY <1>6, <2>1, <2>3 DEF b
  <2>4. CASE j < next
    BY <1>1, <2>1, <2>4 DEF DomInv, DomSettled
  <2> QED BY <1>2, <2>2, <2>3, <2>4
<1> QED BY <1>7, <1>8, <1>9

(* computeDominators: the invariant of its sets.                         *)
LEMMA DomStep == DomInv /\ [Next]_vars => DomInv'
<1> SUFFICES ASSUME DomInv, [Next]_vars PROVE DomInv'
  OBVIOUS
<1>1. CASE LivenessStep \/ ReachingStep
  <2>1. /\ phase /= "dominators" /\ UNCHANGED <<fn, order, dom, phase>>
    BY <1>1 DEF LivenessStep, ReachingStep, Reach!Next, Reach!VisitBlock, Reach!NextRound,
                Reach!Return, Live!Next, Live!VisitBlock, Live!NextRound, Live!Return
  <2> QED BY <2>1 DEF DomInv, DomSound, DomSettled
<1>2. CASE DominatorsStep
  <2>1. phase = "dominators" /\ phase' = phase
    BY <1>2 DEF DominatorsStep
  <2>2. CASE Dom!VisitBlock
    <3>1. pc = "round" /\ pc' = pc /\ fn' = fn /\ order' = order
      BY <2>2 DEF Dom!VisitBlock
    <3> QED BY <2>1, <2>2, <3>1, DomVisit DEF DomInv
  <2>3. CASE Dom!NextRound
    <3>1. /\ pc' = pc /\ fn' = fn /\ order' = order /\ dom' = dom /\ next' = 2
          /\ Len(order) \in Nat \ {0} /\ pc = "round"
      BY <2>3, SearchFacts DEF Dom!NextRound, DomInv
    <3>2. DomSettled(next)'
      BY <3>1 DEF DomSettled
    <3>3. next' \in 2..(Len(order') + 1)
      BY <3>1
    <3> QED BY <3>1, <3>2, <3>3 DEF DomInv, DomSound
  <2>4. CASE Dom!StartIdoms
    <3>1. /\ pc' = "idoms" /\ fn' = fn /\ order' = order /\ dom' = dom
          /\ Len(order) \in Nat /\ next > Len(order) /\ DomSettled(next)
          /\ next \in 2..(Len(order) + 1)
      BY <2>1, <2>4, SearchFacts DEF Dom!StartIdoms, DomInv
    <3>2. next = Len(order) + 1
      BY <3>1
    <3>3. DomSettled(Len(order) + 1)'
      BY <3>1, <3>2 DEF DomSettled
    <3> QED BY <2>1, <3>1, <3>3 DEF DomInv, DomSound
  <2>5. CASE Dom!FindIdom \/ Dom!Return
    <3>1. /\ pc /= "round" /\ pc' /= "round" /\ UNCHANGED <<fn, order, dom>>
      BY <2>5 DEF Dom!FindIdom, Dom!Return
    <3> QED BY <2>1, <3>1 DEF DomInv, DomSound, DomSettled
  <2> QED BY <1>2, <2>2, <2>3, <2>4, <2>5 DEF DominatorsStep, Dom!Next
<1>3. CASE CallReaching \/ CallDominators
  <2>1. /\ UNCHANGED <<fn, order, dom>> /\ pc' = "round"
        /\ phase' = "dominators" => next' = 2
    BY <1>3 DEF CallReaching, CallDominators, Call
  <2>2. next' = 2 => DomSettled(next)' /\ next' \in 2..(Len(order') + 1)
    BY <2>1, SearchFacts DEF DomSettled, DomInv
  <2> QED BY <2>1, <2>2 DEF DomInv, DomSound
<1>4. CASE UNCHANGED vars
  BY <1>4 DEF vars, DomInv, DomSound, DomSettled
<1> QED BY <1>1, <1>2, <1>3, <1>4 DEF Next

(* When the equation holds everywhere, a member of dom[b] is met on every*)
(* path to b: forwards from the entry.                                   *)
LEMMA DomComplete ==
    ASSUME DomInv, DomSettled(Len(order) + 1), NEW b, NEW a \in dom[b]
    PROVE  MustPass(fn, a, b)
<1> SUFFICES ASSUME NEW p, IsPath(fn, p), p[1] = fn.entry, p[Len(p)] = b
             PROVE  \E k \in 1..Len(p) : p[k] = a
  BY DEF MustPass
<1>1. /\ Len(p) \in Nat \ {0}
      /\ \A k \in 1..(Len(p) - 1) : p[k+1] \in Succs(fn, p[k])
      /\ \A k \in 1..Len(p) : p[k] \in ToSet(order)
  <2>1. p[1] \in ToSet(order) /\ fn \in Functions /\ order = BreadthFirst(fn)
    BY SearchFacts DEF DomInv
  <2> QED BY <2>1, PathIsListed DEF IsPath
<1>2. \A c \in ToSet(order) : c /= fn.entry =>
          /\ \A x \in dom[c] : x = c \/ \A q \in KnownPreds(fn, order, c) : x \in dom[q]
  <2>1. \A j \in 2..Len(order) : dom[order[j]] = DomOf(fn, order, dom, order[j])
    BY SearchFacts DEF DomInv, DomSettled
  <2>2. SUFFICES ASSUME NEW c \in ToSet(order), c /= fn.entry, NEW x \in dom[c]
                 PROVE  x = c \/ \A q \in KnownPreds(fn, order, c) : x \in dom[q]
    OBVIOUS
  <2>3. PICK j \in 1..Len(order) : order[j] = c
    BY <2>2, SearchFacts DEF DomInv
  <2>4. j \in 2..Len(order)
    BY <2>2, <2>3, SearchFacts DEF DomInv
  <2>5. x \in DomOf(fn, order, dom, c)
    BY <2>1, <2>2, <2>3, <2>4
  <2> QED BY <2>5 DEF DomOf
<1> DEFINE MetBy(k, x) == \E i \in 1..k : p[i] = x
           T == {k \in 1..Len(p) : \E x \in dom[p[k]] : ~MetBy(k, x)}
<1>3. T = {}
  <2> SUFFICES ASSUME T /= {} PROVE FALSE
    OBVIOUS
  <2>1. T \subseteq Nat
    BY <1>1
  <2>2. PICK k \in T : \A i \in T : k <= i
    BY <2>1, Least
  <2>3. PICK x \in dom[p[k]] : \A i \in 1..k : p[i] /= x
    BY <2>2
  <2>4. k \in 1..Len(p) /\ p[k] /= x
    BY <1>1, <2>2, <2>3
  <2>5. p[k] /= fn.entry
    BY <2>3, <2>4 DEF DomInv, DomSound
  <2>6. k - 1 \in 1..(Len(p) - 1) /\ (k - 1) + 1 = k /\ k - 1 \in 1..Len(p) /\ ~(k <= k - 1)
        /\ 1..(k - 1) \subseteq 1..k
    BY <1>1, <2>4, <2>5
  <2>7. k - 1 \notin T
    <3> HIDE DEF T
    <3> QED BY <2>2, <2>6
  <2>8. p[k-1] \in KnownPreds(fn, order, p[k])
    <3>1. p[k] \in Succs(fn, p[k-1]) /\ p[k-1] \in ToSet(order) /\ p[k-1] \in Blocks(fn)
      BY <1>1, <2>6, SearchFacts DEF DomInv
    <3> QED BY <3>1 DEF KnownPreds, Preds
  <2>9. x \in dom[p[k-1]]
    BY <1>1, <1>2, <2>3, <2>4, <2>5, <2>8
  <2>10. PICK i \in 1..(k - 1) : p[i] = x
    BY <2>6, <2>7, <2>9
  <2> QED BY <2>3, <2>6, <2>10
<1>4. Len(p) \in 1..Len(p)
  BY <1>1
<1> QED BY <1>3, <1>4

(* It holds before the first call.                                       *)
LEMMA DomInit == Init => DomInv
<1> SUFFICES ASSUME Init PROVE DomInv
  OBVIOUS
<1>1. /\ fn \in Functions /\ order = BreadthFirst(fn) /\ phase = "liveness"
      /\ dom = [b \in ToSet(order) |-> IF b = fn.entry THEN {b} ELSE ToSet(order)]
  BY SameSearch DEF Init, Live!Init, Dom!InitSets, Dom!ToSet, ToSet
<1>2. fn.entry \in ToSet(order) /\ ToSet(order) \subseteq Blocks(fn)
  BY <1>1, SearchFacts
<1>3. ASSUME NEW a, MustPass(fn, a, fn.entry) PROVE a = fn.entry
  <2>1. IsPath(fn, <<fn.entry>>) /\ Len(<<fn.entry>>) = 1 /\ <<fn.entry>>[1] = fn.entry
    BY <1>2, ShortestPath
  <2>2. \E k \in 1..1 : <<fn.entry>>[k] = a
    BY <1>3, <2>1 DEF MustPass
  <2> QED BY <2>1, <2>2
<1> QED BY <1>1, <1>2, <1>3 DEF DomInv, DomSound
-----------------------------------------------------------------------------
(* The definitions that those of a block overwrite.                      *)
Killed(f, b) ==
    {d \in Universe(f) \ f.args :
        \E i \in DefSet(f, b) : i /= d /\ f.name[i] /= NoName /\ f.name[d] = f.name[i]}

(* A definition arrives at the end of b: on a path from its block, which *)
(* can be executed, no later block overwrites it.                        *)
Arrives(f, o, d, b) ==
    \E p : /\ IsPath(f, p) /\ p[1] \in ToSet(o) /\ p[Len(p)] = b
           /\ d \in DefSet(f, p[1])
           /\ \A k \in 2..Len(p) : d \notin Killed(f, p[k])

(* The equations of computeReaching, as operators of the sets.           *)
ReachInOf(f, R, b) == UNION {R[p] : p \in Preds(f, b)}

ReachOutOf(f, R, b) == DefSet(f, b) \cup (ReachInOf(f, R, b) \ Killed(f, b))

(* What computeReaching assigns to a block, in these terms.              *)
LEMMA ReachEquations ==
    \A b : /\ Reach!NewIn(b) = ReachInOf(fn, reachOut, b)
          /\ Reach!NewOut(b) = ReachOutOf(fn, reachOut, b)
<1>1. \A b : Reach!NewIn(b) = ReachInOf(fn, reachOut, b)
  BY SameCFG DEF Reach!NewIn, ReachInOf
<1>2. \A b : Reach!kill(b) = Killed(fn, b)
  BY SameIR DEF Reach!kill, Reach!gen, Killed, Reach!Universe, Universe, Reach!Instructions,
                Instructions, Reach!IsVoid, IsVoid
<1>3. \A b : Reach!gen(b) = DefSet(fn, b)
  BY SameIR DEF Reach!gen
<1> QED BY <1>1, <1>2, <1>3 DEF Reach!NewOut, ReachOutOf

(* The sets, at every step: no definition that does not arrive.          *)
ReachSound ==
    /\ DOMAIN reachIn = Blocks(fn) /\ DOMAIN reachOut = Blocks(fn)
    /\ \A b \in Blocks(fn) :
          /\ \A d \in reachOut[b] : Arrives(fn, order, d, b)
          /\ \A d \in reachIn[b] : \E q \in Preds(fn, b) : Arrives(fn, order, d, q)

(* The equations hold in the blocks of the order before k.               *)
ReachSettled(k) ==
    \A j \in 1..Len(order) : j < k =>
        /\ reachIn[order[j]] = ReachInOf(fn, reachOut, order[j])
        /\ reachOut[order[j]] = ReachOutOf(fn, reachOut, order[j])

ReachInv ==
    /\ fn \in Functions /\ order = BreadthFirst(fn)
    /\ ReachSound
    /\ phase = "reaching" => next \in 1..(Len(order) + 1)
    /\ phase = "reaching" /\ ~changed => ReachSettled(next)
    /\ phase = "reaching" /\ pc = "done" => ReachSettled(Len(order) + 1)
    /\ phase = "dominators" => ReachSettled(Len(order) + 1)

(* A definition that a block does not overwrite arrives at its end too.  *)
LEMMA ArrivesAfter ==
    ASSUME NEW f, NEW o, NEW d, NEW q, Arrives(f, o, d, q),
           NEW b \in Blocks(f), b \in Succs(f, q), d \notin Killed(f, b)
    PROVE  Arrives(f, o, d, b)
<1>1. PICK p : /\ IsPath(f, p) /\ p[1] \in ToSet(o) /\ p[Len(p)] = q
               /\ d \in DefSet(f, p[1])
               /\ \A k \in 2..Len(p) : d \notin Killed(f, p[k])
  BY DEF Arrives
<1> DEFINE r == Append(p, b)
<1>2. /\ IsPath(f, r) /\ Len(r) = Len(p) + 1 /\ r[Len(p) + 1] = b
      /\ \A k \in 1..Len(p) : r[k] = p[k]
  BY <1>1, LongerBehind
<1> HIDE DEF r
<1>3. Len(p) \in Nat \ {0}
  BY <1>1 DEF IsPath
<1>4. r[1] = p[1] /\ r[Len(r)] = b
  BY <1>2, <1>3
<1>5. ASSUME NEW k \in 2..Len(r) PROVE d \notin Killed(f, r[k])
  <2>1. k = Len(p) + 1 \/ (k \in 2..Len(p) /\ k \in 1..Len(p))
    BY <1>2, <1>3
  <2> QED BY <1>1, <1>2, <2>1
<1> QED BY <1>1, <1>2, <1>4, <1>5 DEF Arrives

(* A definition arrives at the end of its own block.                     *)
LEMMA ArrivesAtHome ==
    ASSUME NEW f, NEW o, NEW b \in Blocks(f), b \in ToSet(o), NEW d \in DefSet(f, b)
    PROVE  Arrives(f, o, d, b)
<1>1. IsPath(f, <<b>>) /\ Len(<<b>>) = 1 /\ <<b>>[1] = b
  BY ShortestPath
<1>2. \A k \in 2..Len(<<b>>) : d \notin Killed(f, <<b>>[k])
  BY <1>1
<1> QED BY <1>1, <1>2 DEF Arrives

(* A visit of a block adds only what arrives.                            *)
LEMMA ReachVisit ==
    ASSUME ReachInv, phase = "reaching", Reach!VisitBlock
    PROVE  /\ ReachSound' /\ next' \in 1..(Len(order') + 1)
           /\ ~changed' => ReachSettled(next)'
<1> DEFINE b == order[next]
<1>1. /\ pc = "round" /\ next <= Len(order) /\ fn' = fn /\ order' = order /\ next' = next + 1
      /\ changed' = (changed \/ reachOut' /= reachOut)
      /\ reachIn' = [reachIn EXCEPT ![b] = ReachInOf(fn, reachOut, b)]
      /\ reachOut' = [reachOut EXCEPT ![b] = ReachOutOf(fn, reachOut, b)]
  <2>1. /\ Reach!NewIn(b) = ReachInOf(fn, reachOut, b)
        /\ Reach!NewOut(b) = ReachOutOf(fn, reachOut, b)
    BY ReachEquations
  <2> QED BY <2>1 DEF Reach!VisitBlock
<1>2. next \in 1..Len(order) /\ Len(order) \in Nat \ {0}
  BY <1>1, SearchFacts DEF ReachInv
<1>3. b \in ToSet(order) /\ b \in Blocks(fn) /\ \A q \in Preds(fn, b) : q \in Blocks(fn) /\ b \in Succs(fn, q)
  BY <1>2, SearchFacts DEF ReachInv, Preds
<1>4. ASSUME NEW d \in ReachInOf(fn, reachOut, b)
      PROVE  \E q \in Preds(fn, b) : Arrives(fn, order, d, q)
  <2>1. PICK q \in Preds(fn, b) : d \in reachOut[q]
    BY <1>4 DEF ReachInOf
  <2> QED BY <1>3, <2>1 DEF ReachInv, ReachSound
<1>5. ASSUME NEW d \in ReachOutOf(fn, reachOut, b) PROVE Arrives(fn, order, d, b)
  <2>1. CASE d \in DefSet(fn, b)
    BY <1>3, <2>1, ArrivesAtHome
  <2>2. CASE d \in ReachInOf(fn, reachOut, b) \ Killed(fn, b)
    <3>1. PICK q \in Preds(fn, b) : Arrives(fn, order, d, q)
      BY <1>4, <2>2
    <3> QED BY <1>3, <2>2, <3>1, ArrivesAfter
  <2> QED BY <2>1, <2>2 DEF ReachOutOf
<1> HIDE DEF b
<1>6. /\ DOMAIN reachIn' = Blocks(fn) /\ DOMAIN reachOut' = Blocks(fn)
      /\ reachIn'[b] = ReachInOf(fn, reachOut, b) /\ reachOut'[b] = ReachOutOf(fn, reachOut, b)
      /\ \A c \in Blocks(fn) : c /= b => reachIn'[c] = reachIn[c] /\ reachOut'[c] = reachOut[c]
  BY <1>1, <1>3 DEF ReachInv, ReachSound
<1>7. ReachSound'
  BY <1>1, <1>4, <1>5, <1>6 DEF ReachInv, ReachSound
<1>8. next' \in 1..(Len(order') + 1)
  BY <1>1, <1>2
<1>9. ASSUME ~changed' PROVE ReachSettled(next)'
  <2>1. ~changed /\ reachOut' = reachOut
    BY <1>1, <1>9
  <2>2. SUFFICES ASSUME NEW j \in 1..Len(order), j < next + 1
                 PROVE  /\ reachIn'[order[j]] = ReachInOf(fn, reachOut, order[j])
                        /\ reachOut[order[j]] = ReachOutOf(fn, reachOut, order[j])
    BY <1>1, <2>1 DEF ReachSettled
  <2>3. order[j] \in Blocks(fn)
    BY SearchFacts DEF ReachInv
  <2>4. CASE order[j] = b
    BY <1>6, <2>1, <2>4
  <2>5. CASE order[j] /= b
    <3>1. j < next
      BY <1>2, <2>2, <2>5 DEF b
    <3>2. /\ reachIn[order[j]] = ReachInOf(fn, reachOut, order[j])
          /\ reachOut[order[j]] = ReachOutOf(fn, reachOut, order[j])
      BY <1>1, <2>1, <3>1 DEF ReachInv, ReachSettled
    <3> QED BY <1>6, <2>3, <2>5, <3>2
  <2> QED BY <2>4, <2>5
<1> QED BY <1>7, <1>8, <1>9

(* computeReaching: the invariant of its sets.                           *)
LEMMA ReachStep == ReachInv /\ [Next]_vars => ReachInv'
<1> SUFFICES ASSUME ReachInv, [Next]_vars PROVE ReachInv'
  OBVIOUS
<1>1. CASE LivenessStep
  <2>1. phase = "liveness" /\ UNCHANGED <<fn, order, reachIn, reachOut, phase>>
    BY <1>1 DEF LivenessStep, Live!Next, Live!VisitBlock, Live!NextRound, Live!Return
  <2> QED BY <2>1 DEF ReachInv, ReachSound
<1>2. CASE ReachingStep
  <2>1. phase = "reaching" /\ phase' = phase
    BY <1>2 DEF ReachingStep
  <2>2. CASE Reach!VisitBlock
    <3>1. pc = "round" /\ pc' = pc /\ fn' = fn /\ order' = order
      BY <2>2 DEF Reach!VisitBlock
    <3> QED BY <2>1, <2>2, <3>1, ReachVisit DEF ReachInv
  <2>3. CASE Reach!NextRound
    <3>1. /\ pc' = "round" /\ fn' = fn /\ order' = order /\ reachIn' = reachIn
          /\ reachOut' = reachOut /\ next' = 1 /\ Len(order) \in Nat \ {0}
      BY <2>3, SearchFacts DEF Reach!NextRound, ReachInv
    <3>2. ReachSettled(next)'
      BY <3>1 DEF ReachSettled
    <3>3. next' \in 1..(Len(order') + 1)
      BY <3>1
    <3> QED BY <2>1, <3>1, <3>2, <3>3 DEF ReachInv, ReachSound
  <2>4. CASE Reach!Return
    <3>1. /\ UNCHANGED <<fn, order, reachIn, reachOut, next, changed>>
          /\ Len(order) \in Nat /\ next > Len(order) /\ ReachSettled(next)
          /\ next \in 1..(Len(order) + 1)
      BY <2>1, <2>4, SearchFacts DEF Reach!Return, ReachInv
    <3>2. next = Len(order) + 1
      BY <3>1
    <3>3. ReachSettled(Len(order) + 1)' /\ ReachSettled(next)'
      BY <3>1, <3>2 DEF ReachSettled
    <3>4. next' \in 1..(Len(order') + 1)
      BY <3>1
    <3> QED BY <2>1, <3>1, <3>3, <3>4 DEF ReachInv, ReachSound
  <2> QED BY <1>2, <2>2, <2>3, <2>4 DEF ReachingStep, Reach!Next
<1>3. CASE DominatorsStep
  <2>1. phase = "dominators" /\ UNCHANGED <<fn, order, reachIn, reachOut, phase>>
    BY <1>3 DEF DominatorsStep, Dom!Next, Dom!VisitBlock, Dom!NextRound, Dom!StartIdoms,
                Dom!FindIdom, Dom!Return
  <2> QED BY <2>1 DEF ReachInv, ReachSound, ReachSettled
<1>4. CASE CallReaching
  <2>1. /\ UNCHANGED <<fn, order, reachIn, reachOut>> /\ phase' = "reaching" /\ pc' = "round"
        /\ next' = 1 /\ Len(order) \in Nat \ {0}
    BY <1>4, SearchFacts DEF CallReaching, Call, ReachInv
  <2>2. ReachSettled(next)' /\ next' \in 1..(Len(order') + 1)
    BY <2>1 DEF ReachSettled
  <2> QED BY <2>1, <2>2 DEF ReachInv, ReachSound
<1>5. CASE CallDominators
  <2>1. /\ UNCHANGED <<fn, order, reachIn, reachOut>> /\ phase' = "dominators"
        /\ ReachSettled(Len(order) + 1)
    BY <1>5 DEF CallDominators, Call, ReachInv
  <2> QED BY <2>1 DEF ReachInv, ReachSound, ReachSettled
<1>6. CASE UNCHANGED vars
  BY <1>6 DEF vars, ReachInv, ReachSound, ReachSettled
<1> QED BY <1>1, <1>2, <1>3, <1>4, <1>5, <1>6 DEF Next

(* When the equations hold everywhere, what arrives at the end of a block*)
(* is in its OUT: forwards from the definition.                          *)
LEMMA ReachComplete ==
    ASSUME ReachInv, ReachSettled(Len(order) + 1), NEW d, NEW b, Arrives(fn, order, d, b)
    PROVE  b \in ToSet(order) /\ d \in reachOut[b]
<1>1. PICK p : /\ IsPath(fn, p) /\ p[1] \in ToSet(order) /\ p[Len(p)] = b
               /\ d \in DefSet(fn, p[1])
               /\ \A k \in 2..Len(p) : d \notin Killed(fn, p[k])
  BY DEF Arrives
<1>2. /\ Len(p) \in Nat \ {0}
      /\ \A k \in 1..(Len(p) - 1) : p[k+1] \in Succs(fn, p[k])
      /\ \A k \in 1..Len(p) : p[k] \in ToSet(order) /\ p[k] \in Blocks(fn)
  BY <1>1, PathIsListed, SearchFacts DEF IsPath, ReachInv
<1>3. \A c \in ToSet(order) :
        /\ DefSet(fn, c) \subseteq reachOut[c]
        /\ \A q \in Preds(fn, c) : reachOut[q] \ Killed(fn, c) \subseteq reachOut[c]
  <2>1. \A j \in 1..Len(order) : reachOut[order[j]] = ReachOutOf(fn, reachOut, order[j])
    BY SearchFacts DEF ReachInv, ReachSettled
  <2>2. \A c \in ToSet(order) : reachOut[c] = ReachOutOf(fn, reachOut, c)
    BY <2>1, SearchFacts DEF ReachInv
  <2> QED BY <2>2 DEF ReachOutOf, ReachInOf
<1> DEFINE T == {k \in 1..Len(p) : d \notin reachOut[p[k]]}
<1>4. T = {}
  <2> SUFFICES ASSUME T /= {} PROVE FALSE
    OBVIOUS
  <2>1. T \subseteq Nat
    BY <1>2
  <2>2. PICK k \in T : \A i \in T : k <= i
    BY <2>1, Least
  <2>3. k /= 1
    BY <1>1, <1>2, <1>3, <2>2
  <2>4. k - 1 \in 1..(Len(p) - 1) /\ (k - 1) + 1 = k /\ k - 1 \in 1..Len(p) /\ ~(k <= k - 1)
        /\ k \in 2..Len(p) /\ k \in 1..Len(p)
    BY <1>2, <2>2, <2>3
  <2>5. k - 1 \notin T
    <3> HIDE DEF T
    <3> QED BY <2>2, <2>4
  <2>6. d \in reachOut[p[k-1]] /\ d \notin Killed(fn, p[k])
    BY <1>1, <2>4, <2>5
  <2>7. p[k-1] \in Preds(fn, p[k])
    BY <1>2, <2>4 DEF Preds
  <2>8. d \in reachOut[p[k]]
    BY <1>2, <1>3, <2>4, <2>6, <2>7
  <2> QED BY <2>2, <2>8
<1>5. Len(p) \in 1..Len(p)
  BY <1>2
<1> QED BY <1>1, <1>2, <1>4, <1>5

(* It holds before the first call.                                       *)
LEMMA ReachInit == Init => ReachInv
<1> SUFFICES ASSUME Init PROVE ReachInv
  OBVIOUS
<1>1. /\ fn \in Functions /\ order = BreadthFirst(fn) /\ phase = "liveness"
      /\ reachIn = [b \in Blocks(fn) |-> {}] /\ reachOut = [b \in Blocks(fn) |-> {}]
  BY SameSearch, SameCFG DEF Init, Live!Init, Reach!InitSets
<1> QED BY <1>1 DEF ReachInv, ReachSound
-----------------------------------------------------------------------------
(* The three invariants hold together, whichever call is running.        *)
IInv == LiveInv /\ ReachInv /\ DomInv

(* The inductive invariant of the three calls.                           *)
THEOREM InductiveInvariant == Spec => []IInv
<1>1. Init => IInv
  BY LiveInit, ReachInit, DomInit DEF IInv
<1>2. IInv /\ [Next]_vars => IInv'
  BY LiveStep, ReachStep, DomStep DEF IInv
<1> QED BY <1>1, <1>2, PTL DEF Spec

(* computeLiveness has returned.                                         *)
LivenessDone == phase /= "liveness" \/ pc = "done"

LivenessExact == \A b \in Blocks(fn) : \A v : v \in in[b] <=> IsLive(fn, v, b)

(* From then on IN is exactly what is live by paths, in every function.  *)
THEOREM LivenessIsExact == Spec => [](LivenessDone => LivenessExact)
<1>1. IInv => (LivenessDone => LivenessExact)
  BY LiveComplete DEF IInv, LiveInv, LiveSound, LivenessDone, LivenessExact
<1> QED BY InductiveInvariant, <1>1, PTL

(* computeReaching has returned.                                         *)
ReachingDone == phase = "dominators" \/ (phase = "reaching" /\ pc = "done")

ReachingExact ==
    \A b \in ToSet(order) : \A d :
        d \in reachIn[b] <=> \E q \in Preds(fn, b) : Arrives(fn, order, d, q)

(* From then on IN of every block that can be executed holds exactly the *)
(* definitions that arrive at the end of one of its predecessors.        *)
THEOREM ReachingIsExact == Spec => [](ReachingDone => ReachingExact)
<1>1. ASSUME IInv, ReachingDone, NEW b \in ToSet(order), NEW d
      PROVE  d \in reachIn[b] <=> \E q \in Preds(fn, b) : Arrives(fn, order, d, q)
  <2>1. ReachInv /\ ReachSettled(Len(order) + 1)
    BY <1>1 DEF IInv, ReachInv, ReachingDone
  <2>2. reachIn[b] = ReachInOf(fn, reachOut, b) /\ b \in Blocks(fn)
    BY <1>1, <2>1, SearchFacts DEF ReachSettled, ReachInv
  <2>3. d \in reachIn[b] => \E q \in Preds(fn, b) : Arrives(fn, order, d, q)
    BY <2>1, <2>2 DEF ReachInv, ReachSound
  <2>4. ASSUME NEW q \in Preds(fn, b), Arrives(fn, order, d, q) PROVE d \in reachIn[b]
    BY <2>1, <2>2, <2>4, ReachComplete DEF ReachInOf
  <2> QED BY <2>3, <2>4
<1>2. IInv => (ReachingDone => ReachingExact)
  BY <1>1 DEF ReachingExact
<1> QED BY InductiveInvariant, <1>2, PTL

(* The dominators are computed: only the immediate ones are left to find.*)
DominatorsDone == phase = "dominators" /\ pc /= "round"

DominatorsExact == \A a, b \in ToSet(order) : a \in dom[b] <=> MustPass(fn, a, b)

(* From then on the sets are exactly the blocks that no path from the    *)
(* entry can avoid, in every function.                                   *)
THEOREM DominatorsAreExact == Spec => [](DominatorsDone => DominatorsExact)
<1>1. IInv => (DominatorsDone => DominatorsExact)
  BY DomComplete DEF IInv, DomInv, DomSound, DominatorsDone, DominatorsExact
<1> QED BY InductiveInvariant, <1>1, PTL
-----------------------------------------------------------------------------
(* Under distinct names nothing is overwritten.                          *)
LEMMA NothingKilled ==
    ASSUME NEW f, UniqueNames(f), NEW b \in Blocks(f)
    PROVE  Killed(f, b) = {}
  BY DEF UniqueNames, Killed

(* The block of a live value must be passed on the way to where the value*)
(* is live, and is another block: backwards from the use.                *)
LEMMA LiveMustPass ==
    ASSUME fn \in Functions, order = BreadthFirst(fn), StrictSSA(fn),
           NEW b \in ToSet(order), NEW v, IsLive(fn, v, b), v \notin fn.args \cup TakenByPHI(fn)
    PROVE  LET home == BlockOf(fn.body, v)
           IN  /\ home \in Blocks(fn) /\ home /= b /\ v \in DefSet(fn, home)
               /\ MustPass(fn, home, b)
<1> DEFINE home == BlockOf(fn.body, v)
<1>1. PICK p : /\ IsPath(fn, p) /\ p[1] = b /\ v \in UseSet(fn, p[Len(p)])
               /\ \A k \in 1..(Len(p) - 1) : v \notin DefSet(fn, p[k])
  BY DEF IsLive
<1>2. /\ Len(p) \in Nat \ {0}
      /\ \A k \in 1..(Len(p) - 1) : p[k+1] \in Succs(fn, p[k])
      /\ \A k \in 1..Len(p) : p[k] \in ToSet(order) /\ p[k] \in Blocks(fn)
  <2>1. /\ Len(p) \in Nat \ {0}
        /\ \A k \in 1..(Len(p) - 1) : p[k+1] \in Succs(fn, p[k])
    BY <1>1 DEF IsPath
  <2>2. p[1] \in ToSet(order)
    BY <1>1
  <2>3. \A k \in 1..Len(p) : p[k] \in ToSet(order)
    BY ONLY <1>1, <2>2, PathIsListed, fn \in Functions, order = BreadthFirst(fn)
  <2>4. ToSet(order) \subseteq Blocks(fn)
    BY ONLY SearchFacts, fn \in Functions, order = BreadthFirst(fn)
  <2> QED BY <2>1, <2>3, <2>4
<1>3. Len(p) \in 1..Len(p) /\ 1 \in 1..Len(p)
  BY <1>2
<1>4. /\ home \in Blocks(fn) /\ home /= p[Len(p)] /\ v \in DefSet(fn, home)
      /\ MustPass(fn, home, p[Len(p)])
  <2>1. /\ home \in Blocks(fn) /\ home /= p[Len(p)] /\ v \in DefSet(fn, home)
        /\ Dominates(fn, home, p[Len(p)])
    BY <1>1, <1>2, <1>3 DEF StrictSSA
  <2>2. p[Len(p)] \in Blocks(fn)
    BY <1>2, <1>3
  <2> HIDE DEF home
  <2>3. MustPass(fn, home, p[Len(p)])
    BY ONLY <2>1, <2>2, FlowIsCFG, DominatesIsMustPass, fn \in Functions, order = BreadthFirst(fn)
  <2> QED BY <2>1, <2>3
<1> HIDE DEF home
<1>5. \A k \in 1..Len(p) : home /= p[k]
  <2>1. \A k \in 1..Len(p) : k = Len(p) \/ k \in 1..(Len(p) - 1)
    BY <1>2
  <2> QED BY <1>1, <1>4, <2>1
<1> DEFINE T == {j \in 0..(Len(p) - 1) : ~MustPass(fn, home, p[Len(p) - j])}
<1>6. T = {}
  <2> SUFFICES ASSUME T /= {} PROVE FALSE
    OBVIOUS
  <2>0. T \subseteq Nat
    BY <1>2
  <2>1. PICK j \in T : \A i \in T : j <= i
    BY <2>0, Least
  <2>2. j /= 0
    <3>1. Len(p) - 0 = Len(p)
      BY <1>2
    <3> QED BY <1>4, <2>1, <3>1
  <2>3. j - 1 \in 0..(Len(p) - 1) /\ j - 1 \notin T
    <3>1. j \in 0..(Len(p) - 1) /\ j - 1 \in 0..(Len(p) - 1) /\ ~(j <= j - 1)
      BY <1>2, <2>1, <2>2
    <3> HIDE DEF T
    <3> QED BY <2>1, <3>1
  <2> DEFINE k == Len(p) - j
  <2>4. k \in 1..(Len(p) - 1) /\ k + 1 = Len(p) - (j - 1) /\ k \in 1..Len(p) /\ k + 1 \in 1..Len(p)
    BY <1>2, <2>1, <2>2
  <2>5. MustPass(fn, home, p[k+1])
    BY <2>3, <2>4
  <2> HIDE DEF k
  <2>6. MustPass(fn, home, p[k])
    BY <1>2, <1>5, <2>4, <2>5, MustPassBefore
  <2> QED BY <2>1, <2>6 DEF k
<1>7. Len(p) - 1 \in 0..(Len(p) - 1) /\ Len(p) - (Len(p) - 1) = 1
  BY <1>2
<1>8. MustPass(fn, home, b) /\ home /= b
  BY <1>1, <1>3, <1>5, <1>6, <1>7
<1> QED BY <1>4, <1>8 DEF home

(* A value whose block must be passed on the way to b arrives at the end *)
(* of a predecessor of b: forwards from its block.                       *)
LEMMA PassedArrives ==
    ASSUME fn \in Functions, order = BreadthFirst(fn), StrictSSA(fn),
           NEW b \in ToSet(order), NEW a \in Blocks(fn), MustPass(fn, a, b), a /= b,
           NEW d \in DefSet(fn, a)
    PROVE  a \in ToSet(order) /\ \E q \in Preds(fn, b) : Arrives(fn, order, d, q)
<1>1. PICK p : IsPath(fn, p) /\ p[1] = fn.entry /\ p[Len(p)] = b
  BY Reached
<1>2. PICK n \in 1..Len(p) : p[n] = a
  BY <1>1 DEF MustPass
<1>3. /\ Len(p) \in Nat \ {0} /\ p[1] \in ToSet(order)
      /\ \A k \in 1..(Len(p) - 1) : p[k+1] \in Succs(fn, p[k])
  BY <1>1, SearchFacts DEF IsPath
<1>4. \A k \in 1..Len(p) : p[k] \in ToSet(order) /\ p[k] \in Blocks(fn)
  BY <1>1, <1>3, PathIsListed, SearchFacts
<1>5. n \in 1..(Len(p) - 1) /\ Len(p) - 1 \in n..(Len(p) - 1)
  BY <1>1, <1>2, <1>3
<1> DEFINE T == {k \in n..(Len(p) - 1) : ~Arrives(fn, order, d, p[k])}
<1>6. T = {}
  <2> SUFFICES ASSUME T /= {} PROVE FALSE
    OBVIOUS
  <2>1. T \subseteq Nat
    BY <1>3, <1>5
  <2>2. PICK k \in T : \A i \in T : k <= i
    BY <2>1, Least
  <2>3. k /= n
    BY <1>2, <1>4, <2>2, ArrivesAtHome
  <2>4. /\ k - 1 \in n..(Len(p) - 1) /\ k - 1 \in 1..(Len(p) - 1) /\ (k - 1) + 1 = k
        /\ ~(k <= k - 1) /\ k \in 1..Len(p)
    BY <1>3, <1>5, <2>2, <2>3
  <2>5. k - 1 \notin T
    <3> HIDE DEF T
    <3> QED BY <2>2, <2>4
  <2>6. Arrives(fn, order, d, p[k-1]) /\ p[k] \in Succs(fn, p[k-1])
    BY <1>3, <2>4, <2>5
  <2>7. p[k] \in Blocks(fn) /\ d \notin Killed(fn, p[k])
    BY <1>4, <2>4, NothingKilled DEF StrictSSA
  <2> QED BY <2>2, <2>6, <2>7, ArrivesAfter
<1>7. (Len(p) - 1) + 1 = Len(p) /\ Len(p) - 1 \in 1..(Len(p) - 1) /\ Len(p) - 1 \in 1..Len(p)
  BY <1>3, <1>5
<1>8. p[Len(p) - 1] \in Preds(fn, b) /\ Arrives(fn, order, d, p[Len(p) - 1])
  BY <1>1, <1>3, <1>4, <1>5, <1>6, <1>7 DEF Preds
<1> QED BY <1>2, <1>4, <1>8

(* The three analyses agree on every function in SSA form: a value that  *)
(* is live at the start of a block has been computed whenever control    *)
(* gets there, so its definition reaches the block and its own block     *)
(* dominates it.                                                         *)
THEOREM LiveValuesAreComputed ==
    ASSUME \A f \in Functions : StrictSSA(f)
    PROVE  Spec => []LiveValuesAreDefined
<1>1. ASSUME IInv, phase = "dominators", pc = "done", NEW b \in ToSet(order),
             NEW v \in in[b] \ (fn.args \cup TakenByPHI(fn))
      PROVE  v \in reachIn[b] /\ BlockOf(fn.body, v) \in dom[b]
  <2>1. /\ fn \in Functions /\ order = BreadthFirst(fn) /\ StrictSSA(fn)
        /\ LiveInv /\ ReachInv /\ DomInv /\ b \in Blocks(fn)
    BY <1>1, SearchFacts DEF IInv, DomInv
  <2>2. IsLive(fn, v, b)
    BY <1>1, <2>1 DEF LiveInv, LiveSound
  <2> DEFINE home == BlockOf(fn.body, v)
  <2>3. /\ home \in Blocks(fn) /\ home /= b /\ v \in DefSet(fn, home)
        /\ MustPass(fn, home, b)
    BY <2>1, <2>2, <1>1, LiveMustPass
  <2> HIDE DEF home
  <2>4. home \in ToSet(order) /\ \E q \in Preds(fn, b) : Arrives(fn, order, v, q)
    BY <2>1, <2>3, PassedArrives
  <2>5. home \in dom[b]
    BY <2>1, <2>3, <2>4 DEF DomInv, DomSound
  <2>6. ReachSettled(Len(order) + 1)
    BY <1>1, <2>1 DEF ReachInv
  <2>7. reachIn[b] = ReachInOf(fn, reachOut, b)
    BY <2>1, <2>6, SearchFacts DEF ReachSettled
  <2>8. v \in reachIn[b]
    BY <2>1, <2>4, <2>6, <2>7, ReachComplete DEF ReachInOf
  <2> QED BY <2>5, <2>8 DEF home
<1>2. IInv => LiveValuesAreDefined
  BY <1>1 DEF LiveValuesAreDefined
<1> QED BY InductiveInvariant, <1>2, PTL
-----------------------------------------------------------------------------
(* The properties as the runs state them, by what can be reached.        *)

(* What Liveness calls live at the start of a block is live by paths.    *)
LEMMA LiveAtStartIsLive ==
    ASSUME fn \in Functions, NEW b \in Blocks(fn)
    PROVE  Live!LiveAtStart(b) = {v \in Universe(fn) : IsLive(fn, v, b)}
<1>1. \A v : Live!DefBlocks(v) = DefinesIn(fn, v)
  BY SameCFG, SameIR DEF Live!DefBlocks, DefinesIn
<1>2. \A v : {u \in Live!Blocks(fn) : v \in Live!UseSet(fn, u)} = ReadsIn(fn, v)
  BY SameCFG, SameIR DEF ReadsIn
<1>3. Live!Universe(fn) = Universe(fn)
  BY DEF Live!Universe, Universe, Live!Instructions, Instructions, Live!IsVoid, IsVoid
<1>4. \A v : Live!ReachesReader(b, v, ReadsIn(fn, v)) <=>
                \/ b \in ReadsIn(fn, v)
                \/ \E t \in ReachableFrom(fn, {b}, DefinesIn(fn, v)) : Succs(fn, t) \cap ReadsIn(fn, v) /= {}
  BY <1>1, SameReach, SameCFG DEF Live!ReachesReader
<1>5. IsCFG(fn)
  BY FlowFacts DEF IsCFG
<1>6. \A v : Live!ReachesReader(b, v, ReadsIn(fn, v)) <=> IsLive(fn, v, b)
  BY <1>4, <1>5, LiveIsReachingReader
<1> QED BY <1>2, <1>3, <1>6 DEF Live!LiveAtStart

(* While computeLiveness runs, nothing in a set is not live.             *)
THEOREM LivenessIsSound == Spec => []NeverTooMuch
<1>1. ASSUME LiveInv, NEW b \in Blocks(fn)
      PROVE  /\ in[b] \subseteq Live!LiveAtStart(b)
             /\ out[b] \subseteq UNION {Live!LiveAtStart(s) : s \in Succs(fn, b)}
  <2>1. fn \in Functions /\ LiveSound /\ Succs(fn, b) \subseteq Blocks(fn)
    BY <1>1, FlowFacts DEF LiveInv
  <2>2. \A c \in Blocks(fn) : Live!LiveAtStart(c) = {v \in Universe(fn) : IsLive(fn, v, c)}
    BY <2>1, LiveAtStartIsLive
  <2>3. in[b] \subseteq Universe(fn) /\ out[b] \subseteq Universe(fn)
    BY <2>1 DEF LiveSound
  <2> QED BY <2>1, <2>2, <2>3 DEF LiveSound
<1>2. LiveInv => NeverTooMuch
  <2>1. LiveInv => Live!NeverTooMuch
    BY <1>1, SameCFG DEF Live!NeverTooMuch
  <2> QED BY <2>1 DEF NeverTooMuch
<1>3. IInv => NeverTooMuch
  BY <1>2 DEF IInv
<1> QED BY InductiveInvariant, <1>3, PTL

(* When it returns, IN and OUT are exactly what is live by paths, and    *)
(* what the schedulers are given as LiveIn and LiveOut.                  *)
THEOREM LivenessIsLeastSolution == Spec => []ResultIsLiveness
<1>1. ASSUME IInv, phase = "liveness", pc = "done"
      PROVE  /\ in = [b \in Blocks(fn) |-> Live!LiveAtStart(b)]
             /\ in = LiveIn(fn)
             /\ out = LiveOut(fn)
  <2>1. LiveInv /\ LiveSettled(0) /\ LiveSound /\ fn \in Functions
    BY <1>1 DEF IInv, LiveInv
  <2>2. ASSUME NEW b \in Blocks(fn) PROVE in[b] = {v \in Universe(fn) : IsLive(fn, v, b)}
    <3>1. \A v \in in[b] : v \in Universe(fn) /\ IsLive(fn, v, b)
      BY <2>1 DEF LiveSound
    <3>2. \A v : IsLive(fn, v, b) => v \in in[b]
      BY <2>1, LiveComplete
    <3> QED BY <3>1, <3>2
  <2>3. in = [b \in Blocks(fn) |-> in[b]] /\ out = [b \in Blocks(fn) |-> out[b]]
    BY <2>1 DEF LiveSound
  <2>4. in = [b \in Blocks(fn) |-> {v \in Universe(fn) : IsLive(fn, v, b)}]
    BY <2>2, <2>3
  <2>5. in = LiveIn(fn)
    <3>1. IsCFG(fn)
      BY <2>1, FlowFacts DEF IsCFG
    <3> QED BY <2>4, <3>1, LiveInIsLive
  <2>6. in = [b \in Blocks(fn) |-> Live!LiveAtStart(b)]
    BY <2>1, <2>4, LiveAtStartIsLive
  <2>7. ASSUME NEW b \in Blocks(fn) PROVE out[b] = UNION {in[s] : s \in Succs(fn, b)}
    <3>1. PICK j \in 1..Len(fn.layout) : fn.layout[j] = b
      BY <2>1, FlowFacts
    <3>2. j > 0
      BY <2>1, <3>1, FlowFacts
    <3> QED BY <2>1, <3>1, <3>2 DEF LiveSettled, LiveOutOf
  <2>8. out = LiveOut(fn)
    BY <2>3, <2>5, <2>7 DEF LiveOut
  <2> QED BY <2>5, <2>6, <2>8
<1>2. IInv => ResultIsLiveness
  BY <1>1, SameCFG, SameLiveness DEF ResultIsLiveness, Live!ResultIsLiveness
<1> QED BY InductiveInvariant, <1>2, PTL

(* The search lists what can be executed.                                *)
LEMMA ListedIsReachable ==
    ASSUME fn \in Functions, order = BreadthFirst(fn)
    PROVE  ToSet(order) = Reachable(fn)
<1>1. \A b : b \in Reachable(fn) <=> PathTo(fn, {fn.entry}, {}, b)
  BY FlowIsCFG, ReachableIsPathTo DEF Reachable
<1>2. ASSUME NEW b \in ToSet(order) PROVE PathTo(fn, {fn.entry}, {}, b)
  BY Reached DEF PathTo
<1>3. ASSUME NEW b, PathTo(fn, {fn.entry}, {}, b) PROVE b \in ToSet(order)
  <2>1. PICK p : IsPath(fn, p) /\ p[1] = fn.entry /\ p[Len(p)] = b
    BY <1>3 DEF PathTo
  <2>2. Len(p) \in 1..Len(p) /\ p[1] \in ToSet(order)
    BY <2>1, SearchFacts DEF IsPath
  <2> QED BY <2>1, <2>2, PathIsListed
<1> QED BY <1>1, <1>2, <1>3

(* When no name is used twice, a definition arrives at the end of a      *)
(* predecessor of b if and only if control can leave its block and come  *)
(* to b.                                                                 *)
LEMMA ArrivesIfReaches ==
    ASSUME fn \in Functions, order = BreadthFirst(fn), UniqueNames(fn),
           NEW b \in ToSet(order), NEW d
    PROVE  (\E q \in Preds(fn, b) : Arrives(fn, order, d, q)) <=>
               /\ d \in Universe(fn) \ fn.args
               /\ \E home \in Reachable(fn) : /\ d \in DefSet(fn, home)
                                              /\ b \in ReachableFrom(fn, Succs(fn, home), {})
<1>1. /\ IsCFG(fn) /\ ToSet(order) = Reachable(fn) /\ ToSet(order) \subseteq Blocks(fn) /\ b \in Blocks(fn)
      /\ \A c \in Blocks(fn) : Succs(fn, c) \subseteq Blocks(fn)
  BY FlowIsCFG, ListedIsReachable, SearchFacts, FlowFacts
<1>2. \A c \in Blocks(fn) : \A x : x \in ReachableFrom(fn, Succs(fn, c), {}) <=> PathTo(fn, Succs(fn, c), {}, x)
  BY <1>1, ReachableIsPathTo
<1>3. ASSUME NEW q \in Preds(fn, b), Arrives(fn, order, d, q)
      PROVE  /\ d \in Universe(fn) \ fn.args
             /\ \E home \in Reachable(fn) : /\ d \in DefSet(fn, home)
                                            /\ b \in ReachableFrom(fn, Succs(fn, home), {})
  <2>1. PICK p : /\ IsPath(fn, p) /\ p[1] \in ToSet(order) /\ p[Len(p)] = q /\ d \in DefSet(fn, p[1])
    BY <1>3 DEF Arrives
  <2>2. Len(p) \in Nat \ {0} /\ b \in Succs(fn, p[Len(p)])
    BY <2>1 DEF IsPath, Preds
  <2> DEFINE r == Append(p, b)
  <2>3. /\ IsPath(fn, r) /\ Len(r) = Len(p) + 1 /\ r[Len(p) + 1] = b
        /\ \A k \in 1..Len(p) : r[k] = p[k]
    BY <1>1, <2>1, <2>2, LongerBehind
  <2> HIDE DEF r
  <2> DEFINE t == Tail(r)
  <2>4. /\ IsPath(fn, t) /\ Len(t) = Len(r) - 1
        /\ \A i \in 1..(Len(r) - 1) : t[i] = r[i+1]
    <3>1. Len(r) /= 1
      BY <2>2, <2>3
    <3> QED BY <2>3, <3>1, PathAfterFirst
  <2> HIDE DEF t
  <2>5. t[1] = r[1+1] /\ t[Len(t)] = b
    <3>1. 1 \in 1..(Len(r) - 1) /\ Len(p) \in 1..(Len(r) - 1) /\ Len(t) = Len(p)
      BY <2>2, <2>3, <2>4
    <3> QED BY <2>3, <2>4, <3>1
  <2>6. t[1] \in Succs(fn, p[1])
    <3>1. 1 \in 1..(Len(r) - 1) /\ 1 \in 1..Len(p)
      BY <2>2, <2>3
    <3>2. r[1+1] \in Succs(fn, r[1]) /\ r[1] = p[1]
      BY <2>3, <3>1 DEF IsPath
    <3> QED BY <2>5, <3>2
  <2>7. PathTo(fn, Succs(fn, p[1]), {}, b)
    BY <2>4, <2>5, <2>6 DEF PathTo
  <2>8. p[1] \in Blocks(fn) /\ d \in Universe(fn) \ fn.args
    BY <1>1, <2>1 DEF UniqueNames, DefSet
  <2> QED BY <1>1, <1>2, <2>1, <2>7, <2>8
<1>4. ASSUME NEW home \in Reachable(fn), d \in DefSet(fn, home),
             b \in ReachableFrom(fn, Succs(fn, home), {})
      PROVE  \E q \in Preds(fn, b) : Arrives(fn, order, d, q)
  <2>1. home \in Blocks(fn) /\ PathTo(fn, Succs(fn, home), {}, b)
    BY <1>1, <1>2, <1>4
  <2>2. PICK p : IsPath(fn, p) /\ p[1] \in Succs(fn, home) /\ p[Len(p)] = b
    BY <2>1 DEF PathTo
  <2>3. Len(p) \in Nat \ {0}
    BY <2>2 DEF IsPath
  <2> DEFINE r == <<home>> \o p
  <2>4. /\ IsPath(fn, r) /\ Len(r) = Len(p) + 1 /\ r[1] = home
        /\ \A k \in 1..Len(p) : r[k+1] = p[k]
    BY <2>1, <2>2, LongerInFront
  <2> HIDE DEF r
  <2> DEFINE n == Len(p)
             s == SubSeq(r, 1, n)
  <2>5. IsPath(fn, s) /\ Len(s) = n /\ \A i \in 1..n : s[i] = r[i]
    <3>1. n \in 1..Len(r)
      BY <2>3, <2>4
    <3> HIDE DEF n
    <3> QED BY <2>4, <3>1, PathBegins DEF IsBeginning
  <2> HIDE DEF s
  <2>6. s[1] = home /\ s[Len(s)] = r[n]
    BY <2>3, <2>4, <2>5
  <2>7. r[n] \in Preds(fn, b)
    <3>1. n \in 1..(Len(r) - 1) /\ n \in 1..Len(p) /\ n \in 1..n
      BY <2>3, <2>4
    <3>2. r[n+1] \in Succs(fn, r[n]) /\ r[n+1] = b
      BY <2>2, <2>4, <3>1 DEF IsPath
    <3>3. r[n] \in Blocks(fn)
      BY <2>5, <3>1 DEF IsPath
    <3> QED BY <3>2, <3>3 DEF Preds
  <2>8. \A k \in 2..Len(s) : d \notin Killed(fn, s[k])
    <3> TAKE k \in 2..Len(s)
    <3>1. s[k] \in Blocks(fn)
      <4>1. k \in 1..Len(s)
        BY <2>3, <2>5
      <4> QED BY <2>5, <4>1 DEF IsPath
    <3> QED BY <3>1, NothingKilled
  <2>9. Arrives(fn, order, d, r[n])
    BY <1>1, <1>4, <2>5, <2>6, <2>8 DEF Arrives
  <2> QED BY <2>7, <2>9
<1> QED BY <1>3, <1>4

(* When computeReaching returns, IN of every block that can be executed  *)
(* holds exactly the definitions from whose block control can get there; *)
(* in particular unnamed values do not overwrite one another.            *)
THEOREM ReachingIsReachability ==
    ASSUME \A f \in Functions : UniqueNames(f)
    PROVE  Spec => []ResultIsReaching
<1>1. ASSUME IInv, ReachingDone => ReachingExact, phase = "reaching", pc = "done",
             NEW b \in ToSet(order)
      PROVE  reachIn[b] = {d \in Universe(fn) \ fn.args :
                              \E home \in Reachable(fn) :
                                  /\ d \in DefSet(fn, home)
                                  /\ b \in ReachableFrom(fn, Succs(fn, home), {})}
  <2>1. fn \in Functions /\ order = BreadthFirst(fn) /\ UniqueNames(fn)
    BY <1>1 DEF IInv, DomInv
  <2>2. \A d : d \in reachIn[b] <=> \E q \in Preds(fn, b) : Arrives(fn, order, d, q)
    BY <1>1 DEF ReachingDone, ReachingExact
  <2>3. \A d : d \in reachIn[b] <=>
               /\ d \in Universe(fn) \ fn.args
               /\ \E home \in Reachable(fn) : /\ d \in DefSet(fn, home)
                                              /\ b \in ReachableFrom(fn, Succs(fn, home), {})
    BY <2>1, <2>2, ArrivesIfReaches
  <2> QED BY <2>3
<1>2. \A d, b : Reach!Reaches(d, b) <=>
          \E home \in Reachable(fn) : d \in DefSet(fn, home) /\ b \in ReachableFrom(fn, Succs(fn, home), {})
  <2>1. \A b : Reach!Succs(fn, b) = Succs(fn, b)
    BY DEF Reach!Succs, Succs, Reach!ToSet, ToSet
  <2> QED BY <2>1, SameReach, SameIR DEF Reach!Reaches, Reach!gen
<1>3. Reach!Universe(fn) = Universe(fn) /\ Reach!ToSet(order) = ToSet(order)
  BY DEF Reach!Universe, Universe, Reach!Instructions, Instructions, Reach!IsVoid, IsVoid,
         Reach!ToSet, ToSet
<1>4. IInv /\ (ReachingDone => ReachingExact) => ResultIsReaching
  BY <1>1, <1>2, <1>3 DEF ResultIsReaching, Reach!ResultIsReaching
<1> QED BY InductiveInvariant, ReachingIsExact, <1>4, PTL

(* When the sets of computeDominators are final they are dominance.      *)
THEOREM DominatorsAreDominance == Spec => []ResultIsDominance
<1>1. ASSUME IInv, DominatorsDone => DominatorsExact, DominatorsDone, NEW b \in ToSet(order)
      PROVE  dom[b] = {a \in Blocks(fn) : Dominates(fn, a, b)}
  <2>1. /\ fn \in Functions /\ order = BreadthFirst(fn) /\ DomInv
        /\ \A a \in ToSet(order) : a \in dom[b] <=> MustPass(fn, a, b)
        /\ DomSettled(Len(order) + 1)
    BY <1>1 DEF IInv, DomInv, DominatorsExact, DominatorsDone
  <2>2. b \in Blocks(fn) /\ ToSet(order) \subseteq Blocks(fn)
    BY <2>1, SearchFacts
  <2>3. \A a : Dominates(fn, a, b) <=> MustPass(fn, a, b)
    BY <2>1, <2>2, FlowIsCFG, DominatesIsMustPass
  <2>4. ASSUME NEW a, MustPass(fn, a, b) PROVE a \in ToSet(order)
    <3>1. PICK p : IsPath(fn, p) /\ p[1] = fn.entry /\ p[Len(p)] = b
      BY <2>1, Reached
    <3>2. PICK k \in 1..Len(p) : p[k] = a
      BY <2>4, <3>1 DEF MustPass
    <3>3. p[1] \in ToSet(order)
      BY <2>1, <3>1, SearchFacts
    <3> QED BY <2>1, <3>1, <3>2, <3>3, PathIsListed
  <2>5. \A a \in dom[b] : MustPass(fn, a, b)
    BY <2>1, DomComplete
  <2> QED BY <2>1, <2>2, <2>3, <2>4, <2>5
<1>2. \A b : Dom!Dominators(b) = {a \in Blocks(fn) : Dominates(fn, a, b)}
  BY SameReach, SameCFG DEF Dom!Dominators
<1>3. Dom!ToSet(order) = ToSet(order)
  BY DEF Dom!ToSet, ToSet
<1>4. IInv /\ (DominatorsDone => DominatorsExact) => ResultIsDominance
  <2> SUFFICES ASSUME IInv, DominatorsDone => DominatorsExact, phase = "dominators",
                      pc \in {"idoms", "done"}
               PROVE  \A b \in ToSet(order) : dom[b] = {a \in Blocks(fn) : Dominates(fn, a, b)}
    BY <1>2, <1>3 DEF ResultIsDominance, Dom!ResultIsDominance
  <2>1. DominatorsDone
    BY DEF DominatorsDone
  <2> QED BY <1>1, <2>1
<1> QED BY InductiveInvariant, DominatorsAreExact, <1>4, PTL
-----------------------------------------------------------------------------
(* The immediate dominators of the blocks of the order before k.         *)
IdomSettled(k) ==
    \A j \in 2..Len(order) : j < k => IsNearest(fn, idom[order[j]], order[j])

IdomInv ==
    /\ DOMAIN idom = ToSet(order) /\ idom[fn.entry] = Dom!NoBlock
    /\ phase = "dominators" /\ pc = "idoms" => next \in 2..(Len(order) + 1) /\ IdomSettled(next)
    /\ phase = "dominators" /\ pc = "done" => IdomSettled(Len(order) + 1)

(* The search for the strict dominator that dominates no other finds the *)
(* one that all the others dominate.                                     *)
LEMMA ClosestIsNearest ==
    ASSUME fn \in Functions, order = BreadthFirst(fn), DomInv, DominatorsExact,
           DomSettled(Len(order) + 1), NEW b \in ToSet(order), b /= fn.entry
    PROVE  /\ Dom!Closest(b) \subseteq ToSet(order) /\ Dom!Closest(b) /= {}
           /\ \A d \in Dom!Closest(b) : IsNearest(fn, d, b)
<1>1. PICK p : IsPath(fn, p) /\ p[1] = fn.entry /\ p[Len(p)] = b
  BY Reached
<1>2. PICK n \in Blocks(fn) : IsNearest(fn, n, b)
  BY <1>1, NearestExists
<1>3. \A c \in ToSet(order) : \A a \in Blocks(fn) : a \in dom[c] <=> MustPass(fn, a, c)
  <2> SUFFICES ASSUME NEW c \in ToSet(order), NEW a \in Blocks(fn)
               PROVE  a \in dom[c] <=> MustPass(fn, a, c)
    OBVIOUS
  <2>1. a \in dom[c] => MustPass(fn, a, c)
    BY DomComplete
  <2>2. ASSUME MustPass(fn, a, c) PROVE a \in ToSet(order)
    <3>1. PICK q : IsPath(fn, q) /\ q[1] = fn.entry /\ q[Len(q)] = c
      BY Reached
    <3>2. PICK k \in 1..Len(q) : q[k] = a
      BY <2>2, <3>1 DEF MustPass
    <3>3. q[1] \in ToSet(order)
      BY <3>1, SearchFacts
    <3> QED BY <3>1, <3>2, <3>3, PathIsListed
  <2> QED BY <2>1, <2>2 DEF DominatorsExact
<1>4. /\ ToSet(order) \subseteq Blocks(fn)
      /\ \A c \in ToSet(order) : dom[c] \subseteq ToSet(order)
  <2>1. ToSet(order) \subseteq Blocks(fn)
    BY SearchFacts
  <2>2. ASSUME NEW c \in ToSet(order), NEW a \in dom[c] PROVE a \in ToSet(order)
    <3>1. MustPass(fn, a, c)
      BY DomComplete
    <3>2. PICK q : IsPath(fn, q) /\ q[1] = fn.entry /\ q[Len(q)] = c
      BY Reached
    <3>3. PICK k \in 1..Len(q) : q[k] = a
      BY <3>1, <3>2 DEF MustPass
    <3>4. q[1] \in ToSet(order)
      BY <3>2, SearchFacts
    <3> QED BY <3>2, <3>3, <3>4, PathIsListed
  <2> QED BY <2>1, <2>2
<1> DEFINE S == dom[b] \ {b}
<1>5. Dom!Closest(b) = {d \in S : \A e \in S \ {d} : d \notin dom[e]}
  BY DEF Dom!Closest, Dom!Strict
<1>6. n \in S /\ S \subseteq ToSet(order) /\ \A e \in S : MustPass(fn, e, n)
  BY <1>2, <1>3, <1>4 DEF IsNearest
<1> HIDE DEF S
<1>7. n \in Dom!Closest(b)
  <2> SUFFICES ASSUME NEW e \in S \ {n}, n \in dom[e] PROVE FALSE
    BY <1>5, <1>6
  <2>1. e \in ToSet(order) /\ MustPass(fn, n, e) /\ MustPass(fn, e, n)
    BY <1>2, <1>3, <1>6
  <2>2. PICK q : IsPath(fn, q) /\ q[1] = fn.entry /\ q[Len(q)] = e
    BY <2>1, Reached
  <2>3. n = e
    BY <2>1, <2>2, MustPassIsAntisymmetric
  <2> QED BY <2>3
<1>8. ASSUME NEW d \in Dom!Closest(b) PROVE d = n
  <2>1. d \in S /\ (n /= d => d \notin dom[n])
    BY <1>5, <1>6
  <2>2. d \in dom[n]
    BY <1>3, <1>4, <1>6, <2>1
  <2> QED BY <2>1, <2>2
<1> QED BY <1>2, <1>4, <1>5, <1>6, <1>7, <1>8

(* One search.                                                           *)
LEMMA IdomFound ==
    ASSUME IInv, IdomInv, phase = "dominators", Dom!FindIdom
    PROVE  /\ DOMAIN idom' = ToSet(order') /\ idom'[fn'.entry] = Dom!NoBlock
           /\ next' \in 2..(Len(order') + 1) /\ IdomSettled(next)'
<1> DEFINE b == order[next]
           bits == {k \in 1..Len(order) : order[k] \in Dom!Closest(b)}
<1>1. /\ pc = "idoms" /\ next <= Len(order) /\ fn' = fn /\ order' = order /\ next' = next + 1
      /\ idom' = [idom EXCEPT ![b] = IF bits = {} THEN Dom!NoBlock ELSE order[Dom!Min(bits)]]
  BY DEF Dom!FindIdom
<1>2. /\ fn \in Functions /\ order = BreadthFirst(fn) /\ DomInv /\ DomSettled(Len(order) + 1)
      /\ next \in 2..(Len(order) + 1) /\ IdomSettled(next)
  BY <1>1 DEF IInv, IdomInv, DomInv
<1>3. DominatorsExact
  BY <1>2, DomComplete DEF DomInv, DomSound, DominatorsExact
<1>4. /\ Len(order) \in Nat \ {0} /\ next \in 2..Len(order)
  BY <1>1, <1>2, SearchFacts
<1>5. b \in ToSet(order) /\ b /= fn.entry
  BY <1>2, <1>4, SearchFacts
<1> HIDE DEF b
<1>6. /\ Dom!Closest(b) \subseteq ToSet(order) /\ Dom!Closest(b) /= {}
      /\ \A d \in Dom!Closest(b) : IsNearest(fn, d, b)
  BY <1>2, <1>3, <1>5, ClosestIsNearest
<1>7. bits /= {} /\ bits \subseteq Nat
  <2>1. PICK d \in Dom!Closest(b) : d \in ToSet(order)
    BY <1>6
  <2>2. PICK k \in 1..Len(order) : order[k] = d
    BY <1>2, <2>1, SearchFacts
  <2> QED BY <2>1, <2>2
<1>8. Dom!Min(bits) \in bits
  <2> HIDE DEF bits
  <2>1. \E x \in bits : \A y \in bits : x <= y
    BY <1>7, Least
  <2> QED BY <2>1 DEF Dom!Min
<1>9. IsNearest(fn, order[Dom!Min(bits)], b)
  BY <1>6, <1>8
<1> HIDE DEF bits
<1>10. DOMAIN idom' = ToSet(order) /\ idom'[b] = order[Dom!Min(bits)]
       /\ \A c \in ToSet(order) : c /= b => idom'[c] = idom[c]
  BY <1>1, <1>5, <1>7 DEF IdomInv
<1>11. idom'[fn.entry] = Dom!NoBlock
  BY <1>2, <1>5, <1>10, SearchFacts DEF IdomInv
<1>12. ASSUME NEW j \in 2..Len(order), j < next + 1 PROVE IsNearest(fn, idom'[order[j]], order[j])
  <2>1. order[j] \in ToSet(order)
    <3>1. j \in 1..Len(order)
      BY <1>4
    <3> QED BY <1>2, <3>1, SearchFacts
  <2>2. CASE order[j] = b
    BY <1>9, <1>10, <2>2
  <2>3. CASE order[j] /= b
    <3>1. j < next
      BY <1>4, <1>12, <2>3 DEF b
    <3> QED BY <1>2, <1>10, <2>1, <2>3, <3>1 DEF IdomSettled
  <2> QED BY <2>2, <2>3
<1>13. IdomSettled(next)'
  BY <1>1, <1>12 DEF IdomSettled
<1>14. next' \in 2..(Len(order') + 1)
  BY <1>1, <1>4
<1> QED BY <1>1, <1>10, <1>11, <1>13, <1>14

(* Nothing else touches them.                                            *)
LEMMA IdomStep == IInv /\ IdomInv /\ [Next]_vars => IdomInv'
<1> SUFFICES ASSUME IInv, IdomInv, [Next]_vars PROVE IdomInv'
  OBVIOUS
<1>0. Len(order) \in Nat \ {0}
  BY SearchFacts DEF IInv, DomInv
<1>1. CASE LivenessStep \/ ReachingStep
  <2>1. phase /= "dominators" /\ UNCHANGED <<fn, order, idom, phase>>
    BY <1>1 DEF LivenessStep, ReachingStep, Reach!Next, Reach!VisitBlock, Reach!NextRound,
                Reach!Return, Live!Next, Live!VisitBlock, Live!NextRound, Live!Return
  <2> QED BY <2>1 DEF IdomInv
<1>2. CASE DominatorsStep
  <2>1. phase = "dominators" /\ phase' = phase
    BY <1>2 DEF DominatorsStep
  <2>2. CASE Dom!VisitBlock \/ Dom!NextRound
    <3>1. pc' = "round" /\ UNCHANGED <<fn, order, idom>>
      BY <2>2 DEF Dom!VisitBlock, Dom!NextRound
    <3> QED BY <2>1, <3>1 DEF IdomInv
  <2>3. CASE Dom!StartIdoms
    <3>1. pc' = "idoms" /\ next' = 2 /\ UNCHANGED <<fn, order, idom>>
      BY <2>3 DEF Dom!StartIdoms
    <3>2. IdomSettled(next)' /\ next' \in 2..(Len(order') + 1)
      BY <1>0, <3>1 DEF IdomSettled
    <3> QED BY <3>1, <3>2 DEF IdomInv
  <2>4. CASE Dom!FindIdom
    <3>1. pc' = "idoms"
      BY <2>4 DEF Dom!FindIdom
    <3> QED BY <2>1, <2>4, <3>1, IdomFound DEF IdomInv
  <2>5. CASE Dom!Return
    <3>1. pc = "idoms" /\ next > Len(order) /\ pc' = "done" /\ UNCHANGED <<fn, order, idom>>
      BY <2>5 DEF Dom!Return
    <3>2. next = Len(order) + 1 /\ IdomSettled(next)
      BY <1>0, <2>1, <3>1 DEF IdomInv
    <3>3. IdomSettled(Len(order) + 1)'
      BY <3>1, <3>2 DEF IdomSettled
    <3> QED BY <3>1, <3>3 DEF IdomInv
  <2> QED BY <1>2, <2>2, <2>3, <2>4, <2>5 DEF DominatorsStep, Dom!Next
<1>3. CASE CallReaching \/ CallDominators
  <2>1. UNCHANGED <<fn, order, idom>> /\ pc' = "round"
    BY <1>3 DEF CallReaching, CallDominators, Call
  <2> QED BY <2>1 DEF IdomInv
<1>4. CASE UNCHANGED vars
  BY <1>4 DEF vars, IdomInv, IdomSettled
<1> QED BY <1>1, <1>2, <1>3, <1>4 DEF Next

(* The block computeDominators chooses is the nearest strict dominator:  *)
(* every other one dominates it. Only the entry has none.                *)
THEOREM IdomIsNearest == Spec => []IdomIsClosest
<1>1. Init => IdomInv
  <2> SUFFICES ASSUME Init PROVE IdomInv
    OBVIOUS
  <2>1. /\ fn \in Functions /\ order = BreadthFirst(fn) /\ phase = "liveness"
        /\ idom = [b \in ToSet(order) |-> Dom!NoBlock]
    BY SameSearch DEF Init, Live!Init, Dom!InitSets, Dom!ToSet, ToSet
  <2> QED BY <2>1, SearchFacts DEF IdomInv
<1>2. Spec => []IdomInv
  BY <1>1, InductiveInvariant, IdomStep, PTL DEF Spec
<1>3. ASSUME IInv, IdomInv, phase = "dominators", pc = "done"
      PROVE  /\ idom[fn.entry] = Dom!NoBlock
             /\ \A b \in ToSet(order) \ {fn.entry} :
                   /\ idom[b] \in Dom!Dominators(b) \ {b}
                   /\ Dom!Dominators(b) \ {b} \subseteq Dom!Dominators(idom[b])
  <2>1. fn \in Functions /\ order = BreadthFirst(fn) /\ IdomSettled(Len(order) + 1)
    BY <1>3 DEF IInv, DomInv, IdomInv
  <2>2. \A b \in Blocks(fn) : Dom!Dominators(b) = {a \in Blocks(fn) : MustPass(fn, a, b)}
    <3>1. \A b : Dom!Dominators(b) = {a \in Blocks(fn) : Dominates(fn, a, b)}
      BY SameReach, SameCFG DEF Dom!Dominators
    <3>2. \A b \in Blocks(fn) : \A a : Dominates(fn, a, b) <=> MustPass(fn, a, b)
      BY <2>1, FlowIsCFG, DominatesIsMustPass
    <3> QED BY <3>1, <3>2
  <2>3. ASSUME NEW b \in ToSet(order), b /= fn.entry PROVE b \in Blocks(fn) /\ IsNearest(fn, idom[b], b)
    <3>1. PICK j \in 1..Len(order) : order[j] = b
      BY <2>1, SearchFacts
    <3>2. j \in 2..Len(order) /\ j < Len(order) + 1 /\ b \in Blocks(fn)
      BY <2>1, <2>3, <3>1, SearchFacts
    <3> QED BY <2>1, <3>1, <3>2 DEF IdomSettled
  <2>4. ASSUME NEW b \in ToSet(order), b /= fn.entry
        PROVE  /\ idom[b] \in Dom!Dominators(b) \ {b}
               /\ Dom!Dominators(b) \ {b} \subseteq Dom!Dominators(idom[b])
    <3>1. b \in Blocks(fn) /\ IsNearest(fn, idom[b], b)
      BY <2>3, <2>4
    <3>2. idom[b] \in Blocks(fn)
      BY <3>1 DEF IsNearest
    <3> QED BY <2>2, <3>1, <3>2 DEF IsNearest
  <2>5. idom[fn.entry] = Dom!NoBlock
    BY <1>3 DEF IdomInv
  <2> QED BY <2>4, <2>5
<1>4. Dom!ToSet(order) = ToSet(order)
  BY DEF Dom!ToSet, ToSet
<1>5. IInv /\ IdomInv => IdomIsClosest
  BY <1>3, <1>4 DEF IdomIsClosest, Dom!IdomIsClosest
<1> QED BY InductiveInvariant, <1>2, <1>5, PTL
=============================================================================
