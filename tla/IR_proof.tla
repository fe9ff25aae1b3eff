----------------------------- MODULE IR_proof -----------------------------
(*************************************************************************)
(* Proofs about the operators on programs, for every function.  In three *)
(* parts.  CFG and IR: what can be reached, dominance and liveness, all  *)
(* iterated to a fixed point, are what a statement about paths says.     *)
(* LegalMotion and ScheduleLegality: what a motion has to keep is the    *)
(* block of each instruction and the order of some pairs, and both kinds *)
(* of step the scheduler takes - a block reordered within its regions,   *)
(* an instruction hoisted to the end of a dominating block - keep it.    *)
(* DDG: the graph of a block or of a trace is one the list scheduler may *)
(* be given, and a schedule in its order keeps operands before users.    *)
(*************************************************************************)
EXTENDS ScheduleLegality, LegalMotion, DDG, FiniteSetTheorems, WellFoundedInduction, TLAPS

(* A set of natural numbers has a least element.                         *)
LEMMA Least ==
    ASSUME NEW T, T \subseteq Nat, T /= {}
    PROVE  \E x \in T : \A y \in T : x <= y
<1>1. PICK x \in T : \A y \in T : ~(<<y, x>> \in OpToRel(<, Nat))
  BY WFMin, NatLessThanWellFounded
<1>2. \A y \in T : ~(y < x)
  BY <1>1 DEF OpToRel
<1> QED BY <1>2

(* A path: a block, a successor of it, and so on.                        *)
IsPath(f, p) ==
    /\ p \in Seq(Blocks(f)) /\ p /= <<>>
    /\ \A k \in 1..(Len(p) - 1) : p[k+1] \in Succs(f, p[k])

(* A path with one more block in front of it, or behind.                 *)
LEMMA LongerInFront ==
    ASSUME NEW f, NEW p, IsPath(f, p), NEW b \in Blocks(f), p[1] \in Succs(f, b)
    PROVE  /\ IsPath(f, <<b>> \o p) /\ Len(<<b>> \o p) = Len(p) + 1
           /\ (<<b>> \o p)[1] = b /\ \A k \in 1..Len(p) : (<<b>> \o p)[k+1] = p[k]
<1> DEFINE q == <<b>> \o p
<1>1. p \in Seq(Blocks(f)) /\ Len(p) \in Nat \ {0}
  BY DEF IsPath
<1>2. /\ q \in Seq(Blocks(f)) /\ Len(q) = Len(p) + 1 /\ q[1] = b
      /\ \A k \in 1..Len(p) : q[k+1] = p[k]
  BY <1>1
<1> HIDE DEF q
<1>3. ASSUME NEW k \in 1..(Len(q) - 1) PROVE q[k+1] \in Succs(f, q[k])
  <2>1. CASE k = 1
    BY <1>1, <1>2, <2>1
  <2>2. CASE k /= 1
    <3>1. k - 1 \in 1..(Len(p) - 1) /\ (k - 1) + 1 = k /\ k \in 1..Len(p) /\ k - 1 \in 1..Len(p)
      BY <1>1, <1>2, <2>2
    <3>2. q[k+1] = p[k] /\ q[k] = p[k-1]
      BY <1>2, <3>1
    <3>3. p[(k-1)+1] \in Succs(f, p[k-1])
      BY <3>1 DEF IsPath
    <3> QED BY <3>1, <3>2, <3>3
  <2> QED BY <2>1, <2>2
<1>4. q /= <<>>
  BY <1>1, <1>2
<1> QED BY <1>2, <1>3, <1>4 DEF IsPath, q

(* The same at the other end.                                            *)
LEMMA LongerBehind ==
    ASSUME NEW f, NEW p, IsPath(f, p), NEW b \in Blocks(f), b \in Succs(f, p[Len(p)])
    PROVE  /\ IsPath(f, Append(p, b)) /\ Len(Append(p, b)) = Len(p) + 1
           /\ Append(p, b)[Len(p) + 1] = b /\ \A k \in 1..Len(p) : Append(p, b)[k] = p[k]
<1> DEFINE q == Append(p, b)
<1>1. p \in Seq(Blocks(f)) /\ Len(p) \in Nat \ {0}
  BY DEF IsPath
<1>2. /\ q \in Seq(Blocks(f)) /\ Len(q) = Len(p) + 1 /\ q[Len(p) + 1] = b
      /\ \A k \in 1..Len(p) : q[k] = p[k]
  BY <1>1
<1> HIDE DEF q
<1>3. ASSUME NEW k \in 1..(Len(q) - 1) PROVE q[k+1] \in Succs(f, q[k])
  <2>1. CASE k = Len(p)
    BY <1>1, <1>2, <2>1
  <2>2. CASE k /= Len(p)
    <3>1. k \in 1..(Len(p) - 1) /\ k \in 1..Len(p) /\ k + 1 \in 1..Len(p)
      BY <1>1, <1>2, <2>2
    <3> QED BY <1>2, <3>1 DEF IsPath
  <2> QED BY <2>1, <2>2
<1>4. q /= <<>>
  BY <1>1, <1>2
<1> QED BY <1>2, <1>3, <1>4 DEF IsPath, q

(* One block alone is a path.                                            *)
LEMMA ShortestPath ==
    ASSUME NEW f, NEW b \in Blocks(f)
    PROVE  IsPath(f, <<b>>) /\ Len(<<b>>) = 1 /\ <<b>>[1] = b
  BY DEF IsPath
-----------------------------------------------------------------------------
(* A value is live at the start of b: a path from b leads to a block that*)
(* uses it, and no block before that one defines it.                     *)
IsLive(f, v, b) ==
    \E p : /\ IsPath(f, p) /\ p[1] = b
           /\ v \in UseSet(f, p[Len(p)])
           /\ \A k \in 1..(Len(p) - 1) : v \notin DefSet(f, p[k])

(* What is live after a block and not defined in it is live before it.   *)
LEMMA LiveBefore ==
    ASSUME NEW f, NEW b \in Blocks(f), NEW s \in Succs(f, b), NEW v,
           IsLive(f, v, s), v \notin DefSet(f, b)
    PROVE  IsLive(f, v, b)
<1>1. PICK p : /\ IsPath(f, p) /\ p[1] = s /\ v \in UseSet(f, p[Len(p)])
               /\ \A k \in 1..(Len(p) - 1) : v \notin DefSet(f, p[k])
  BY DEF IsLive
<1> DEFINE q == <<b>> \o p
<1>2. /\ IsPath(f, q) /\ Len(q) = Len(p) + 1 /\ q[1] = b
      /\ \A k \in 1..Len(p) : q[k+1] = p[k]
  BY <1>1, LongerInFront
<1> HIDE DEF q
<1>3. Len(p) \in Nat \ {0}
  BY <1>1 DEF IsPath
<1>4. q[Len(q)] = p[Len(p)]
  BY <1>2, <1>3
<1>5. ASSUME NEW k \in 1..(Len(q) - 1) PROVE v \notin DefSet(f, q[k])
  <2>1. CASE k = 1
    BY <1>2, <2>1
  <2>2. CASE k /= 1
    <3>1. k - 1 \in 1..(Len(p) - 1) /\ k - 1 \in 1..Len(p) /\ (k - 1) + 1 = k
      BY <1>2, <1>3, <2>2
    <3> QED BY <1>1, <1>2, <3>1
  <2> QED BY <2>1, <2>2
<1> QED BY <1>1, <1>2, <1>4, <1>5 DEF IsLive

(* A use in the block itself makes a value live.                         *)
LEMMA LiveAtUse ==
    ASSUME NEW f, NEW b \in Blocks(f), NEW v \in UseSet(f, b)
    PROVE  IsLive(f, v, b)
<1>1. IsPath(f, <<b>>) /\ Len(<<b>>) = 1 /\ <<b>>[1] = b
  BY ShortestPath
<1>2. \A k \in 1..(Len(<<b>>) - 1) : v \notin DefSet(f, <<b>>[k])
  BY <1>1
<1> QED BY <1>1, <1>2 DEF IsLive

-----------------------------------------------------------------------------
(* Control cannot get from the entry to b without passing through a.     *)
MustPass(f, a, b) ==
    \A p : IsPath(f, p) /\ p[1] = f.entry /\ p[Len(p)] = b => \E k \in 1..Len(p) : p[k] = a

(* A block that must be passed on the way to b is b or must be passed on *)
(* the way to each predecessor.                                          *)
LEMMA MustPassBefore ==
    ASSUME NEW f, NEW a, NEW b \in Blocks(f), MustPass(f, a, b), a /= b,
           NEW c, b \in Succs(f, c)
    PROVE  MustPass(f, a, c)
<1> SUFFICES ASSUME NEW p, IsPath(f, p), p[1] = f.entry, p[Len(p)] = c
             PROVE  \E k \in 1..Len(p) : p[k] = a
  BY DEF MustPass
<1> DEFINE q == Append(p, b)
<1>1. /\ IsPath(f, q) /\ Len(q) = Len(p) + 1 /\ q[Len(p) + 1] = b
      /\ \A k \in 1..Len(p) : q[k] = p[k]
  BY LongerBehind
<1> HIDE DEF q
<1>2. Len(p) \in Nat \ {0}
  BY DEF IsPath
<1>3. q[1] = f.entry /\ q[Len(q)] = b
  BY <1>1, <1>2
<1>4. PICK k \in 1..Len(q) : q[k] = a
  BY <1>1, <1>3 DEF MustPass
<1>5. k \in 1..Len(p)
  BY <1>1, <1>2, <1>4
<1> QED BY <1>1, <1>4, <1>5

-----------------------------------------------------------------------------
(* r lists what N steps of F lead to, on sets of elements of U.          *)
Iterates(U, N, F, r) ==
    /\ N \in Nat /\ F \in [SUBSET U -> SUBSET U] /\ r \in [0..N -> SUBSET U]
    /\ \A k \in 1..N : r[k] = F[r[k-1]]

IsIterated(N, D, F, a) ==
    \E r \in [0..N -> D] : r[0] = a /\ \A k \in 1..N : r[k] = F[r[k-1]]

(* The same with a step that depends on the position.                    *)
IsRecursive(N, D, G, a) ==
    \E r \in [0..N -> D] : r[0] = a /\ \A k \in 1..N : r[k] = G[<<k, r[k-1]>>]

(* A function defined by recursion over 0..N exists: if not, there is a  *)
(* least n up to which none does.                                        *)
LEMMA RecursionExists ==
    ASSUME NEW N \in Nat, NEW D, NEW G \in [(1..N) \X D -> D], NEW a \in D
    PROVE  IsRecursive(N, D, G, a)
<1> DEFINE Good(n) == \E r \in [0..n -> D] : r[0] = a /\ \A k \in 1..n : r[k] = G[<<k, r[k-1]>>]
           T == {n \in 0..N : ~Good(n)}
<1> SUFFICES ASSUME T /= {} PROVE FALSE
  <2>1. N \in 0..N
    OBVIOUS
  <2>2. T = {} => Good(N)
    <3> HIDE DEF Good
    <3> QED BY <2>1
  <2> QED BY <2>2 DEF IsRecursive
<1>1. PICK n \in T : \A m \in T : n <= m
  <2>1. T \subseteq Nat
    OBVIOUS
  <2> QED BY <2>1, Least
<1>2. n /= 0
  <2>1. [k \in 0..0 |-> a] \in [0..0 -> D]
    OBVIOUS
  <2>2. Good(0)
    <3> DEFINE r == [k \in 0..0 |-> a]
    <3>1. r \in [0..0 -> D] /\ r[0] = a /\ \A k \in 1..0 : FALSE
      OBVIOUS
    <3> QED BY <3>1
  <2> QED BY <1>1, <2>2
<1>3. n - 1 \in 0..N /\ n \in 1..N /\ ~(n <= n - 1)
  BY <1>1, <1>2
<1>4. Good(n - 1)
  <2> HIDE DEF Good
  <2> QED BY <1>1, <1>3
<1>5. PICK r \in [0..(n-1) -> D] : r[0] = a /\ \A k \in 1..(n-1) : r[k] = G[<<k, r[k-1]>>]
  BY <1>4
<1> DEFINE q == [k \in 0..n |-> IF k = n THEN G[<<n, r[n-1]>>] ELSE r[k]]
<1>6. q \in [0..n -> D]
  <2>1. G[<<n, r[n-1]>>] \in D
    BY <1>3, <1>5
  <2>2. \A k \in 0..n : k = n \/ k \in 0..(n-1)
    BY <1>3
  <2> QED BY <2>1, <2>2, <1>5
<1>7. q[0] = a /\ \A k \in 1..n : q[k] = G[<<k, q[k-1]>>]
  <2>1. q[0] = a /\ q[n] = G[<<n, r[n-1]>>] /\ \A k \in 0..(n-1) : q[k] = r[k]
    BY <1>3, <1>5
  <2> HIDE DEF q
  <2>2. ASSUME NEW k \in 1..n PROVE q[k] = G[<<k, q[k-1]>>]
    <3>1. CASE k = n
      BY <2>1, <1>3, <3>1
    <3>2. CASE k /= n
      <4>1. k \in 1..(n-1) /\ k \in 0..(n-1) /\ k - 1 \in 0..(n-1)
        BY <1>3, <3>2
      <4> QED BY <2>1, <1>5, <4>1
    <3> QED BY <3>1, <3>2
  <2> QED BY <2>1, <2>2
<1>8. Good(n)
  BY <1>6, <1>7
<1> QED BY <1>1, <1>8

(* A step that does not depend on it is a special case.                  *)
LEMMA IterationExists ==
    ASSUME NEW N \in Nat, NEW D, NEW F \in [D -> D], NEW a \in D
    PROVE  IsIterated(N, D, F, a)
<1> DEFINE G == [kx \in (1..N) \X D |-> F[kx[2]]]
<1>1. G \in [(1..N) \X D -> D]
  OBVIOUS
<1>2. \A k \in 1..N, x \in D : G[<<k, x>>] = F[x]
  OBVIOUS
<1> HIDE DEF G
<1>3. IsRecursive(N, D, G, a)
  BY <1>1, RecursionExists
<1>4. PICK r \in [0..N -> D] : r[0] = a /\ \A k \in 1..N : r[k] = G[<<k, r[k-1]>>]
  BY <1>3 DEF IsRecursive
<1>5. ASSUME NEW k \in 1..N PROVE r[k] = F[r[k-1]]
  <2>1. k - 1 \in 0..N
    OBVIOUS
  <2> QED BY <1>2, <1>4, <2>1
<1> QED BY <1>4, <1>5 DEF IsIterated

(* Iterating an operator that only adds elements of a set of at most N   *)
(* stops adding after N steps, unless it starts from nothing.            *)
LEMMA IterationCloses ==
    ASSUME NEW U, NEW N, NEW F, NEW r, Iterates(U, N, F, r),
           IsFiniteSet(U), Cardinality(U) <= N,
           \A T \in SUBSET U : T \subseteq F[T], F[{}] = {}
    PROVE  F[r[N]] = r[N] /\ r[0] \subseteq r[N]
<1> USE DEF Iterates
<1>1. \A k \in 0..N : IsFiniteSet(r[k]) /\ Cardinality(r[k]) \in Nat
  <2> TAKE k \in 0..N
  <2>1. r[k] \in SUBSET U
    OBVIOUS
  <2> QED BY <2>1, FS_Subset, FS_CardinalityType
<1>2. \A k \in 1..N : k - 1 \in 0..N /\ k \in 0..N /\ r[k-1] \subseteq r[k]
  <2> TAKE k \in 1..N
  <2>1. k - 1 \in 0..N /\ k \in 0..N
    OBVIOUS
  <2>2. r[k-1] \in SUBSET U /\ r[k] = F[r[k-1]]
    BY <2>1
  <2> QED BY <2>1, <2>2
<1>3. \A k \in 0..N : r[0] \subseteq r[k]
  <2> DEFINE T == {k \in 0..N : ~(r[0] \subseteq r[k])}
  <2> SUFFICES ASSUME T /= {} PROVE FALSE
    OBVIOUS
  <2>1. PICK k \in T : \A m \in T : k <= m
    <3>1. T \subseteq Nat
      OBVIOUS
    <3> QED BY <3>1, Least
  <2>2. k \in 1..N /\ ~(k <= k - 1)
    BY <2>1
  <2>3. k - 1 \in 0..N /\ k - 1 \notin T
    <3> HIDE DEF T
    <3> QED BY <2>1, <2>2, <1>2
  <2>4. r[0] \subseteq r[k-1]
    BY <2>3
  <2> QED BY <2>1, <2>2, <2>4, <1>2
<1>4. ASSUME F[r[N]] /= r[N] PROVE FALSE
  <2>1. \A k \in 0..N : F[r[k]] /= r[k]
    <3> DEFINE T == {j \in 0..N : F[r[N-j]] = r[N-j]}
    <3>1. T = {}
      <4> SUFFICES ASSUME T /= {} PROVE FALSE
        OBVIOUS
      <4>1. PICK j \in T : \A m \in T : j <= m
        <5>1. T \subseteq Nat
          OBVIOUS
        <5> QED BY <5>1, Least
      <4>2. j /= 0
        <5>1. N - 0 = N
          OBVIOUS
        <5> QED BY <4>1, <1>4, <5>1
      <4>3. j - 1 \in 0..N /\ ~(j <= j - 1) /\ N - (j - 1) \in 1..N /\ (N - (j - 1)) - 1 = N - j
        BY <4>1, <4>2
      <4>4. j - 1 \notin T
        <5> HIDE DEF T
        <5> QED BY <4>1, <4>3
      <4>5. r[N - (j - 1)] = F[r[N - j]]
        BY <4>3
      <4>6. F[r[N - j]] = r[N - j]
        BY <4>1
      <4>7. F[r[N - (j - 1)]] = r[N - (j - 1)]
        BY <4>5, <4>6
      <4> QED BY <4>3, <4>4, <4>7
    <3>2. \A k \in 0..N : N - k \in 0..N /\ N - (N - k) = k
      OBVIOUS
    <3> QED BY <3>1, <3>2
  <2>2. r[0] /= {}
    <3>1. ASSUME r[0] = {} PROVE FALSE
      <4>1. F[r[0]] /= r[0]
        BY <2>1
      <4> QED BY <3>1, <4>1
    <3> QED BY <3>1
  <2> DEFINE T == {k \in 0..N : ~(Cardinality(r[k]) >= k + 1)}
  <2>3. T = {}
    <3> SUFFICES ASSUME T /= {} PROVE FALSE
      OBVIOUS
    <3>1. PICK k \in T : \A m \in T : k <= m
      <4>1. T \subseteq Nat
        OBVIOUS
      <4> QED BY <4>1, Least
    <3>2. k /= 0
      <4>1. 0 \in 0..N
        OBVIOUS
      <4>2. Cardinality(r[0]) \in Nat /\ Cardinality(r[0]) /= 0
        BY <1>1, <2>2, <4>1, FS_EmptySet
      <4>3. Cardinality(r[0]) >= 0 + 1
        BY <4>2
      <4> QED BY <3>1, <4>3
    <3>3. k \in 1..N /\ k - 1 \in 0..N /\ ~(k <= k - 1)
      BY <3>1, <3>2
    <3>4. k - 1 \notin T
      <4> HIDE DEF T
      <4> QED BY <3>1, <3>3
    <3>5. Cardinality(r[k-1]) >= (k - 1) + 1
      BY <3>3, <3>4
    <3>6. r[k-1] \subseteq r[k] /\ r[k-1] /= r[k]
      <4>1. F[r[k-1]] /= r[k-1]
        BY <2>1, <3>3
      <4> QED BY <1>2, <3>3, <4>1
    <3>7. Cardinality(r[k-1]) <= Cardinality(r[k]) /\ Cardinality(r[k-1]) /= Cardinality(r[k])
      BY <1>1, <1>2, <3>3, <3>6, FS_Subset
    <3>8. Cardinality(r[k-1]) \in Nat /\ Cardinality(r[k]) \in Nat
      BY <1>1, <1>2, <3>3
    <3>9. Cardinality(r[k]) >= k + 1
      BY <3>3, <3>5, <3>7, <3>8
    <3> QED BY <3>1, <3>9
  <2>4. N \in 0..N
    OBVIOUS
  <2>5. Cardinality(r[N]) >= N + 1
    BY <2>3, <2>4
  <2>6. r[N] \in SUBSET U
    BY <2>4
  <2>7. Cardinality(r[N]) <= Cardinality(U) /\ Cardinality(r[N]) \in Nat /\ Cardinality(U) \in Nat
    BY <1>1, <2>4, <2>6, FS_Subset, FS_CardinalityType
  <2> QED BY <2>5, <2>7
<1>5. N \in 0..N
  OBVIOUS
<1> QED BY <1>3, <1>4, <1>5

(* Nor does it leave a set that the operator does not leave.             *)
LEMMA IterationStays ==
    ASSUME NEW U, NEW N, NEW F, NEW r, Iterates(U, N, F, r),
           NEW C, r[0] \subseteq C, \A T \in SUBSET U : T \subseteq C => F[T] \subseteq C
    PROVE  r[N] \subseteq C
<1> USE DEF Iterates
<1> DEFINE T == {k \in 0..N : ~(r[k] \subseteq C)}
<1>1. T = {}
  <2> SUFFICES ASSUME T /= {} PROVE FALSE
    OBVIOUS
  <2>1. PICK k \in T : \A m \in T : k <= m
    <3>1. T \subseteq Nat
      OBVIOUS
    <3> QED BY <3>1, Least
  <2>2. k \in 1..N /\ k - 1 \in 0..N /\ ~(k <= k - 1)
    BY <2>1
  <2>3. k - 1 \notin T
    <3> HIDE DEF T
    <3> QED BY <2>1, <2>2
  <2>4. r[k-1] \subseteq C /\ r[k-1] \in SUBSET U /\ r[k] = F[r[k-1]]
    BY <2>2, <2>3
  <2> QED BY <2>1, <2>4
<1>2. N \in 0..N
  OBVIOUS
<1> QED BY <1>1, <1>2

(* What the lemmas about graphs assume: the layout lists the blocks, and *)
(* control stays among them.                                             *)
IsCFG(f) ==
    /\ f.layout \in Seq(Blocks(f))
    /\ \A b \in Blocks(f) : Succs(f, b) \subseteq Blocks(f)

(* A function has no more blocks than places in its layout.              *)
LEMMA BlocksFinite ==
    ASSUME NEW f, IsCFG(f)
    PROVE  IsFiniteSet(Blocks(f)) /\ Len(f.layout) \in Nat /\ Cardinality(Blocks(f)) <= Len(f.layout)
<1>1. Len(f.layout) \in Nat /\ DOMAIN f.layout = 1..Len(f.layout)
  BY DEF IsCFG
<1>2. f.layout \in Surjection(1..Len(f.layout), Blocks(f))
  BY <1>1 DEF IsCFG, Surjection, Blocks, ToSet
<1>3. IsFiniteSet(1..Len(f.layout)) /\ Cardinality(1..Len(f.layout)) = Len(f.layout)
  <2> DEFINE n == Len(f.layout)
  <2>1. n \in Nat
    BY <1>1
  <2> HIDE DEF n
  <2>2. IsFiniteSet(1..n) /\ Cardinality(1..n) = (IF 1 > n THEN 0 ELSE n - 1 + 1)
    BY <2>1, FS_Interval
  <2>3. Cardinality(1..n) = n
    BY <2>1, <2>2
  <2> QED BY <2>2, <2>3 DEF n
<1>4. IsFiniteSet(Blocks(f)) /\ Cardinality(Blocks(f)) <= Cardinality(1..Len(f.layout))
  BY <1>2, <1>3, FS_Surjection
<1> QED BY <1>1, <1>3, <1>4

(* What ReachableFrom iterates.                                          *)
Spread(f, avoid) ==
    [T \in SUBSET Blocks(f) |-> T \cup ((UNION {Succs(f, b) : b \in T}) \ avoid)]

ReachIsIteration(f, from, avoid) ==
    \E r : /\ Iterates(Blocks(f), Len(f.layout), Spread(f, avoid), r)
           /\ r[0] = from \ avoid /\ ReachableFrom(f, from, avoid) = r[Len(f.layout)]

(* It iterates it as often as there are blocks.                          *)
LEMMA ReachIteration ==
    ASSUME NEW f, IsCFG(f), NEW from, from \subseteq Blocks(f), NEW avoid
    PROVE  ReachIsIteration(f, from, avoid)
<1> DEFINE N == Len(f.layout)
           F == Spread(f, avoid)
           D == SUBSET Blocks(f)
           Step(T) == T \cup ((UNION {Succs(f, b) : b \in T}) \ avoid)
<1>1. N \in Nat
  BY BlocksFinite
<1>2. F \in [D -> D] /\ \A T \in D : F[T] = Step(T)
  <2>1. \A T \in D : Step(T) \in D
    BY DEF IsCFG
  <2> QED BY <2>1 DEF Spread
<1>3. from \ avoid \in D
  OBVIOUS
<1> HIDE DEF F, N, D
<1>4. PICK r \in [0..N -> D] : r[0] = from \ avoid /\ \A k \in 1..N : r[k] = F[r[k-1]]
  <2>1. F \in [D -> D]
    BY <1>2
  <2>2. IsIterated(N, D, F, from \ avoid)
    BY <1>1, <1>3, <2>1, IterationExists
  <2> QED BY <2>2 DEF IsIterated
<1> DEFINE Eq(g) == g = [k \in 0..N |-> IF k = 0 THEN from \ avoid
                                       ELSE LET t == g[k-1]
                                            IN  t \cup ((UNION {Succs(f, b) : b \in t}) \ avoid)]
           g == CHOOSE h : Eq(h)
<1> USE DEF D
<1>5. \A k \in 1..N : k - 1 \in 0..N /\ r[k] = Step(r[k-1])
  <2> TAKE k \in 1..N
  <2>1. k - 1 \in 0..N /\ r[k-1] \in D
    BY <1>1
  <2> QED BY <1>2, <1>4, <2>1
<1>6. Eq(r)
  <2>1. \A k \in 0..N : k = 0 \/ k \in 1..N
    BY <1>1
  <2>2. \A k \in 0..N : r[k] = IF k = 0 THEN from \ avoid ELSE Step(r[k-1])
    BY <1>4, <1>5, <2>1
  <2> QED BY <2>2
<1>7. Eq(g)
  <2> HIDE DEF Eq
  <2> QED BY <1>6
<1>8. ReachableFrom(f, from, avoid) = g[N]
  BY DEF ReachableFrom, N
<1> HIDE DEF g
<1>9. \A k \in 0..N : g[k] = IF k = 0 THEN from \ avoid ELSE Step(g[k-1])
  BY <1>7
<1>10. \A k \in 0..N : g[k] = r[k]
  <2> DEFINE T == {k \in 0..N : g[k] /= r[k]}
  <2> SUFFICES ASSUME T /= {} PROVE FALSE
    OBVIOUS
  <2>1. PICK k \in T : \A m \in T : k <= m
    <3>1. T \subseteq Nat
      BY <1>1
    <3> QED BY <3>1, Least
  <2>2. k \in 1..N /\ ~(k <= k - 1) /\ k - 1 \in 0..N
    <3>1. k /= 0
      BY <1>4, <1>9, <2>1
    <3> QED BY <1>1, <2>1, <3>1
  <2>3. k - 1 \notin T
    <3> HIDE DEF T
    <3> QED BY <2>1, <2>2
  <2>4. g[k-1] = r[k-1]
    BY <2>2, <2>3
  <2>5. g[k] = Step(g[k-1])
    <3>1. k \in 0..N /\ k /= 0
      BY <1>1, <2>2
    <3> QED BY <1>9, <3>1
  <2>6. g[k] = r[k]
    <3> HIDE DEF Step
    <3> QED BY <1>5, <2>2, <2>4, <2>5
  <2> QED BY <2>1, <2>6
<1>11. N \in 0..N
  BY <1>1
<1>12. g[N] = r[N]
  BY <1>10, <1>11
<1>13. Iterates(Blocks(f), N, F, r)
  BY <1>1, <1>2, <1>4 DEF Iterates
<1> QED BY <1>4, <1>8, <1>12, <1>13 DEF F, N, ReachIsIteration

(* A path from one set of blocks to b that stays outside another set.    *)
PathTo(f, from, avoid, b) ==
    \E p : /\ IsPath(f, p) /\ p[1] \in from /\ p[Len(p)] = b
           /\ \A k \in 1..Len(p) : p[k] \notin avoid

(* ReachableFrom is what can be reached along paths.                     *)
LEMMA ReachableIsPathTo ==
    ASSUME NEW f, IsCFG(f), NEW from, from \subseteq Blocks(f), NEW avoid
    PROVE  /\ ReachableFrom(f, from, avoid) \subseteq Blocks(f)
           /\ \A b : b \in ReachableFrom(f, from, avoid) <=> PathTo(f, from, avoid, b)
<1> DEFINE N == Len(f.layout)
           F == Spread(f, avoid)
           R == ReachableFrom(f, from, avoid)
           B == Blocks(f)
<1>1. ReachIsIteration(f, from, avoid)
  BY ReachIteration
<1>2. PICK r : Iterates(B, N, F, r) /\ r[0] = from \ avoid /\ R = r[N]
  BY <1>1 DEF ReachIsIteration
<1>3. N \in Nat /\ IsFiniteSet(B) /\ Cardinality(B) <= N
  BY BlocksFinite
<1>4. \A T \in SUBSET B : F[T] = T \cup ((UNION {Succs(f, b) : b \in T}) \ avoid)
  BY DEF Spread
<1> HIDE DEF F, N, R, B
<1>5. R \subseteq B
  <2>1. N \in 0..N
    BY <1>3
  <2> QED BY <1>2, <2>1 DEF Iterates
<1>6. F[R] = R /\ from \ avoid \subseteq R
  <2>1. (\A T \in SUBSET B : T \subseteq F[T]) /\ F[{}] = {}
    BY <1>4
  <2> HIDE DEF B
  <2>2. F[r[N]] = r[N] /\ r[0] \subseteq r[N]
    BY <1>2, <1>3, <2>1, IterationCloses
  <2> QED BY <1>2, <2>2
<1>7. \A b \in R : Succs(f, b) \ avoid \subseteq R
  <2>1. F[R] = R \cup ((UNION {Succs(f, b) : b \in R}) \ avoid)
    BY <1>4, <1>5
  <2> QED BY <1>6, <2>1
<1>8. ASSUME NEW b, PathTo(f, from, avoid, b) PROVE b \in R
  <2>1. PICK p : /\ IsPath(f, p) /\ p[1] \in from /\ p[Len(p)] = b
                 /\ \A k \in 1..Len(p) : p[k] \notin avoid
    BY <1>8 DEF PathTo
  <2>2. Len(p) \in Nat \ {0} /\ \A k \in 1..(Len(p) - 1) : p[k+1] \in Succs(f, p[k])
    BY <2>1 DEF IsPath
  <2> DEFINE T == {k \in 1..Len(p) : p[k] \notin R}
  <2>3. T = {}
    <3> SUFFICES ASSUME T /= {} PROVE FALSE
      OBVIOUS
    <3>1. PICK k \in T : \A m \in T : k <= m
      <4>1. T \subseteq Nat
        BY <2>2
      <4> QED BY <4>1, Least
    <3>2. k /= 1
      <4>1. 1 \in 1..Len(p)
        BY <2>2
      <4> QED BY <1>6, <2>1, <3>1, <4>1
    <3>3. k - 1 \in 1..(Len(p) - 1) /\ k - 1 \in 1..Len(p) /\ (k - 1) + 1 = k /\ ~(k <= k - 1)
      BY <2>2, <3>1, <3>2
    <3>4. k - 1 \notin T
      <4> HIDE DEF T
      <4> QED BY <3>1, <3>3
    <3>5. p[k-1] \in R /\ p[k] \in Succs(f, p[k-1]) /\ p[k] \notin avoid
      BY <2>1, <2>2, <3>1, <3>3, <3>4
    <3> QED BY <1>7, <3>1, <3>5
  <2> QED BY <2>1, <2>2, <2>3
<1> DEFINE C == {b \in Blocks(f) : PathTo(f, from, avoid, b)}
<1>9. R \subseteq C
  <2>1. ASSUME NEW b \in from \ avoid PROVE b \in C
    <3>1. b \in Blocks(f)
      OBVIOUS
    <3>2. IsPath(f, <<b>>) /\ Len(<<b>>) = 1 /\ <<b>>[1] = b
      BY <3>1, ShortestPath
    <3>3. PathTo(f, from, avoid, b)
      BY <3>2 DEF PathTo
    <3> QED BY <3>1, <3>3
  <2>2. ASSUME NEW c \in C, NEW b \in Succs(f, c) \ avoid PROVE b \in C
    <3>1. PICK p : /\ IsPath(f, p) /\ p[1] \in from /\ p[Len(p)] = c
                   /\ \A k \in 1..Len(p) : p[k] \notin avoid
      BY DEF PathTo
    <3>2. b \in Blocks(f) /\ Len(p) \in Nat \ {0}
      BY <3>1 DEF IsPath, IsCFG
    <3> DEFINE q == Append(p, b)
    <3>3. /\ IsPath(f, q) /\ Len(q) = Len(p) + 1 /\ q[Len(p) + 1] = b
          /\ \A k \in 1..Len(p) : q[k] = p[k]
      BY <3>1, <3>2, LongerBehind
    <3> HIDE DEF q
    <3>4. \A k \in 1..Len(q) : k \in 1..Len(p) \/ k = Len(p) + 1
      BY <3>2, <3>3
    <3>5. PathTo(f, from, avoid, b)
      <4>1. q[1] = p[1] /\ q[Len(q)] = b
        BY <3>2, <3>3
      <4>2. \A k \in 1..Len(q) : q[k] \notin avoid
        BY <3>1, <3>3, <3>4
      <4> QED BY <3>1, <3>3, <4>1, <4>2 DEF PathTo
    <3> QED BY <3>2, <3>5
  <2> HIDE DEF C
  <2>3. ASSUME NEW T \in SUBSET B, T \subseteq C PROVE F[T] \subseteq C
    <3>1. F[T] = T \cup ((UNION {Succs(f, b) : b \in T}) \ avoid)
      BY <1>4
    <3>2. \A c \in T : \A b \in Succs(f, c) \ avoid : b \in C
      BY <2>2, <2>3
    <3> QED BY <2>3, <3>1, <3>2
  <2>4. r[0] \subseteq C
    BY <1>2, <2>1
  <2> HIDE DEF B
  <2> QED BY <1>2, <2>3, <2>4, IterationStays
<1> QED BY <1>5, <1>8, <1>9 DEF R
-----------------------------------------------------------------------------
(* The beginning of a path is a path.                                    *)
IsBeginning(f, p, k, q) ==
    IsPath(f, q) /\ Len(q) = k /\ \A i \in 1..k : q[i] = p[i]

(* The first k blocks of a path are a path.                              *)
LEMMA PathBegins ==
    ASSUME NEW f, NEW p, IsPath(f, p), NEW k \in 1..Len(p)
    PROVE  IsBeginning(f, p, k, SubSeq(p, 1, k))
<1> DEFINE q == SubSeq(p, 1, k)
<1>1. /\ p \in Seq(Blocks(f)) /\ Len(p) \in Nat \ {0}
      /\ \A i \in 1..(Len(p) - 1) : p[i+1] \in Succs(f, p[i])
  BY DEF IsPath
<1>2. k \in Nat \ {0} /\ k <= Len(p)
  BY <1>1
<1>3. q \in Seq(Blocks(f)) /\ Len(q) = k /\ \A i \in 1..k : q[i] = p[i]
  BY <1>1, <1>2
<1> HIDE DEF q
<1>4. ASSUME NEW i \in 1..(Len(q) - 1) PROVE q[i+1] \in Succs(f, q[i])
  <2>1. i \in 1..k /\ i + 1 \in 1..k /\ i \in 1..(Len(p) - 1)
    BY <1>1, <1>2, <1>3
  <2> QED BY <1>1, <1>3, <2>1
<1>5. q /= <<>>
  BY <1>2, <1>3
<1> QED BY <1>3, <1>4, <1>5 DEF IsPath, IsBeginning, q

(* A path without its first block is a path, if anything is left.        *)
LEMMA PathAfterFirst ==
    ASSUME NEW f, NEW p, IsPath(f, p), Len(p) /= 1
    PROVE  /\ IsPath(f, Tail(p)) /\ Len(Tail(p)) = Len(p) - 1
           /\ \A i \in 1..(Len(p) - 1) : Tail(p)[i] = p[i+1]
<1> DEFINE q == Tail(p)
<1>1. /\ p \in Seq(Blocks(f)) /\ Len(p) \in Nat \ {0} /\ p /= <<>>
      /\ \A i \in 1..(Len(p) - 1) : p[i+1] \in Succs(f, p[i])
  BY DEF IsPath
<1>2. /\ q \in Seq(Blocks(f)) /\ Len(q) = Len(p) - 1
      /\ \A i \in 1..(Len(p) - 1) : q[i] = p[i+1]
  BY <1>1
<1> HIDE DEF q
<1>3. ASSUME NEW i \in 1..(Len(q) - 1) PROVE q[i+1] \in Succs(f, q[i])
  <2>1. i \in 1..(Len(p) - 1) /\ i + 1 \in 1..(Len(p) - 1)
    BY <1>1, <1>2
  <2> QED BY <1>1, <1>2, <2>1
<1>4. q /= <<>>
  BY <1>1, <1>2
<1> QED BY <1>2, <1>3, <1>4 DEF IsPath, q

(* r follows q, which ends in the k-th block of p, and then the rest of p*)
IsJoin(f, q, p, k, r) ==
    /\ IsPath(f, r) /\ r[1] = q[1] /\ r[Len(r)] = p[Len(p)]
    /\ \A i \in 1..Len(r) : \/ \E j \in 1..Len(q) : r[i] = q[j]
                            \/ \E j \in (k+1)..Len(p) : r[i] = p[j]

CanJoin(f, q, p, k) == \E r : IsJoin(f, q, p, k, r)

(* Such paths can be joined.                                             *)
LEMMA PathsJoin ==
    ASSUME NEW f, NEW q, IsPath(f, q), NEW p, IsPath(f, p),
           NEW k \in 1..Len(p), q[Len(q)] = p[k]
    PROVE  CanJoin(f, q, p, k)
<1> DEFINE m == Len(q)
           n == Len(q) + (Len(p) - k)
           r == [i \in 1..n |-> IF i <= m THEN q[i] ELSE p[(i - m) + k]]
<1>1. /\ p \in Seq(Blocks(f)) /\ q \in Seq(Blocks(f)) /\ Len(p) \in Nat \ {0} /\ m \in Nat \ {0}
      /\ \A i \in 1..(Len(p) - 1) : p[i+1] \in Succs(f, p[i])
      /\ \A i \in 1..(m - 1) : q[i+1] \in Succs(f, q[i])
      /\ \A i \in 1..Len(p) : p[i] \in Blocks(f)
      /\ \A i \in 1..m : q[i] \in Blocks(f)
  BY DEF IsPath
<1> HIDE DEF m
<1>2. n \in Nat \ {0} /\ m <= n /\ n = m + (Len(p) - k) /\ k \in Nat \ {0} /\ k <= Len(p)
  BY <1>1 DEF m
<1>3. \A i \in 1..n : i <= m => i \in 1..m /\ r[i] = q[i]
  BY <1>1, <1>2
<1>4. \A i \in 1..n : ~(i <= m) => (i - m) + k \in (k+1)..Len(p) /\ r[i] = p[(i - m) + k]
  BY <1>1, <1>2
<1>5. r \in Seq(Blocks(f)) /\ Len(r) = n
  <2>1. \A i \in 1..n : r[i] \in Blocks(f)
    <3>1. (k+1)..Len(p) \subseteq 1..Len(p)
      BY <1>1, <1>2
    <3> HIDE DEF r, n
    <3> QED BY <1>1, <1>3, <1>4, <3>1
  <2> HIDE DEF n
  <2>2. r = [i \in 1..n |-> r[i]]
    OBVIOUS
  <2> HIDE DEF r
  <2> QED BY <1>2, <2>1, <2>2
<1> HIDE DEF n, r
<1>6. ASSUME NEW i \in 1..(Len(r) - 1) PROVE r[i+1] \in Succs(f, r[i])
  <2>0. i \in 1..n /\ i + 1 \in 1..n
    BY <1>2, <1>5
  <2>1. CASE i < m
    <3>1. i <= m /\ i + 1 <= m /\ i \in 1..(m - 1)
      BY <1>1, <2>0, <2>1
    <3> QED BY <1>1, <1>3, <2>0, <3>1
  <2>2. CASE i = m
    <3>1. i <= m /\ ~(i + 1 <= m) /\ ((i + 1) - m) + k = k + 1 /\ k \in 1..(Len(p) - 1)
      BY <1>1, <1>2, <1>5, <2>2
    <3>2. r[i] = q[m] /\ r[i+1] = p[k+1]
      BY <1>3, <1>4, <2>0, <2>2, <3>1
    <3>3. p[k+1] \in Succs(f, p[k])
      BY <1>1, <3>1
    <3> QED BY <3>2, <3>3 DEF m
  <2>3. CASE i > m
    <3> DEFINE j == (i - m) + k
    <3>1. ~(i <= m) /\ ~(i + 1 <= m) /\ ((i + 1) - m) + k = j + 1 /\ j \in 1..(Len(p) - 1)
      BY <1>1, <1>2, <1>5, <2>3
    <3>2. r[i] = p[j] /\ r[i+1] = p[j+1]
      <4>1. r[i] = p[j]
        BY <1>4, <2>0, <3>1
      <4>2. r[i+1] = p[((i + 1) - m) + k]
        BY <1>4, <2>0, <3>1
      <4> QED BY <3>1, <4>1, <4>2
    <3> HIDE DEF j
    <3> QED BY <1>1, <3>1, <3>2
  <2> QED BY <1>1, <2>1, <2>2, <2>3
<1>7. r[1] = q[1] /\ r /= <<>>
  BY <1>1, <1>2, <1>3, <1>5
<1>8. r[Len(r)] = p[Len(p)]
  <2>1. CASE k = Len(p)
    <3>1. Len(r) \in 1..n /\ Len(r) <= m /\ Len(r) = m
      BY <1>1, <1>2, <1>5, <2>1
    <3> QED BY <1>3, <2>1, <3>1 DEF m
  <2>2. CASE k /= Len(p)
    <3>1. Len(r) \in 1..n /\ ~(Len(r) <= m) /\ (Len(r) - m) + k = Len(p)
      BY <1>1, <1>2, <1>5, <2>2
    <3> QED BY <1>4, <3>1
  <2> QED BY <2>1, <2>2
<1>9. \A i \in 1..Len(r) : \/ \E j \in 1..Len(q) : r[i] = q[j]
                           \/ \E j \in (k+1)..Len(p) : r[i] = p[j]
  BY <1>3, <1>4, <1>5 DEF m
<1>10. IsJoin(f, q, p, k, r)
  BY <1>5, <1>6, <1>7, <1>8, <1>9 DEF IsPath, IsJoin
<1> QED BY <1>10 DEF CanJoin
-----------------------------------------------------------------------------
(* Dominance as CFG defines it, by what can be reached around a block, is*)
(* what every path from the entry must pass.                             *)
THEOREM DominatesIsMustPass ==
    ASSUME NEW f, IsCFG(f), f.entry \in Blocks(f), NEW a, NEW b \in Blocks(f)
    PROVE  Dominates(f, a, b) <=> MustPass(f, a, b)
<1>1. CASE a = b
  <2>1. ASSUME NEW p, IsPath(f, p), p[Len(p)] = b PROVE \E k \in 1..Len(p) : p[k] = a
    <3>1. Len(p) \in 1..Len(p)
      BY <2>1 DEF IsPath
    <3> QED BY <1>1, <2>1, <3>1
  <2> QED BY <1>1, <2>1 DEF Dominates, MustPass
<1>2. CASE a /= b
  <2>1. Dominates(f, a, b) <=> ~PathTo(f, {f.entry}, {a}, b)
    BY <1>2, ReachableIsPathTo DEF Dominates
  <2>2. PathTo(f, {f.entry}, {a}, b) <=> ~MustPass(f, a, b)
    BY DEF PathTo, MustPass
  <2> QED BY <2>1, <2>2
<1> QED BY <1>1, <1>2

(* Two blocks of which each must be passed on the way to the other are   *)
(* the same, if control can get there: the first one on a path.          *)
LEMMA MustPassIsAntisymmetric ==
    ASSUME NEW f, NEW a, NEW b, MustPass(f, a, b), MustPass(f, b, a),
           NEW p, IsPath(f, p), p[1] = f.entry, p[Len(p)] = b
    PROVE  a = b
<1>1. Len(p) \in Nat \ {0}
  BY DEF IsPath
<1> DEFINE T == {k \in 1..Len(p) : p[k] \in {a, b}}
<1>2. Len(p) \in T /\ T \subseteq Nat
  BY <1>1
<1>3. PICK k \in T : \A i \in T : k <= i
  <2> HIDE DEF T
  <2> QED BY <1>2, Least
<1>4. k \in 1..Len(p) /\ k \in 1..k /\ 1 \in 1..k
  BY <1>1, <1>3
<1> DEFINE q == SubSeq(p, 1, k)
<1>5. IsPath(f, q) /\ Len(q) = k /\ \A i \in 1..k : q[i] = p[i]
  BY <1>4, PathBegins DEF IsBeginning
<1> HIDE DEF q
<1>6. q[1] = f.entry /\ q[Len(q)] = p[k]
  BY <1>4, <1>5
<1>7. ASSUME NEW c \in {a, b}, MustPass(f, c, p[k]) PROVE c = p[k]
  <2>1. PICK i \in 1..Len(q) : q[i] = c
    BY <1>5, <1>6, <1>7 DEF MustPass
  <2>2. i \in 1..Len(p) /\ p[i] = c /\ i <= k
    BY <1>1, <1>4, <1>5, <2>1
  <2>3. i \in T
    BY <2>2, <1>7
  <2>4. i = k
    BY <1>3, <1>4, <2>2, <2>3
  <2> QED BY <2>2, <2>4
<1> QED BY <1>3, <1>7

(* d is another block that must be passed on the way to b, and every such*)
(* block must be passed on the way to d.                                 *)
IsNearest(f, d, b) ==
    /\ d \in Blocks(f) /\ d /= b /\ MustPass(f, d, b)
    /\ \A e \in Blocks(f) \ {b} : MustPass(f, e, b) => MustPass(f, e, d)

(* There is one, unless b is the entry: the last on any path to b.       *)
LEMMA NearestExists ==
    ASSUME NEW f, NEW b, b /= f.entry,
           NEW p, IsPath(f, p), p[1] = f.entry, p[Len(p)] = b
    PROVE  \E d \in Blocks(f) : IsNearest(f, d, b)
<1>1. Len(p) \in Nat \ {0} /\ \A k \in 1..Len(p) : p[k] \in Blocks(f)
  BY DEF IsPath
<1> DEFINE S == {d \in Blocks(f) \ {b} : MustPass(f, d, b)}
           T == {j \in 0..(Len(p) - 1) : p[Len(p) - j] \in S}
<1>2. Len(p) - 1 \in T /\ T \subseteq Nat
  <2>1. MustPass(f, f.entry, b)
    <3> SUFFICES ASSUME NEW q, IsPath(f, q), q[1] = f.entry PROVE \E k \in 1..Len(q) : q[k] = f.entry
      BY DEF MustPass
    <3>1. 1 \in 1..Len(q)
      BY DEF IsPath
    <3> QED BY <3>1
  <2>2. 1 \in 1..Len(p) /\ Len(p) - (Len(p) - 1) = 1 /\ Len(p) - 1 \in 0..(Len(p) - 1)
    BY <1>1
  <2>3. f.entry \in Blocks(f) \ {b}
    BY <1>1, <2>2
  <2> QED BY <1>1, <2>1, <2>2, <2>3
<1>3. PICK j \in T : \A i \in T : j <= i
  <2> HIDE DEF T
  <2> QED BY <1>2, Least
<1> DEFINE k == Len(p) - j
<1>4. k \in 1..Len(p) /\ p[k] \in S
  BY <1>1, <1>3
<1>5. \A i \in (k+1)..Len(p) : p[i] \notin S
  <2> TAKE i \in (k+1)..Len(p)
  <2>1. Len(p) - i \in 0..(Len(p) - 1) /\ ~(j <= Len(p) - i) /\ Len(p) - (Len(p) - i) = i
    BY <1>1, <1>3
  <2>2. Len(p) - i \notin T
    <3> HIDE DEF T
    <3> QED BY <1>3, <2>1
  <2> QED BY <2>1, <2>2
<1> HIDE DEF k
<1>6. ASSUME NEW e \in S PROVE MustPass(f, e, p[k])
  <2> SUFFICES ASSUME NEW q, IsPath(f, q), q[1] = f.entry, q[Len(q)] = p[k]
               PROVE  \E i \in 1..Len(q) : q[i] = e
    BY DEF MustPass
  <2>1. CanJoin(f, q, p, k)
    BY <1>4, PathsJoin
  <2>2. PICK r : IsJoin(f, q, p, k, r)
    BY <2>1 DEF CanJoin
  <2>3. IsPath(f, r) /\ r[1] = f.entry /\ r[Len(r)] = b
    BY <2>2 DEF IsJoin
  <2>4. PICK i \in 1..Len(r) : r[i] = e
    BY <2>3 DEF MustPass
  <2> QED BY <1>5, <2>2, <2>4 DEF IsJoin
<1> HIDE DEF T
<1>7. IsNearest(f, p[k], b)
  BY <1>4, <1>6 DEF IsNearest
<1> QED BY <1>4, <1>7
-----------------------------------------------------------------------------
(* Induction up to a bound.                                              *)
LEMMA UpTo ==
    ASSUME NEW N \in Nat, NEW T, 0 \in T, \A k \in 1..N : k - 1 \in T => k \in T
    PROVE  \A k \in 0..N : k \in T
<1> DEFINE U == {k \in 0..N : k \notin T}
<1> SUFFICES ASSUME U /= {} PROVE FALSE
  OBVIOUS
<1>1. PICK k \in U : \A m \in U : k <= m
  <2>1. U \subseteq Nat
    OBVIOUS
  <2> QED BY <2>1, Least
<1>2. k \in 1..N /\ k - 1 \in 0..N /\ ~(k <= k - 1)
  <2>1. k /= 0
    BY <1>1
  <2> QED BY <1>1, <2>1
<1>3. k - 1 \in T
  BY <1>1, <1>2
<1> QED BY <1>1, <1>2, <1>3

(* What a list holds is finite, and no more than its places.             *)
LEMMA ListFinite ==
    ASSUME NEW I, NEW s \in Seq(I)
    PROVE  IsFiniteSet(ToSet(s)) /\ ToSet(s) \subseteq I /\ s \in Seq(ToSet(s))
           /\ Cardinality(ToSet(s)) <= Len(s)
<1> DEFINE n == Len(s)
           X == ToSet(s)
<1>1. n \in Nat /\ s \in Surjection(1..n, X) /\ X \subseteq I /\ s \in Seq(X)
  BY DEF Surjection, ToSet
<1> HIDE DEF n, X
<1>2. IsFiniteSet(1..n) /\ Cardinality(1..n) = n
  <2>1. IsFiniteSet(1..n) /\ Cardinality(1..n) = (IF 1 > n THEN 0 ELSE n - 1 + 1)
    BY <1>1, FS_Interval
  <2> QED BY <1>1, <2>1
<1>3. IsFiniteSet(X) /\ Cardinality(X) <= Cardinality(1..n)
  BY <1>1, <1>2, FS_Surjection
<1> QED BY <1>1, <1>2, <1>3 DEF n, X

(* What LLVM guarantees of the graph that is searched.                   *)
IsFlowGraph(f) ==
    /\ f.layout \in Seq(Blocks(f)) /\ f.entry \in Blocks(f)
    /\ \A b \in Blocks(f) : f.succ[b] \in Seq(Blocks(f))

(* It is a graph as the lemmas above assume.                             *)
LEMMA FlowGraphIsCFG ==
    ASSUME NEW f, IsFlowGraph(f)
    PROVE  IsCFG(f)
<1>1. ASSUME NEW b \in Blocks(f) PROVE Succs(f, b) \subseteq Blocks(f)
  <2>1. ToSet(f.succ[b]) \subseteq Blocks(f)
    <3>1. f.succ[b] \in Seq(Blocks(f))
      BY DEF IsFlowGraph
    <3> QED BY <3>1, ListFinite
  <2> QED BY <2>1 DEF Succs
<1> QED BY <1>1 DEF IsCFG, IsFlowGraph

(* Paths.  One step: each path, and each with one more block.            *)
PathsStep(f, S) == S \cup UNION {{Append(p, s) : s \in Succs(f, Last(p))} : p \in S}

PathsUpTo(f, e, j) == {p \in Seq(Blocks(f)) : IsPath(f, p) /\ p[1] = e /\ Len(p) <= j}

(* The paths of one more block are a step further.                       *)
LEMMA PathsGrow ==
    ASSUME NEW f, IsCFG(f), NEW e, NEW j \in Nat \ {0}
    PROVE  PathsStep(f, PathsUpTo(f, e, j)) = PathsUpTo(f, e, j + 1)
<1> DEFINE S == PathsUpTo(f, e, j)
<1>1. ASSUME NEW p \in S, NEW s \in Succs(f, Last(p)) PROVE Append(p, s) \in PathsUpTo(f, e, j + 1)
  <2>1. IsPath(f, p) /\ p[1] = e /\ Len(p) <= j /\ Len(p) \in Nat \ {0} /\ p \in Seq(Blocks(f))
    BY DEF PathsUpTo, IsPath
  <2>2. Last(p) = p[Len(p)] /\ p[Len(p)] \in Blocks(f)
    BY <2>1 DEF Last
  <2>3. s \in Blocks(f) /\ s \in Succs(f, p[Len(p)])
    BY <2>2 DEF IsCFG
  <2> DEFINE q == Append(p, s)
  <2>4. IsPath(f, q) /\ Len(q) = Len(p) + 1 /\ \A i \in 1..Len(p) : q[i] = p[i]
    BY <2>1, <2>3, LongerBehind
  <2> HIDE DEF q
  <2>5. q[1] = e /\ Len(q) <= j + 1 /\ q \in Seq(Blocks(f))
    BY <2>1, <2>4 DEF IsPath
  <2>6. q \in PathsUpTo(f, e, j + 1)
    BY <2>4, <2>5 DEF PathsUpTo
  <2> QED BY <2>6 DEF q
<1>2. S \subseteq PathsUpTo(f, e, j + 1)
  <2>1. \A p \in S : Len(p) \in Nat
    BY DEF PathsUpTo
  <2> QED BY <2>1 DEF PathsUpTo
<1>3. ASSUME NEW r \in PathsUpTo(f, e, j + 1), r \notin S
      PROVE  \E p \in S : \E s \in Succs(f, Last(p)) : r = Append(p, s)
  <2>1. IsPath(f, r) /\ r[1] = e /\ Len(r) <= j + 1 /\ Len(r) \in Nat \ {0} /\ r \in Seq(Blocks(f))
    BY DEF PathsUpTo, IsPath
  <2>2. Len(r) = j + 1
    BY <1>3, <2>1 DEF PathsUpTo
  <2>3. j \in 1..Len(r) /\ j \in 1..(Len(r) - 1) /\ j + 1 \in 1..Len(r)
    BY <2>2
  <2> DEFINE p == SubSeq(r, 1, j)
             s == r[j + 1]
  <2>4. IsPath(f, p) /\ Len(p) = j /\ \A i \in 1..j : p[i] = r[i]
    BY <2>1, <2>3, PathBegins DEF IsBeginning
  <2> HIDE DEF p
  <2>5. p \in S /\ Last(p) = r[j]
    <3>1. p[1] = e /\ p[j] = r[j] /\ p \in Seq(Blocks(f))
      BY <2>1, <2>4 DEF IsPath
    <3> QED BY <2>4, <3>1 DEF PathsUpTo, Last
  <2>6. s \in Succs(f, Last(p)) /\ s \in Blocks(f)
    BY <2>1, <2>3, <2>5 DEF IsPath
  <2> DEFINE q == Append(p, s)
  <2>7. q \in Seq(Blocks(f)) /\ Len(q) = j + 1 /\ q[j + 1] = s /\ \A i \in 1..j : q[i] = r[i]
    <3>1. /\ IsPath(f, q) /\ Len(q) = Len(p) + 1 /\ q[Len(p) + 1] = s
          /\ \A i \in 1..Len(p) : q[i] = p[i]
      <4>1. s \in Succs(f, p[Len(p)])
        BY <2>6 DEF Last
      <4> QED BY <2>4, <2>6, <4>1, LongerBehind
    <3> QED BY <2>4, <3>1 DEF IsPath
  <2> HIDE DEF q, s
  <2>8. \A i \in 1..(j + 1) : q[i] = r[i]
    <3>1. \A i \in 1..(j + 1) : i \in 1..j \/ i = j + 1
      OBVIOUS
    <3>2. q[j + 1] = r[j + 1]
      BY <2>7 DEF s
    <3> QED BY <2>7, <3>1, <3>2
  <2>9. q = [i \in 1..(j + 1) |-> q[i]] /\ r = [i \in 1..(j + 1) |-> r[i]]
    BY <2>1, <2>2, <2>7
  <2>10. r = q
    BY <2>8, <2>9
  <2> QED BY <2>5, <2>6, <2>10 DEF q
<1> HIDE DEF S
<1>4. PathsStep(f, S) = PathsUpTo(f, e, j + 1)
  <2> DEFINE L == PathsUpTo(f, e, j + 1)
  <2>1. ASSUME NEW r \in PathsStep(f, S) PROVE r \in L
    <3>1. r \in S \/ \E p \in S : \E s \in Succs(f, Last(p)) : r = Append(p, s)
      BY DEF PathsStep
    <3> HIDE DEF L
    <3>2. \A p \in S : \A s \in Succs(f, Last(p)) : Append(p, s) \in L
      BY <1>1 DEF L
    <3> QED BY <1>2, <3>1, <3>2 DEF L
  <2>2. ASSUME NEW r \in L PROVE r \in PathsStep(f, S)
    <3>1. r \in S \/ \E p \in S : \E s \in Succs(f, Last(p)) : r = Append(p, s)
      BY <1>3
    <3> HIDE DEF L
    <3> QED BY <3>1 DEF PathsStep
  <2> QED BY <2>1, <2>2
<1> QED BY <1>4 DEF S

(* The paths the model enumerates are the paths from the entry of at most*)
(* so many blocks.                                                       *)
LEMMA PathsAre ==
    ASSUME NEW f, IsCFG(f), NEW e \in Blocks(f), NEW n \in Nat \ {0}
    PROVE  Paths(f, e, n) = PathsUpTo(f, e, n)
<1> DEFINE Eq(h) == h = [j \in 1..n |-> IF j = 1 THEN {<<e>>} ELSE PathsStep(f, h[j-1])]
           g == CHOOSE h : Eq(h)
           v == [j \in 1..n |-> PathsUpTo(f, e, j)]
<1>1. PathsUpTo(f, e, 1) = {<<e>>}
  <2>1. IsPath(f, <<e>>) /\ Len(<<e>>) = 1 /\ <<e>>[1] = e
    BY ShortestPath
  <2>2. <<e>> \in PathsUpTo(f, e, 1)
    BY <2>1 DEF PathsUpTo, IsPath
  <2>3. ASSUME NEW p \in PathsUpTo(f, e, 1) PROVE p = <<e>>
    <3>1. p \in Seq(Blocks(f)) /\ Len(p) = 1 /\ p[1] = e
      <4>1. p \in Seq(Blocks(f)) /\ p /= <<>> /\ Len(p) <= 1 /\ p[1] = e
        BY DEF PathsUpTo, IsPath
      <4>2. Len(p) \in Nat /\ Len(p) /= 0
        BY <4>1
      <4> DEFINE m == Len(p)
      <4>3. m <= 1 /\ m \in Nat /\ m /= 0
        BY <4>1, <4>2
      <4> HIDE DEF m
      <4>4. m = 1
        BY <4>3
      <4> QED BY <4>1, <4>4 DEF m
    <3> QED BY <3>1
  <2> QED BY <2>2, <2>3
<1>2. \A j \in 1..n : v[j] = IF j = 1 THEN {<<e>>} ELSE PathsStep(f, v[j-1])
  <2> SUFFICES ASSUME NEW j \in 1..n, j /= 1 PROVE v[j] = PathsStep(f, v[j-1])
    BY <1>1
  <2> DEFINE i == j - 1
  <2>1. i \in Nat \ {0} /\ i \in 1..n /\ i + 1 = j
    OBVIOUS
  <2> HIDE DEF i
  <2>2. PathsStep(f, PathsUpTo(f, e, i)) = PathsUpTo(f, e, i + 1)
    BY <2>1, PathsGrow
  <2>3. v[i] = PathsUpTo(f, e, i) /\ v[j] = PathsUpTo(f, e, j)
    BY <2>1
  <2>4. v[j] = PathsStep(f, v[i])
    BY <2>1, <2>2, <2>3
  <2> QED BY <2>4 DEF i
<1>3. Eq(v)
  <2>1. v = [j \in 1..n |-> v[j]]
    OBVIOUS
  <2> HIDE DEF v
  <2> QED BY <1>2, <2>1
<1>4. Eq(g)
  <2> HIDE DEF Eq, v
  <2> QED BY <1>3
<1>5. Paths(f, e, n) = g[n]
  BY DEF Paths, PathsStep
<1> HIDE DEF g
<1>6. \A j \in 1..n : g[j] = IF j = 1 THEN {<<e>>} ELSE PathsStep(f, g[j-1])
  BY <1>4
<1> HIDE DEF v
<1> DEFINE U == {j \in 0..n : j /= 0 => g[j] = v[j]}
<1>7. 0 \in U
  OBVIOUS
<1>8. ASSUME NEW j \in 1..n, j - 1 \in U PROVE j \in U
  <2>1. CASE j = 1
    BY <1>2, <1>6, <2>1
  <2>2. CASE j /= 1
    <3>1. g[j-1] = v[j-1] /\ j \in 0..n
      BY <1>8, <2>2
    <3> QED BY <1>2, <1>6, <2>2, <3>1
  <2> QED BY <2>1, <2>2
<1>9. \A j \in 0..n : j \in U
  <2> HIDE DEF U
  <2> QED BY <1>7, <1>8, UpTo
<1>10. g[n] = v[n]
  BY <1>9
<1>11. v[n] = PathsUpTo(f, e, n)
  BY DEF v
<1> QED BY <1>5, <1>10, <1>11
-----------------------------------------------------------------------------
(* What LiveIn iterates, on pairs of a block and a value.                *)
Pairs(f) == Blocks(f) \X Universe(f)

Used(f) == {bv \in Pairs(f) : bv[2] \in UseSet(f, bv[1])}

LiveOnce(f) ==
    [T \in SUBSET Pairs(f) |->
        T \cup {bv \in {cv \in Pairs(f) : cv[2] \notin DefSet(f, cv[1])} :
                    \E s \in Succs(f, bv[1]) : <<s, bv[2]>> \in T}]

LiveInIsIteration(f) ==
    \E r : /\ Iterates(Pairs(f), Len(f.layout), LiveOnce(f), r) /\ r[0] = Used(f)
           /\ LiveIn(f) = [b \in Blocks(f) |-> {v \in Universe(f) : <<b, v>> \in r[Len(f.layout)]}]

(* It iterates it as often as there are blocks.                          *)
LEMMA LiveInIteration ==
    ASSUME NEW f, IsCFG(f)
    PROVE  LiveInIsIteration(f)
<1> DEFINE N == Len(f.layout)
           F == LiveOnce(f)
           D == SUBSET Pairs(f)
           through == {bv \in Pairs(f) : bv[2] \notin DefSet(f, bv[1])}
           Step(T) == T \cup {bv \in through : \E s \in Succs(f, bv[1]) : <<s, bv[2]>> \in T}
<1>1. N \in Nat
  BY BlocksFinite
<1>2. F \in [D -> D] /\ \A T \in D : F[T] = Step(T)
  <2>1. \A T \in D : Step(T) \in D
    OBVIOUS
  <2> QED BY <2>1 DEF LiveOnce
<1>3. Used(f) \in D
  BY DEF Used
<1> HIDE DEF F, N, D
<1>4. PICK r \in [0..N -> D] : r[0] = Used(f) /\ \A k \in 1..N : r[k] = F[r[k-1]]
  <2>1. F \in [D -> D]
    BY <1>2
  <2>2. IsIterated(N, D, F, Used(f))
    BY <1>1, <1>3, <2>1, IterationExists
  <2> QED BY <2>2 DEF IsIterated
<1> DEFINE Eq(g) == g = [k \in 0..N |-> IF k = 0 THEN Used(f)
                                       ELSE LET t == g[k-1]
                                            IN  t \cup {bv \in through :
                                                  \E s \in Succs(f, bv[1]) : <<s, bv[2]>> \in t}]
           g == CHOOSE h : Eq(h)
<1>5. \A k \in 1..N : k - 1 \in 0..N /\ r[k] = Step(r[k-1])
  <2> TAKE k \in 1..N
  <2>1. k - 1 \in 0..N /\ r[k-1] \in D
    BY <1>1
  <2> QED BY <1>2, <1>4, <2>1
<1>6. Eq(r)
  <2>1. \A k \in 0..N : k = 0 \/ k \in 1..N
    BY <1>1
  <2>2. \A k \in 0..N : r[k] = IF k = 0 THEN Used(f) ELSE Step(r[k-1])
    BY <1>4, <1>5, <2>1
  <2> QED BY <2>2
<1>7. Eq(g)
  <2> HIDE DEF Eq
  <2> QED BY <1>6
<1>8. LiveIn(f) = [b \in Blocks(f) |-> {v \in Universe(f) : <<b, v>> \in g[N]}]
  BY DEF LiveIn, N, Used, Pairs
<1> HIDE DEF g
<1>9. \A k \in 0..N : g[k] = IF k = 0 THEN Used(f) ELSE Step(g[k-1])
  BY <1>7
<1> HIDE DEF Step
<1>10. \A k \in 0..N : g[k] = r[k]
  <2> DEFINE T == {k \in 0..N : g[k] /= r[k]}
  <2> SUFFICES ASSUME T /= {} PROVE FALSE
    OBVIOUS
  <2>1. PICK k \in T : \A m \in T : k <= m
    <3>1. T \subseteq Nat
      BY <1>1
    <3> QED BY <3>1, Least
  <2>2. k \in 1..N /\ ~(k <= k - 1) /\ k - 1 \in 0..N
    <3>1. k /= 0
      BY <1>4, <1>9, <2>1
    <3> QED BY <1>1, <2>1, <3>1
  <2>3. k - 1 \notin T
    <3> HIDE DEF T
    <3> QED BY <2>1, <2>2
  <2>4. g[k-1] = r[k-1]
    BY <2>2, <2>3
  <2>5. g[k] = Step(g[k-1])
    <3>1. k \in 0..N /\ k /= 0
      BY <1>1, <2>2
    <3> QED BY <1>9, <3>1
  <2>6. g[k] = r[k]
    BY <1>5, <2>2, <2>4, <2>5
  <2> QED BY <2>1, <2>6
<1>11. g[N] = r[N]
  <2>1. N \in 0..N
    BY <1>1
  <2> QED BY <1>10, <2>1
<1>12. Iterates(Pairs(f), N, F, r)
  BY <1>1, <1>2, <1>4 DEF Iterates, D
<1>13. LiveIn(f) = [b \in Blocks(f) |-> {v \in Universe(f) : <<b, v>> \in r[N]}]
  BY <1>8, <1>11
<1> QED BY <1>4, <1>12, <1>13 DEF F, N, LiveInIsIteration

(* The blocks at whose start a value is live are closed under the step:  *)
(* a set that has the uses and follows the edges backwards has them all. *)
LEMMA LiveBackwards ==
    ASSUME NEW f, NEW v, NEW R,
           \A c \in Blocks(f) : v \in UseSet(f, c) => c \in R,
           \A c \in Blocks(f) : v \notin DefSet(f, c) /\ Succs(f, c) \cap R /= {} => c \in R,
           NEW b, IsLive(f, v, b)
    PROVE  b \in R
<1>1. PICK p : /\ IsPath(f, p) /\ p[1] = b /\ v \in UseSet(f, p[Len(p)])
               /\ \A k \in 1..(Len(p) - 1) : v \notin DefSet(f, p[k])
  BY DEF IsLive
<1>2. /\ p \in Seq(Blocks(f)) /\ Len(p) \in Nat \ {0}
      /\ \A k \in 1..(Len(p) - 1) : p[k+1] \in Succs(f, p[k])
      /\ \A k \in 1..Len(p) : p[k] \in Blocks(f)
  BY <1>1 DEF IsPath
<1> DEFINE T == {j \in 0..(Len(p) - 1) : p[Len(p) - j] \notin R}
<1>3. T = {}
  <2> SUFFICES ASSUME T /= {} PROVE FALSE
    OBVIOUS
  <2>1. PICK j \in T : \A i \in T : j <= i
    <3>1. T \subseteq Nat
      BY <1>2
    <3> QED BY <3>1, Least
  <2>2. j /= 0
    <3>1. Len(p) - 0 = Len(p) /\ Len(p) \in 1..Len(p)
      BY <1>2
    <3>2. p[Len(p)] \in R
      BY <1>1, <1>2, <3>1
    <3> QED BY <2>1, <3>1, <3>2
  <2>3. j - 1 \notin T /\ j - 1 \in 0..(Len(p) - 1)
    <3>1. j - 1 \in 0..(Len(p) - 1) /\ ~(j <= j - 1)
      BY <1>2, <2>1, <2>2
    <3> HIDE DEF T
    <3> QED BY <2>1, <3>1
  <2> DEFINE k == Len(p) - j
  <2>4. k \in 1..(Len(p) - 1) /\ k + 1 = Len(p) - (j - 1) /\ k \in 1..Len(p)
    BY <1>2, <2>1, <2>2
  <2>5. p[k+1] \in R /\ p[k+1] \in Succs(f, p[k])
    BY <1>2, <2>3, <2>4
  <2>6. p[k] \in R
    <3> HIDE DEF k
    <3> QED BY <1>1, <1>2, <2>4, <2>5
  <2> QED BY <2>1, <2>6
<1>4. Len(p) - 1 \in 0..(Len(p) - 1) /\ Len(p) - (Len(p) - 1) = 1
  BY <1>2
<1> QED BY <1>1, <1>3, <1>4

(* The sets that the schedulers are given are exact: LiveIn of a block is*)
(* what is live at its start. Each value spreads by itself, so as many   *)
(* rounds as there are blocks are enough for all of them.                *)
THEOREM LiveInIsLive ==
    ASSUME NEW f, IsCFG(f)
    PROVE  LiveIn(f) = [b \in Blocks(f) |-> {v \in Universe(f) : IsLive(f, v, b)}]
<1> DEFINE N == Len(f.layout)
           B == Blocks(f)
<1>1. PICK r : /\ Iterates(Pairs(f), N, LiveOnce(f), r) /\ r[0] = Used(f)
               /\ LiveIn(f) = [b \in B |-> {v \in Universe(f) : <<b, v>> \in r[N]}]
  BY LiveInIteration DEF LiveInIsIteration
<1>2. N \in Nat /\ IsFiniteSet(B) /\ Cardinality(B) <= N
  BY BlocksFinite
<1> HIDE DEF N, B
<1> USE DEF B
<1>3. /\ \A k \in 0..N : r[k] \in SUBSET Pairs(f)
      /\ \A k \in 1..N : k - 1 \in 0..N /\ k \in 0..N /\ r[k] = LiveOnce(f)[r[k-1]]
  BY <1>1, <1>2 DEF Iterates
<1>4. ASSUME NEW v \in Universe(f), NEW b \in B
      PROVE  <<b, v>> \in r[N] <=> IsLive(f, v, b)
  <2> DEFINE Back(T) == {c \in B : v \notin DefSet(f, c) /\ \E s \in Succs(f, c) : s \in T}
             F == [T \in SUBSET B |-> T \cup Back(T)]
             q == [k \in 0..N |-> {c \in B : <<c, v>> \in r[k]}]
  <2>1. F \in [SUBSET B -> SUBSET B] /\ \A T \in SUBSET B : F[T] = T \cup Back(T)
    OBVIOUS
  <2>2. q \in [0..N -> SUBSET B] /\ \A k \in 0..N : q[k] = {c \in B : <<c, v>> \in r[k]}
    OBVIOUS
  <2>3. ASSUME NEW k \in 1..N PROVE q[k] = F[q[k-1]]
    <3>1. k - 1 \in 0..N /\ k \in 0..N /\ r[k-1] \in SUBSET Pairs(f) /\ r[k] = LiveOnce(f)[r[k-1]]
      BY <1>3
    <3>2. r[k] = r[k-1] \cup {bv \in {cv \in Pairs(f) : cv[2] \notin DefSet(f, cv[1])} :
                                \E s \in Succs(f, bv[1]) : <<s, bv[2]>> \in r[k-1]}
      BY <3>1 DEF LiveOnce
    <3>3. \A c \in B : <<c, v>> \in r[k] <=>
              \/ <<c, v>> \in r[k-1]
              \/ v \notin DefSet(f, c) /\ \E s \in Succs(f, c) : <<s, v>> \in r[k-1]
      <4>1. \A c \in B : <<c, v>> \in Pairs(f) /\ <<c, v>>[1] = c /\ <<c, v>>[2] = v
        BY DEF Pairs
      <4> HIDE DEF B
      <4> QED BY <3>2, <4>1
    <3>4. \A s : <<s, v>> \in r[k-1] => s \in B
      BY <3>1 DEF Pairs
    <3>5. q[k] = {c \in B : <<c, v>> \in r[k]} /\ q[k-1] = {c \in B : <<c, v>> \in r[k-1]}
      BY <2>2, <3>1
    <3>6. q[k] = q[k-1] \cup Back(q[k-1])
      <4> HIDE DEF q, B
      <4> QED BY <3>3, <3>4, <3>5
    <3> HIDE DEF F, Back
    <3> QED BY <2>1, <2>2, <3>1, <3>6
  <2> HIDE DEF F, q
  <2>4. Iterates(B, N, F, q)
    BY <1>2, <2>1, <2>2, <2>3 DEF Iterates
  <2>5. (\A T \in SUBSET B : T \subseteq F[T]) /\ F[{}] = {}
    BY <2>1
  <2>6. F[q[N]] = q[N] /\ q[0] \subseteq q[N] /\ q[N] \subseteq B
    <3>1. F[q[N]] = q[N] /\ q[0] \subseteq q[N]
      <4> HIDE DEF B
      <4> QED BY <1>2, <2>4, <2>5, IterationCloses
    <3>2. N \in 0..N
      BY <1>2
    <3> QED BY <2>2, <3>1, <3>2
  <2>7. \A c \in B : c \in q[0] <=> v \in UseSet(f, c)
    <3>1. 0 \in 0..N
      BY <1>2
    <3>2. \A c \in B : <<c, v>> \in Used(f) <=> v \in UseSet(f, c)
      BY DEF Used, Pairs
    <3>3. q[0] = {c \in B : <<c, v>> \in Used(f)}
      BY <1>1, <2>2, <3>1
    <3> QED BY <3>2, <3>3
  <2>8. ASSUME IsLive(f, v, b) PROVE b \in q[N]
    <3>1. \A c \in Blocks(f) : v \in UseSet(f, c) => c \in q[N]
      BY <2>6, <2>7
    <3>2. \A c \in Blocks(f) : v \notin DefSet(f, c) /\ Succs(f, c) \cap q[N] /= {} => c \in q[N]
      <4>1. Back(q[N]) \subseteq q[N]
        BY <2>1, <2>6
      <4> QED BY <4>1
    <3> QED BY <2>8, <3>1, <3>2, LiveBackwards
  <2> DEFINE C == {c \in B : IsLive(f, v, c)}
  <2>9. q[N] \subseteq C
    <3>1. q[0] \subseteq C
      <4>1. q[0] \subseteq B
        BY <1>2, <2>2
      <4> QED BY <2>7, <4>1, LiveAtUse
    <3>2. ASSUME NEW T \in SUBSET B, T \subseteq C PROVE F[T] \subseteq C
      <4>1. Back(T) \subseteq C
        BY <3>2, LiveBefore
      <4> QED BY <2>1, <3>2, <4>1
    <3> HIDE DEF C, B
    <3> QED BY <2>4, <3>1, <3>2, IterationStays
  <2>10. <<b, v>> \in r[N] <=> b \in q[N]
    <3>1. N \in 0..N
      BY <1>2
    <3> QED BY <2>2, <3>1
  <2> QED BY <2>8, <2>9, <2>10
<1> QED BY <1>1, <1>4

(* The same by reachability: to a reader, around the blocks that define. *)
DefinesIn(f, v) == {d \in Blocks(f) : v \in DefSet(f, d)}

ReadsIn(f, v) == {u \in Blocks(f) : v \in UseSet(f, u)}

(* Live at a block: it reads the value, or leads, around the blocks that *)
(* define it, to a block with a successor that does.                     *)
LEMMA LiveIsReachingReader ==
    ASSUME NEW f, IsCFG(f), NEW b \in Blocks(f), NEW v
    PROVE  IsLive(f, v, b) <=>
              \/ b \in ReadsIn(f, v)
              \/ \E t \in ReachableFrom(f, {b}, DefinesIn(f, v)) : Succs(f, t) \cap ReadsIn(f, v) /= {}
<1> DEFINE avoid == DefinesIn(f, v)
<1>1. /\ ReachableFrom(f, {b}, avoid) \subseteq Blocks(f)
      /\ \A t : t \in ReachableFrom(f, {b}, avoid) <=> PathTo(f, {b}, avoid, t)
  <2> HIDE DEF avoid
  <2> QED BY ReachableIsPathTo
<1>2. \A c \in Blocks(f) : c \notin avoid <=> v \notin DefSet(f, c)
  BY DEF DefinesIn
<1> HIDE DEF avoid
<1>3. ASSUME IsLive(f, v, b), b \notin ReadsIn(f, v)
      PROVE  \E t \in ReachableFrom(f, {b}, avoid) : Succs(f, t) \cap ReadsIn(f, v) /= {}
  <2>1. PICK p : /\ IsPath(f, p) /\ p[1] = b /\ v \in UseSet(f, p[Len(p)])
                 /\ \A k \in 1..(Len(p) - 1) : v \notin DefSet(f, p[k])
    BY <1>3 DEF IsLive
  <2>2. /\ Len(p) \in Nat \ {0} /\ \A k \in 1..Len(p) : p[k] \in Blocks(f)
        /\ \A k \in 1..(Len(p) - 1) : p[k+1] \in Succs(f, p[k])
    BY <2>1 DEF IsPath
  <2> DEFINE n == Len(p) - 1
  <2>3. n \in 1..Len(p) /\ n \in 1..(Len(p) - 1) /\ n + 1 = Len(p)
    <3>1. v \notin UseSet(f, b)
      BY <1>3 DEF ReadsIn
    <3>2. Len(p) /= 1
      BY <2>1, <3>1
    <3>3. Len(p) \in Nat \ {0}
      BY <2>2
    <3> QED BY <3>2, <3>3
  <2> DEFINE q == SubSeq(p, 1, n)
  <2> HIDE DEF n
  <2>4. IsPath(f, q) /\ Len(q) = n /\ \A i \in 1..n : q[i] = p[i]
    BY <2>1, <2>3, PathBegins DEF IsBeginning
  <2> HIDE DEF q
  <2>5. q[1] = b /\ q[Len(q)] = p[n] /\ \A i \in 1..Len(q) : q[i] \notin avoid
    <3>1. 1 \in 1..n /\ n \in 1..n /\ \A i \in 1..n : i \in 1..(Len(p) - 1) /\ i \in 1..Len(p)
      BY <2>2, <2>3
    <3> QED BY <1>2, <2>1, <2>2, <2>4, <3>1
  <2>6. PathTo(f, {b}, avoid, p[n])
    BY <2>4, <2>5 DEF PathTo
  <2>7. p[n+1] \in Succs(f, p[n]) /\ p[n+1] \in ReadsIn(f, v)
    <3>1. Len(p) \in 1..Len(p)
      BY <2>2
    <3> QED BY <2>1, <2>2, <2>3, <3>1 DEF ReadsIn
  <2> QED BY <1>1, <2>6, <2>7
<1>4. ASSUME NEW t \in ReachableFrom(f, {b}, avoid), Succs(f, t) \cap ReadsIn(f, v) /= {}
      PROVE  IsLive(f, v, b)
  <2>1. PICK s \in Succs(f, t) : s \in Blocks(f) /\ v \in UseSet(f, s)
    BY <1>4 DEF ReadsIn
  <2>2. PICK p : /\ IsPath(f, p) /\ p[1] \in {b} /\ p[Len(p)] = t
                 /\ \A k \in 1..Len(p) : p[k] \notin avoid
    BY <1>1 DEF PathTo
  <2>3. Len(p) \in Nat \ {0} /\ \A k \in 1..Len(p) : p[k] \in Blocks(f)
    BY <2>2 DEF IsPath
  <2> DEFINE q == Append(p, s)
  <2>4. /\ IsPath(f, q) /\ Len(q) = Len(p) + 1 /\ q[Len(p) + 1] = s
        /\ \A k \in 1..Len(p) : q[k] = p[k]
    BY <2>1, <2>2, LongerBehind
  <2> HIDE DEF q
  <2>5. q[1] = b /\ q[Len(q)] = s /\ \A k \in 1..(Len(q) - 1) : v \notin DefSet(f, q[k])
    <3>1. 1 \in 1..Len(p) /\ Len(q) - 1 = Len(p)
      BY <2>3, <2>4
    <3> QED BY <1>2, <2>2, <2>3, <2>4, <3>1
  <2> QED BY <2>1, <2>4, <2>5 DEF IsLive
<1>5. ASSUME b \in ReadsIn(f, v) PROVE IsLive(f, v, b)
  BY <1>5, LiveAtUse DEF ReadsIn
<1> QED BY <1>3, <1>4, <1>5 DEF avoid
-----------------------------------------------------------------------------
(* The graph of a function, and its paths.                               *)
LEMMA FunctionGraph ==
    ASSUME NEW f, IsFunction(f)
    PROVE  /\ IsFlowGraph(f) /\ IsCFG(f) /\ Len(f.layout) \in Nat \ {0}
           /\ f.paths = PathsUpTo(f, f.entry, Len(f.layout))
<1>1. IsFlowGraph(f) /\ IsCFG(f)
  BY FlowGraphIsCFG DEF IsFunction, IsFlowGraph
<1>2. f.layout \in Seq(Blocks(f)) /\ f.entry \in Blocks(f)
  BY DEF IsFunction
<1>3. Len(f.layout) \in Nat \ {0}
  BY <1>2 DEF Blocks, ToSet
<1>4. f.paths = Paths(f, f.entry, Len(f.layout))
  BY DEF IsFunction
<1> QED BY <1>1, <1>2, <1>3, <1>4, PathsAre

(* The blocks that dominate a block are before it on every path.         *)
LEMMA FunctionPaths ==
    ASSUME NEW f, IsFunction(f), NEW path \in f.paths
    PROVE  /\ path \in Seq(Blocks(f)) /\ path /= <<>>
           /\ \A k \in DOMAIN path : \A a \in f.dom[path[k]] : \E m \in 1..k : path[m] = a
<1>1. IsCFG(f) /\ f.entry \in Blocks(f) /\ IsPath(f, path) /\ path[1] = f.entry
  BY FunctionGraph DEF PathsUpTo, IsFlowGraph
<1>2. path \in Seq(Blocks(f)) /\ path /= <<>> /\ DOMAIN path = 1..Len(path) /\ Len(path) \in Nat
  BY <1>1 DEF IsPath
<1>3. ASSUME NEW k \in 1..Len(path), NEW a \in f.dom[path[k]] PROVE \E m \in 1..k : path[m] = a
  <2> DEFINE q == SubSeq(path, 1, k)
  <2>1. path[k] \in Blocks(f)
    BY <1>2
  <2>2. Dominates(f, a, path[k])
    BY <2>1 DEF IsFunction
  <2>3. MustPass(f, a, path[k])
    BY <1>1, <2>1, <2>2, DominatesIsMustPass
  <2>4. IsPath(f, q) /\ Len(q) = k /\ \A i \in 1..k : q[i] = path[i]
    BY <1>1, PathBegins DEF IsBeginning
  <2> HIDE DEF q
  <2>5. q[1] = f.entry /\ q[Len(q)] = path[k]
    BY <1>1, <1>2, <2>4
  <2>6. PICK m \in 1..Len(q) : q[m] = a
    BY <2>3, <2>4, <2>5 DEF MustPass
  <2> QED BY <2>4, <2>6
<1> QED BY <1>2, <1>3

(* An instruction has one block and one position there.                  *)
LEMMA PlacedOnce ==
    ASSUME NEW f, NEW b, IsPlacement(f, b), NEW i \in Instructions(f)
    PROVE  /\ BlockOf(b, i) \in Blocks(f)
           /\ \A x \in Blocks(f) : i \in ToSet(b[x]) <=> x = BlockOf(b, i)
           /\ PosOf(b, i) \in 1..Len(b[BlockOf(b, i)])
           /\ b[BlockOf(b, i)][PosOf(b, i)] = i
<1>1. DOMAIN b = Blocks(f)
  BY DEF IsPlacement
<1>2. PICK x \in Blocks(f) : \A y \in Blocks(f) : i \in ToSet(b[y]) <=> y = x
  BY DEF IsPlacement
<1>3. BlockOf(b, i) = x
  BY <1>1, <1>2 DEF BlockOf
<1>4. b[x] \in Seq(Instructions(f))
  BY DEF IsPlacement
<1>5. \E p \in 1..Len(b[x]) : b[x][p] = i
  <2>1. DOMAIN b[x] = 1..Len(b[x])
    BY <1>4
  <2>2. i \in ToSet(b[x])
    BY <1>2
  <2> QED BY <2>1, <2>2 DEF ToSet
<1>6. PosOf(b, i) = CHOOSE p \in 1..Len(b[x]) : b[x][p] = i
  BY <1>3 DEF PosOf
<1>7. PosOf(b, i) \in 1..Len(b[x]) /\ b[x][PosOf(b, i)] = i
  BY <1>5, <1>6
<1> QED BY <1>2, <1>3, <1>7

(* Where an instruction is found, there it is.                           *)
LEMMA FoundThere ==
    ASSUME NEW f, NEW b, IsPlacement(f, b), NEW x \in Blocks(f), NEW p \in 1..Len(b[x])
    PROVE  b[x][p] \in Instructions(f) /\ BlockOf(b, b[x][p]) = x /\ PosOf(b, b[x][p]) = p
<1>1. b[x] \in Seq(Instructions(f)) /\ IsInjective(b[x])
  BY DEF IsPlacement
<1>2. DOMAIN b[x] = 1..Len(b[x]) /\ b[x][p] \in Instructions(f)
  BY <1>1
<1>3. b[x][p] \in ToSet(b[x])
  BY <1>2 DEF ToSet
<1>4. BlockOf(b, b[x][p]) = x
  BY <1>2, <1>3, PlacedOnce
<1>5. PosOf(b, b[x][p]) \in 1..Len(b[x]) /\ b[x][PosOf(b, b[x][p])] = b[x][p]
  BY <1>2, <1>4, PlacedOnce
<1>6. PosOf(b, b[x][p]) = p
  BY <1>1, <1>2, <1>5 DEF IsInjective
<1> QED BY <1>2, <1>4, <1>6

(* j comes before k in the block that holds both.                        *)
Before(b, j, k) == BlockOf(b, j) = BlockOf(b, k) /\ PosOf(b, j) < PosOf(b, k)

(* Two instructions of a block come one after the other.                 *)
LEMMA BeforeIsTotal ==
    ASSUME NEW f, NEW b, IsPlacement(f, b),
           NEW j \in Instructions(f), NEW k \in Instructions(f), BlockOf(b, j) = BlockOf(b, k)
    PROVE  /\ j /= k => Before(b, j, k) \/ Before(b, k, j)
           /\ ~(Before(b, j, k) /\ Before(b, k, j)) /\ ~Before(b, j, j)
<1>1. PosOf(b, j) \in Nat /\ PosOf(b, k) \in Nat
  BY PlacedOnce
<1>2. j /= k => PosOf(b, j) /= PosOf(b, k)
  BY PlacedOnce
<1> QED BY <1>1, <1>2 DEF Before

(* A region is a block and the anchors before the instruction in it.     *)
LEMMA SegmentIs ==
    ASSUME NEW f, NEW b, IsPlacement(f, b), NEW i \in Instructions(f)
    PROVE  Segment(f, b, i) =
             <<BlockOf(b, i), {a \in Instructions(f) : isSchedulingAnchor(f, a) /\ Before(b, a, i)}>>
<1> DEFINE s == b[BlockOf(b, i)]
           A == {s[p] : p \in {q \in DOMAIN s : q < PosOf(b, i) /\ isSchedulingAnchor(f, s[q])}}
           C == {a \in Instructions(f) : isSchedulingAnchor(f, a) /\ Before(b, a, i)}
<1>1. BlockOf(b, i) \in Blocks(f)
  BY PlacedOnce
<1>2. DOMAIN s = 1..Len(s)
  BY <1>1 DEF IsPlacement
<1>3. ASSUME NEW a \in A PROVE a \in C
  <2>1. PICK q \in 1..Len(s) : q < PosOf(b, i) /\ isSchedulingAnchor(f, s[q]) /\ a = s[q]
    BY <1>2, <1>3
  <2>2. a \in Instructions(f) /\ BlockOf(b, a) = BlockOf(b, i) /\ PosOf(b, a) = q
    BY <1>1, <2>1, FoundThere
  <2> QED BY <2>1, <2>2 DEF Before
<1>4. ASSUME NEW a \in C PROVE a \in A
  <2>1. PosOf(b, a) \in 1..Len(b[BlockOf(b, a)]) /\ b[BlockOf(b, a)][PosOf(b, a)] = a
    BY PlacedOnce
  <2>2. BlockOf(b, a) = BlockOf(b, i) /\ PosOf(b, a) < PosOf(b, i)
    BY DEF Before
  <2>3. PosOf(b, a) \in DOMAIN s /\ s[PosOf(b, a)] = a
    BY <1>2, <2>1, <2>2
  <2> QED BY <2>2, <2>3
<1>5. A = C
  BY <1>3, <1>4
<1> QED BY <1>5 DEF Segment

(* The anchors of a block with their order.                              *)
LEMMA AnchorsAre ==
    ASSUME NEW f, NEW b, IsPlacement(f, b), NEW x \in Blocks(f)
    PROVE  Anchors(f, b[x]) =
             {ij \in Instructions(f) \X Instructions(f) :
                 /\ isSchedulingAnchor(f, ij[1]) /\ isSchedulingAnchor(f, ij[2])
                 /\ BlockOf(b, ij[1]) = x /\ BlockOf(b, ij[2]) = x
                 /\ ~Before(b, ij[2], ij[1])}
<1> DEFINE C == {ij \in Instructions(f) \X Instructions(f) :
                    /\ isSchedulingAnchor(f, ij[1]) /\ isSchedulingAnchor(f, ij[2])
                    /\ BlockOf(b, ij[1]) = x /\ BlockOf(b, ij[2]) = x
                    /\ ~Before(b, ij[2], ij[1])}
           observable == {i \in ToSet(b[x]) : isSchedulingAnchor(f, i)}
<1>1. DOMAIN b[x] = 1..Len(b[x])
  BY DEF IsPlacement
<1>2. ASSUME NEW e \in Anchors(f, b[x]) PROVE e \in C
  <2>1. PICK p \in 1..Len(b[x]), q \in 1..Len(b[x]) :
          /\ p <= q /\ e = <<b[x][p], b[x][q]>>
          /\ isSchedulingAnchor(f, b[x][p]) /\ isSchedulingAnchor(f, b[x][q])
    <3>1. PICK p \in 1..Len(b[x]), q \in 1..Len(b[x]) :
            p <= q /\ e = <<b[x][p], b[x][q]>> /\ e \in observable \X observable
      BY <1>1, <1>2 DEF Anchors
    <3> QED BY <3>1
  <2>2. /\ b[x][p] \in Instructions(f) /\ BlockOf(b, b[x][p]) = x /\ PosOf(b, b[x][p]) = p
        /\ b[x][q] \in Instructions(f) /\ BlockOf(b, b[x][q]) = x /\ PosOf(b, b[x][q]) = q
    BY FoundThere
  <2>3. ~Before(b, b[x][q], b[x][p])
    BY <2>1, <2>2 DEF Before
  <2> QED BY <2>1, <2>2, <2>3
<1>3. ASSUME NEW e \in C PROVE e \in Anchors(f, b[x])
  <2>1. PICK i \in Instructions(f), j \in Instructions(f) : e = <<i, j>>
    BY <1>3
  <2>2. /\ isSchedulingAnchor(f, i) /\ isSchedulingAnchor(f, j)
        /\ BlockOf(b, i) = x /\ BlockOf(b, j) = x /\ ~Before(b, j, i)
    BY <1>3, <2>1
  <2>3. /\ PosOf(b, i) \in 1..Len(b[x]) /\ b[x][PosOf(b, i)] = i /\ i \in ToSet(b[x])
        /\ PosOf(b, j) \in 1..Len(b[x]) /\ b[x][PosOf(b, j)] = j /\ j \in ToSet(b[x])
    BY <2>2, PlacedOnce
  <2>4. PosOf(b, i) <= PosOf(b, j)
    BY <2>2, <2>3 DEF Before
  <2>5. e \in observable \X observable
    BY <2>1, <2>2, <2>3
  <2>6. \E p, q \in DOMAIN b[x] : p <= q /\ e = <<b[x][p], b[x][q]>>
    BY <1>1, <2>1, <2>3, <2>4
  <2> QED BY <2>5, <2>6 DEF Anchors
<1> QED BY <1>2, <1>3

(* What precedes the last block of a path.                               *)
LEMMA Passed ==
    ASSUME NEW f, NEW path \in Seq(Blocks(f)), path /= <<>>
    PROVE  /\ Len(path) \in Nat \ {0} /\ Last(path) = path[Len(path)] /\ Last(path) \in Blocks(f)
           /\ \A x : x \in ToSet(Front(path)) <=> \E m \in 1..(Len(path) - 1) : path[m] = x
<1>1. Len(path) \in Nat \ {0} /\ path[Len(path)] \in Blocks(f)
  OBVIOUS
<1> DEFINE s == SubSeq(path, 1, Len(path) - 1)
<1>2. DOMAIN s = 1..(Len(path) - 1) /\ \A m \in 1..(Len(path) - 1) : s[m] = path[m]
  BY <1>1
<1>3. \A x : x \in ToSet(s) <=> \E m \in 1..(Len(path) - 1) : path[m] = x
  <2> HIDE DEF s
  <2> QED BY <1>2 DEF ToSet
<1> QED BY <1>1, <1>3 DEF Last, Front

(* Operand k of instruction i has been computed when control has come    *)
(* along the path to i.                                                  *)
OperandReady(f, b, path, i, k) ==
    LET passed(x) == \E m \in 1..(Len(path) - 1) : path[m] = x
    IN  IF IsPHI(f, i)
        THEN Len(path) > 1 /\ f.from[i][k] = path[Len(path) - 1]
                => passed(BlockOf(b, f.use[i][k]))
        ELSE passed(BlockOf(b, f.use[i][k])) \/ Before(b, f.use[i][k], i)

OperandsReady(f, b) ==
    \A path \in f.paths : \A i \in Instructions(f) : \A k \in DOMAIN f.use[i] :
        BlockOf(b, i) = path[Len(path)] /\ f.use[i][k] \in Instructions(f)
        => OperandReady(f, b, path, i, k)

(* OperandsComputed speaks of blocks and of the order in them only.      *)
LEMMA ComputedIsReady ==
    ASSUME NEW f, IsFunction(f), NEW b, IsPlacement(f, b)
    PROVE  OperandsComputed(f, b) <=> OperandsReady(f, b)
<1>1. ASSUME NEW path \in f.paths
      PROVE  /\ \A i : i \in ToSet(b[Last(path)]) <=>
                          i \in Instructions(f) /\ BlockOf(b, i) = path[Len(path)]
             /\ \A x : x \in ToSet(Front(path)) <=> \E m \in 1..(Len(path) - 1) : path[m] = x
             /\ Last(path) = path[Len(path)]
  <2>1. path \in Seq(Blocks(f)) /\ path /= <<>>
    BY FunctionPaths
  <2>2. /\ Last(path) = path[Len(path)] /\ Last(path) \in Blocks(f)
        /\ \A x : x \in ToSet(Front(path)) <=> \E m \in 1..(Len(path) - 1) : path[m] = x
    BY <2>1, Passed
  <2>3. \A i \in Instructions(f) : i \in ToSet(b[Last(path)]) <=> Last(path) = BlockOf(b, i)
    BY <2>2, PlacedOnce
  <2>4. ToSet(b[Last(path)]) \subseteq Instructions(f)
    <3>1. b[Last(path)] \in Seq(Instructions(f))
      BY <2>2 DEF IsPlacement
    <3> QED BY <3>1 DEF ToSet
  <2> QED BY <2>2, <2>3, <2>4
<1>2. ASSUME OperandsComputed(f, b), NEW path \in f.paths, NEW i \in Instructions(f),
             NEW k \in DOMAIN f.use[i], BlockOf(b, i) = path[Len(path)],
             f.use[i][k] \in Instructions(f)
      PROVE  OperandReady(f, b, path, i, k)
  <2>1. i \in ToSet(b[Last(path)])
    BY <1>1, <1>2
  <2>2. IF IsPHI(f, i)
        THEN Len(path) > 1 /\ f.from[i][k] = path[Len(path) - 1]
               => BlockOf(b, f.use[i][k]) \in ToSet(Front(path))
        ELSE \/ BlockOf(b, f.use[i][k]) \in ToSet(Front(path))
             \/ BlockOf(b, f.use[i][k]) = Last(path) /\ PosOf(b, f.use[i][k]) < PosOf(b, i)
    BY <1>2, <2>1 DEF OperandsComputed
  <2> QED BY <1>1, <1>2, <2>2 DEF OperandReady, Before
<1>3. ASSUME OperandsReady(f, b), NEW path \in f.paths, NEW i \in ToSet(b[Last(path)]),
             NEW k \in DOMAIN f.use[i], f.use[i][k] \in Instructions(f)
      PROVE  IF IsPHI(f, i)
             THEN Len(path) > 1 /\ f.from[i][k] = path[Len(path) - 1]
                    => BlockOf(b, f.use[i][k]) \in ToSet(Front(path))
             ELSE \/ BlockOf(b, f.use[i][k]) \in ToSet(Front(path))
                  \/ BlockOf(b, f.use[i][k]) = Last(path) /\ PosOf(b, f.use[i][k]) < PosOf(b, i)
  <2>1. i \in Instructions(f) /\ BlockOf(b, i) = path[Len(path)]
    BY <1>1
  <2>2. OperandReady(f, b, path, i, k)
    BY <1>3, <2>1 DEF OperandsReady
  <2> QED BY <1>1, <2>1, <2>2 DEF OperandReady, Before
<1> QED BY <1>2, <1>3 DEF OperandsComputed, OperandsReady
-----------------------------------------------------------------------------
(* Anchors that stay in their blocks, in their order, are all it takes.  *)
LEMMA AnchorsKept ==
    ASSUME NEW f, NEW b, NEW c, IsPlacement(f, b), IsPlacement(f, c),
           \A i \in Instructions(f) : isSchedulingAnchor(f, i) => BlockOf(c, i) = BlockOf(b, i),
           \A i, j \in Instructions(f) :
              isSchedulingAnchor(f, i) /\ isSchedulingAnchor(f, j)
              => (Before(c, i, j) <=> Before(b, i, j))
    PROVE  \A x \in Blocks(f) : Anchors(f, c[x]) = Anchors(f, b[x])
<1> TAKE x \in Blocks(f)
<1> DEFINE A(d) == {ij \in Instructions(f) \X Instructions(f) :
                       /\ isSchedulingAnchor(f, ij[1]) /\ isSchedulingAnchor(f, ij[2])
                       /\ BlockOf(d, ij[1]) = x /\ BlockOf(d, ij[2]) = x
                       /\ ~Before(d, ij[2], ij[1])}
<1>1. A(b) = A(c)
  OBVIOUS
<1>2. Anchors(f, b[x]) = A(b) /\ Anchors(f, c[x]) = A(c)
  BY AnchorsAre
<1> QED BY <1>1, <1>2

(* An instruction is in the same region if its block is the same and the *)
(* same anchors are before it.                                           *)
LEMMA SegmentKept ==
    ASSUME NEW f, NEW b, NEW c, IsPlacement(f, b), IsPlacement(f, c),
           NEW i \in Instructions(f), BlockOf(c, i) = BlockOf(b, i),
           \A a \in Instructions(f) :
              isSchedulingAnchor(f, a) => (Before(c, a, i) <=> Before(b, a, i))
    PROVE  Segment(f, c, i) = Segment(f, b, i)
<1> DEFINE A(d) == {a \in Instructions(f) : isSchedulingAnchor(f, a) /\ Before(d, a, i)}
<1>1. A(b) = A(c)
  OBVIOUS
<1>2. Segment(f, b, i) = <<BlockOf(b, i), A(b)>> /\ Segment(f, c, i) = <<BlockOf(c, i), A(c)>>
  BY SegmentIs
<1> QED BY <1>1, <1>2

(* The same region means the same block.                                 *)
LEMMA SegmentBlock ==
    ASSUME NEW f, NEW b, NEW c, NEW i, Segment(f, c, i) = Segment(f, b, i)
    PROVE  BlockOf(c, i) = BlockOf(b, i)
  BY DEF Segment

(* c is b with each region in an order that leaves operands before their *)
(* users.                                                                *)
Reordered(f, b, c) ==
    /\ IsPlacement(f, c)
    /\ \A i \in Instructions(f) : BlockOf(c, i) = BlockOf(b, i)
    /\ \A i, j \in Instructions(f) :
          isSchedulingAnchor(f, i) \/ isSchedulingAnchor(f, j)
          => (Before(c, i, j) <=> Before(b, i, j))
    /\ \A i \in Instructions(f) : \A v \in Operands(f, i) \cap Instructions(f) :
          Before(b, v, i) => Before(c, v, i)

(* c is b with i moved to block t, to the place before the terminator.   *)
Hoisted(f, b, c, i, t) ==
    /\ IsPlacement(f, c)
    /\ i \in Instructions(f) /\ t \in Blocks(f) /\ BlockOf(b, i) /= t /\ BlockOf(c, i) = t
    /\ \A j \in Instructions(f) \ {i} : BlockOf(c, j) = BlockOf(b, j)
    /\ \A j, k \in Instructions(f) \ {i} : Before(c, j, k) <=> Before(b, j, k)
    /\ \A j \in Instructions(f) :
          BlockOf(b, j) = t => IF IsTerminator(f, j) THEN Before(c, i, j) ELSE Before(c, j, i)

(* Reordering regions is legal and leaves everything in its region.      *)
LEMMA ReorderIsMotion ==
    ASSUME NEW f, IsFunction(f), NEW b, IsPlacement(f, b), OperandsComputed(f, b),
           NEW c, Reordered(f, b, c)
    PROVE  /\ IsLegalMotion(f, b, c)
           /\ \A i \in Instructions(f) : Segment(f, c, i) = Segment(f, b, i)
<1> USE DEF Reordered
<1>1. \A x \in Blocks(f) : Anchors(f, c[x]) = Anchors(f, b[x])
  BY AnchorsKept
<1>2. \A i \in Instructions(f) : Segment(f, c, i) = Segment(f, b, i)
  BY SegmentKept
<1>3. OperandsReady(f, b)
  BY ComputedIsReady
<1>4. ASSUME NEW path \in f.paths, NEW i \in Instructions(f), NEW k \in DOMAIN f.use[i],
             BlockOf(c, i) = path[Len(path)], f.use[i][k] \in Instructions(f)
      PROVE  OperandReady(f, c, path, i, k)
  <2>1. OperandReady(f, b, path, i, k)
    BY <1>3, <1>4 DEF OperandsReady
  <2>2. f.use[i][k] \in Operands(f, i) \cap Instructions(f)
    BY <1>4 DEF Operands, ToSet
  <2>3. BlockOf(c, f.use[i][k]) = BlockOf(b, f.use[i][k])
    BY <1>4
  <2>4. Before(b, f.use[i][k], i) => Before(c, f.use[i][k], i)
    BY <2>2
  <2> QED BY <2>1, <2>3, <2>4 DEF OperandReady
<1>5. OperandsComputed(f, c)
  BY <1>4, ComputedIsReady DEF OperandsReady
<1> QED BY <1>1, <1>2, <1>5 DEF IsLegalMotion, MayMove

(* So is hoisting an instruction to a block that dominates its own and   *)
(* that its operands dominate.  On any path its old block, where its     *)
(* users found it, comes after the new one.                              *)
LEMMA HoistIsMotion ==
    ASSUME NEW f, IsFunction(f), NEW b, IsPlacement(f, b), OperandsComputed(f, b),
           NEW c, NEW i, NEW t, Hoisted(f, b, c, i, t),
           SafeToSpeculate(f, i), t \in f.dom[BlockOf(b, i)], f.loop[t] = f.loop[BlockOf(b, i)],
           \A v \in Operands(f, i) \cap Instructions(f) : BlockOf(b, v) \in f.dom[t]
    PROVE  /\ IsLegalMotion(f, b, c)
           /\ \A j \in Instructions(f) \ {i} : Segment(f, c, j) = Segment(f, b, j)
<1> USE DEF Hoisted
<1>1. ~isSchedulingAnchor(f, i)
  BY DEF SafeToSpeculate
<1>2. \A x \in Blocks(f) : Anchors(f, c[x]) = Anchors(f, b[x])
  <2>1. \A j \in Instructions(f) : isSchedulingAnchor(f, j) => j \in Instructions(f) \ {i}
    BY <1>1
  <2> QED BY <2>1, AnchorsKept
<1>3. \A j \in Instructions(f) \ {i} : Segment(f, c, j) = Segment(f, b, j)
  <2> TAKE j \in Instructions(f) \ {i}
  <2>1. \A a \in Instructions(f) :
          isSchedulingAnchor(f, a) => (Before(c, a, j) <=> Before(b, a, j))
    BY <1>1
  <2> QED BY <2>1, SegmentKept
<1>4. OperandsReady(f, b)
  BY ComputedIsReady
<1>5. ASSUME NEW path \in f.paths, NEW m \in 1..Len(path), path[m] = BlockOf(b, i)
      PROVE  \E n \in 1..(m-1) : path[n] = t
  <2>1. path \in Seq(Blocks(f))
    BY FunctionPaths
  <2>2. PICK n \in 1..m : path[n] = t
    <3>1. m \in DOMAIN path
      BY <2>1
    <3> QED BY <3>1, <1>5, FunctionPaths
  <2>3. n /= m
    BY <1>5, <2>2
  <2> QED BY <2>2, <2>3
<1>6. ASSUME NEW path \in f.paths, NEW j \in Instructions(f), NEW k \in DOMAIN f.use[j],
             BlockOf(c, j) = path[Len(path)], f.use[j][k] \in Instructions(f)
      PROVE  OperandReady(f, c, path, j, k)
  <2> DEFINE v == f.use[j][k]
  <2>1. Len(path) \in Nat \ {0}
    BY Passed, FunctionPaths
  <2>2. v \in Operands(f, j) \cap Instructions(f)
    BY <1>6 DEF Operands, ToSet
  <2> HIDE DEF v
  <2>3. CASE j = i
    <3>1. ~IsPHI(f, i) /\ v /= i /\ ~IsTerminator(f, v)
      <4>1. ~IsPHI(f, i)
        BY <1>1 DEF isSchedulingAnchor
      <4> QED BY <2>2, <2>3, <4>1 DEF IsFunction, IsVoid, IsTerminator
    <3>2. BlockOf(c, v) = BlockOf(b, v) /\ BlockOf(b, v) \in f.dom[t]
      BY <2>2, <2>3, <3>1
    <3>3. PICK m \in 1..Len(path) : path[m] = BlockOf(b, v)
      <4>1. path \in Seq(Blocks(f)) /\ Len(path) \in DOMAIN path
        BY <2>1, FunctionPaths
      <4>2. BlockOf(b, v) \in f.dom[path[Len(path)]]
        BY <1>6, <2>3, <3>2
      <4> QED BY <4>1, <4>2, FunctionPaths
    <3>4. CASE m = Len(path)
      <4>1. BlockOf(b, v) = t
        BY <1>6, <2>3, <3>3, <3>4
      <4>2. Before(c, v, i)
        BY <2>2, <3>1, <4>1
      <4> QED BY <2>3, <3>1, <4>2 DEF OperandReady, v
    <3>5. CASE m /= Len(path)
      <4>1. m \in 1..(Len(path) - 1)
        BY <2>1, <3>5
      <4> QED BY <2>3, <3>1, <3>2, <3>3, <4>1 DEF OperandReady, v
    <3> QED BY <3>4, <3>5
  <2>4. CASE j /= i /\ v = i
    <3>1. BlockOf(c, j) = BlockOf(b, j) /\ BlockOf(c, v) = t
      BY <2>4
    <3>2. OperandReady(f, b, path, j, k)
      BY <1>4, <1>6, <3>1 DEF OperandsReady
    <3>3. ASSUME NEW m \in 1..(Len(path) - 1), path[m] = BlockOf(b, v)
          PROVE  \E n \in 1..(Len(path) - 1) : path[n] = t
      <4>1. m \in 1..Len(path)
        BY <2>1
      <4>2. PICK n \in 1..(m-1) : path[n] = t
        BY <1>5, <2>4, <3>3, <4>1
      <4>3. n \in 1..(Len(path) - 1)
        BY <2>1, <4>2
      <4> QED BY <4>2, <4>3
    <3>4. ASSUME Before(b, v, j) PROVE \E n \in 1..(Len(path) - 1) : path[n] = t
      <4>1. path[Len(path)] = BlockOf(b, i)
        BY <1>6, <2>4, <3>1, <3>4 DEF Before
      <4>2. Len(path) \in 1..Len(path)
        BY <2>1
      <4> QED BY <1>5, <4>1, <4>2
    <3> QED BY <3>1, <3>2, <3>3, <3>4 DEF OperandReady, v
  <2>5. CASE j /= i /\ v /= i
    <3>1. BlockOf(c, j) = BlockOf(b, j) /\ BlockOf(c, v) = BlockOf(b, v)
      BY <2>2, <2>5
    <3>2. OperandReady(f, b, path, j, k)
      BY <1>4, <1>6, <3>1 DEF OperandsReady
    <3>3. Before(c, v, j) <=> Before(b, v, j)
      BY <2>2, <2>5
    <3> QED BY <3>1, <3>2, <3>3 DEF OperandReady, v
  <2> QED BY <2>3, <2>4, <2>5
<1>7. OperandsComputed(f, c)
  BY <1>6, ComputedIsReady DEF OperandsReady
<1>8. \A j \in Instructions(f) : MayMove(f, b, c, j)
  BY <1>3 DEF MayMove
<1> QED BY <1>2, <1>3, <1>7, <1>8 DEF IsLegalMotion

(* Two legal motions make one, if what the second takes out of its region*)
(* is where it was before the first.                                     *)
LEMMA MotionsCompose ==
    ASSUME NEW f, NEW a, NEW b, NEW c, IsLegalMotion(f, a, b), IsLegalMotion(f, b, c),
           \A i \in Instructions(f) :
              Segment(f, c, i) = Segment(f, b, i) \/ BlockOf(b, i) = BlockOf(a, i)
    PROVE  IsLegalMotion(f, a, c)
<1>1. \A x \in Blocks(f) : Anchors(f, c[x]) = Anchors(f, a[x])
  BY DEF IsLegalMotion
<1>2. ASSUME NEW i \in Instructions(f) PROVE MayMove(f, a, c, i)
  <2>1. MayMove(f, a, b, i) /\ MayMove(f, b, c, i)
    BY DEF IsLegalMotion
  <2>2. CASE Segment(f, c, i) = Segment(f, b, i)
    <3>1. BlockOf(c, i) = BlockOf(b, i)
      BY <2>2, SegmentBlock
    <3> QED BY <2>1, <2>2, <3>1 DEF MayMove
  <2>3. CASE Segment(f, c, i) /= Segment(f, b, i)
    <3>1. BlockOf(b, i) = BlockOf(a, i)
      BY <2>3
    <3> QED BY <2>1, <2>3, <3>1 DEF MayMove
  <2> QED BY <2>2, <2>3
<1> QED BY <1>1, <1>2 DEF IsLegalMotion
-----------------------------------------------------------------------------
(* r lists, position by position, what Among has taken   so far.         *)
TakesInOrder(I, sch, M, r) ==
    /\ r \in [0..Len(sch) -> Seq(I)] /\ r[0] = <<>>
    /\ \A k \in 1..Len(sch) : r[k] = IF sch[k] \in M THEN Append(r[k-1], sch[k]) ELSE r[k-1]

HasTaken(I, sch, M) == \E r : TakesInOrder(I, sch, M, r)

(* There is such an r ...                                                *)
LEMMA TakingExists ==
    ASSUME NEW I, NEW sch \in Seq(I), NEW M
    PROVE  HasTaken(I, sch, M)
<1> DEFINE N == Len(sch)
           G == [kx \in (1..N) \X Seq(I) |->
                    IF sch[kx[1]] \in M THEN Append(kx[2], sch[kx[1]]) ELSE kx[2]]
<1>1. N \in Nat /\ \A k \in 1..N : sch[k] \in I
  OBVIOUS
<1>2. G \in [(1..N) \X Seq(I) -> Seq(I)]
  BY <1>1
<1>3. \A k \in 1..N, x \in Seq(I) :
        G[<<k, x>>] = IF sch[k] \in M THEN Append(x, sch[k]) ELSE x
  OBVIOUS
<1> HIDE DEF G
<1>4. <<>> \in Seq(I)
  OBVIOUS
<1>5. IsRecursive(N, Seq(I), G, <<>>)
  BY <1>1, <1>2, <1>4, RecursionExists
<1>6. PICK r \in [0..N -> Seq(I)] : r[0] = <<>> /\ \A k \in 1..N : r[k] = G[<<k, r[k-1]>>]
  BY <1>5 DEF IsRecursive
<1>7. ASSUME NEW k \in 1..N
      PROVE  r[k] = IF sch[k] \in M THEN Append(r[k-1], sch[k]) ELSE r[k-1]
  <2>1. k - 1 \in 0..N
    BY <1>1
  <2>2. r[k-1] \in Seq(I)
    BY <1>6, <2>1
  <2> QED BY <1>3, <1>6, <2>2
<1>8. TakesInOrder(I, sch, M, r)
  BY <1>6, <1>7 DEF TakesInOrder
<1> QED BY <1>8 DEF HasTaken

(* ... and Among is where it ends.                                       *)
LEMMA AmongIsTaking ==
    ASSUME NEW I, NEW sch \in Seq(I), NEW M
    PROVE  \E r : TakesInOrder(I, sch, M, r) /\ Among(sch, M) = r[Len(sch)]
<1> DEFINE N == Len(sch)
           Step(g) == [k \in 0..N |->
                          IF k = 0 THEN <<>>
                          ELSE IF sch[k] \in M THEN Append(g[k-1], sch[k]) ELSE g[k-1]]
           o == CHOOSE g : g = Step(g)
<1>1. N \in Nat
  OBVIOUS
<1>2. PICK r : TakesInOrder(I, sch, M, r)
  BY TakingExists DEF HasTaken
<1>3. r = Step(r)
  <2>1. r = [k \in 0..N |-> r[k]]
    BY <1>2 DEF TakesInOrder
  <2>2. \A k \in 0..N : r[k] = IF k = 0 THEN <<>>
                               ELSE IF sch[k] \in M THEN Append(r[k-1], sch[k]) ELSE r[k-1]
    <3> TAKE k \in 0..N
    <3>1. CASE k = 0
      BY <1>2, <3>1 DEF TakesInOrder
    <3>2. CASE k /= 0
      <4>1. k \in 1..N
        BY <1>1, <3>2
      <4> QED BY <1>2, <3>2, <4>1 DEF TakesInOrder
    <3> QED BY <3>1, <3>2
  <2> QED BY <2>1, <2>2
<1>4. o = Step(o)
  <2> HIDE DEF Step
  <2> QED BY <1>3
<1>5. o[N] = r[N]
  <2> DEFINE T == {k \in 0..N : o[k] /= r[k]}
  <2>1. \A k \in 0..N : o[k] = IF k = 0 THEN <<>>
                               ELSE IF sch[k] \in M THEN Append(o[k-1], sch[k]) ELSE o[k-1]
    <3> HIDE DEF o
    <3> QED BY <1>4
  <2> HIDE DEF o
  <2>2. T = {}
    <3> SUFFICES ASSUME T /= {} PROVE FALSE
      OBVIOUS
    <3>1. PICK k \in T : \A m \in T : k <= m
      <4>1. T \subseteq Nat
        OBVIOUS
      <4> QED BY <4>1, Least
    <3>2. k /= 0
      <4>1. o[0] = <<>> /\ r[0] = <<>>
        BY <1>1, <1>2, <2>1 DEF TakesInOrder
      <4> QED BY <3>1, <4>1
    <3>3. k \in 1..N /\ k - 1 \in 0..N /\ ~(k <= k - 1)
      BY <1>1, <3>1, <3>2
    <3>4. o[k-1] = r[k-1]
      BY <3>1, <3>3
    <3>5. o[k] = r[k]
      BY <1>2, <2>1, <3>2, <3>3, <3>4 DEF TakesInOrder
    <3> QED BY <3>1, <3>5
  <2>3. N \in 0..N
    BY <1>1
  <2> QED BY <2>2, <2>3
<1>6. Among(sch, M) = o[N]
  BY DEF Among
<1> QED BY <1>2, <1>5, <1>6

(* What Among returns: elements of M, each from a place in sch, in the   *)
(* order of these places.                                                *)
LEMMA AmongFollows ==
    ASSUME NEW I, NEW sch \in Seq(I), NEW M
    PROVE  /\ Among(sch, M) \in Seq(I)
           /\ \A p \in 1..Len(Among(sch, M)) : Among(sch, M)[p] \in M
           /\ \A p, q \in 1..Len(Among(sch, M)) : p < q =>
                \E j, k \in 1..Len(sch) :
                    j < k /\ sch[j] = Among(sch, M)[p] /\ sch[k] = Among(sch, M)[q]
<1> DEFINE N == Len(sch)
<1>1. N \in Nat /\ \A k \in 1..N : sch[k] \in I
  OBVIOUS
<1>2. PICK r : TakesInOrder(I, sch, M, r) /\ Among(sch, M) = r[N]
  BY AmongIsTaking
<1> DEFINE In(k) == \A p \in 1..Len(r[k]) :
                       r[k][p] \in M /\ \E j \in 1..k : sch[j] = r[k][p]
           InOrder(k) == \A p, q \in 1..Len(r[k]) : p < q =>
                            \E j, m \in 1..k : j < m /\ sch[j] = r[k][p] /\ sch[m] = r[k][q]
           T == {k \in 0..N : ~(In(k) /\ InOrder(k))}
<1>3. \A k \in 0..N : r[k] \in Seq(I)
  BY <1>2 DEF TakesInOrder
<1>4. T = {}
  <2> SUFFICES ASSUME T /= {} PROVE FALSE
    OBVIOUS
  <2>1. PICK k \in T : \A m \in T : k <= m
    <3>1. T \subseteq Nat
      OBVIOUS
    <3> QED BY <3>1, Least
  <2>2. k /= 0
    <3>1. Len(r[0]) = 0
      BY <1>2 DEF TakesInOrder
    <3>2. In(0) /\ InOrder(0)
      BY <3>1
    <3> HIDE DEF In, InOrder
    <3> QED BY <2>1, <3>2
  <2>3. k \in 1..N /\ k - 1 \in 0..N /\ ~(k <= k - 1)
    BY <1>1, <2>1, <2>2
  <2>4. In(k-1) /\ InOrder(k-1)
    <3> HIDE DEF In, InOrder
    <3> QED BY <2>1, <2>3
  <2> DEFINE s == r[k-1]
  <2>5. s \in Seq(I) /\ Len(s) \in Nat
    BY <1>3, <2>3
  <2>6. r[k] = IF sch[k] \in M THEN Append(s, sch[k]) ELSE s
    BY <1>2, <2>3 DEF TakesInOrder
  <2>7. \A j \in 1..(k-1) : j \in 1..k
    BY <2>3
  <2>8. CASE sch[k] \notin M
    <3>1. r[k] = s
      BY <2>6, <2>8
    <3>2. In(k)
      <4>1. \A p \in 1..Len(s) : s[p] \in M /\ \E j \in 1..(k-1) : sch[j] = s[p]
        BY <2>4
      <4> HIDE DEF s
      <4>2. \A p \in 1..Len(s) : s[p] \in M /\ \E j \in 1..k : sch[j] = s[p]
        BY <2>7, <4>1
      <4> QED BY <3>1, <4>2
    <3>3. InOrder(k)
      <4>1. \A p, q \in 1..Len(s) : p < q =>
               \E j, m \in 1..(k-1) : j < m /\ sch[j] = s[p] /\ sch[m] = s[q]
        BY <2>4
      <4> HIDE DEF s
      <4>2. \A p, q \in 1..Len(s) : p < q =>
               \E j, m \in 1..k : j < m /\ sch[j] = s[p] /\ sch[m] = s[q]
        <5> SUFFICES ASSUME NEW p \in 1..Len(s), NEW q \in 1..Len(s), p < q
                     PROVE  \E j, m \in 1..k : j < m /\ sch[j] = s[p] /\ sch[m] = s[q]
          OBVIOUS
        <5>1. PICK j \in 1..(k-1), m \in 1..(k-1) : j < m /\ sch[j] = s[p] /\ sch[m] = s[q]
          BY <4>1
        <5> QED BY <2>7, <5>1
      <4> QED BY <3>1, <4>2
    <3> HIDE DEF In, InOrder
    <3> QED BY <2>1, <3>2, <3>3
  <2>9. CASE sch[k] \in M
    <3>1. r[k] = Append(s, sch[k])
      BY <2>6, <2>9
    <3>2. /\ Len(r[k]) = Len(s) + 1 /\ r[k][Len(s) + 1] = sch[k]
          /\ \A p \in 1..Len(s) : r[k][p] = s[p]
      BY <2>5, <3>1
    <3>3. k \in 1..k
      BY <2>3
    <3>4. \A p \in 1..Len(r[k]) : p \in 1..Len(s) \/ p = Len(s) + 1
      BY <2>5, <3>2
    <3>5. ASSUME NEW p \in 1..Len(r[k])
          PROVE  r[k][p] \in M /\ \E j \in 1..k : sch[j] = r[k][p]
      <4>1. CASE p = Len(s) + 1
        BY <2>9, <3>2, <3>3, <4>1
      <4>2. CASE p \in 1..Len(s)
        <5>1. s[p] \in M /\ \E j \in 1..(k-1) : sch[j] = s[p]
          BY <2>4, <4>2
        <5> QED BY <2>7, <3>2, <4>2, <5>1
      <4> QED BY <3>4, <4>1, <4>2
    <3>6. ASSUME NEW p \in 1..Len(r[k]), NEW q \in 1..Len(r[k]), p < q
          PROVE  \E j, m \in 1..k : j < m /\ sch[j] = r[k][p] /\ sch[m] = r[k][q]
      <4>1. p \in 1..Len(s)
        BY <2>5, <3>2, <3>6
      <4>2. CASE q = Len(s) + 1
        <5>1. PICK j \in 1..(k-1) : sch[j] = s[p]
          BY <2>4, <4>1
        <5>2. j \in 1..k /\ j < k
          BY <2>3, <5>1
        <5> QED BY <3>2, <3>3, <4>1, <4>2, <5>1, <5>2
      <4>3. CASE q \in 1..Len(s)
        <5>1. PICK j \in 1..(k-1), m \in 1..(k-1) : j < m /\ sch[j] = s[p] /\ sch[m] = s[q]
          BY <2>4, <3>6, <4>1, <4>3
        <5> QED BY <2>7, <3>2, <4>1, <4>3, <5>1
      <4> QED BY <3>4, <4>2, <4>3
    <3>7. In(k) /\ InOrder(k)
      BY <3>5, <3>6
    <3> HIDE DEF In, InOrder
    <3> QED BY <2>1, <3>7
  <2> QED BY <2>8, <2>9
<1>5. N \in 0..N
  BY <1>1
<1>6. In(N) /\ InOrder(N)
  <2> HIDE DEF In, InOrder
  <2> QED BY <1>4, <1>5
<1>7. r[N] \in Seq(I)
  BY <1>3, <1>5
<1>8. /\ \A p \in 1..Len(r[N]) : r[N][p] \in M
      /\ \A p, q \in 1..Len(r[N]) : p < q =>
           \E j, k \in 1..N : j < k /\ sch[j] = r[N][p] /\ sch[k] = r[N][q]
  BY <1>6
<1> QED BY <1>2, <1>7, <1>8
-----------------------------------------------------------------------------
(* As many different elements as a finite set has are all of them.       *)
LEMMA EnoughAreAll ==
    ASSUME NEW M, IsFiniteSet(M), NEW n \in Nat, Cardinality(M) = n, NEW o,
           \A k \in 1..n : o[k] \in M,
           \A j, k \in 1..n : j < k => o[j] /= o[k]
    PROVE  \A m \in M : \E k \in 1..n : o[k] = m
<1> DEFINE g == [k \in 1..n |-> o[k]]
<1>1. g \in Injection(1..n, M)
  <2>1. g \in [1..n -> M]
    OBVIOUS
  <2>2. ASSUME NEW j \in 1..n, NEW k \in 1..n, g[j] = g[k] PROVE j = k
    BY <2>2
  <2> QED BY <2>1, <2>2 DEF Injection, IsInjective
<1>2. IsFiniteSet(1..n) /\ Cardinality(1..n) = n
  <2>1. IsFiniteSet(1..n) /\ Cardinality(1..n) = IF 1 <= n THEN n - 1 + 1 ELSE 0
    BY FS_Interval
  <2> QED BY <2>1
<1>3. g \in Surjection(1..n, M)
  BY <1>1, <1>2, FS_Injection
<1> QED BY <1>3 DEF Surjection

(* A non-empty finite set of numbers within 1..n has its Min and its Max.*)
LEMMA MinAndMax ==
    ASSUME NEW n \in Nat, NEW R, R \subseteq 1..n, R /= {}
    PROVE  /\ Min(R) \in R /\ Max(R) \in R
           /\ \A q \in R : Min(R) <= q /\ q <= Max(R)
<1>1. \E x \in R : \A y \in R : x <= y
  <2>1. R \subseteq Nat
    OBVIOUS
  <2> QED BY <2>1, Least
<1>2. \E x \in R : \A y \in R : x >= y
  <2> DEFINE T == {k \in 0..n : n - k \in R}
  <2>1. T \subseteq Nat
    OBVIOUS
  <2>2. \A q \in R : q \in Nat /\ n - q \in 0..n /\ n - (n - q) = q
    OBVIOUS
  <2>3. T /= {}
    BY <2>2
  <2>4. PICK k \in T : \A m \in T : k <= m
    BY <2>1, <2>3, Least
  <2>5. \A q \in R : n - q \in T
    BY <2>2
  <2>6. \A q \in R : n - k >= q
    BY <2>2, <2>4, <2>5
  <2> QED BY <2>4, <2>6
<1>3. Min(R) \in R /\ \A y \in R : Min(R) <= y
  BY <1>1 DEF Min
<1>4. Max(R) \in R /\ \A y \in R : Max(R) >= y
  BY <1>2 DEF Max
<1> QED BY <1>3, <1>4

(* A region is an interval of non-anchors and is the region of each of   *)
(* its positions.                                                        *)
LEMMA RegionIs ==
    ASSUME NEW f, NEW I, NEW s \in Seq(I), NEW p \in 1..Len(s), ~isSchedulingAnchor(f, s[p])
    PROVE  /\ p \in Region(f, s, p)
           /\ Min(Region(f, s, p)) \in Nat /\ Max(Region(f, s, p)) \in Nat
           /\ Region(f, s, p) = Min(Region(f, s, p))..Max(Region(f, s, p))
           /\ Region(f, s, p) \subseteq 1..Len(s)
           /\ \A q \in Region(f, s, p) :
                 ~isSchedulingAnchor(f, s[q]) /\ Region(f, s, q) = Region(f, s, p)
<1> DEFINE R == Region(f, s, p)
<1>1. Len(s) \in Nat
  OBVIOUS
<1>2. \A q \in 1..Len(s) : q \in R <=>
         \A r \in 1..Len(s) :
            (p <= r /\ r <= q) \/ (q <= r /\ r <= p) => ~isSchedulingAnchor(f, s[r])
  BY DEF Region
<1>3. R \subseteq 1..Len(s)
  BY DEF Region
<1>4. p \in R
  <2>1. \A r \in 1..Len(s) : (p <= r /\ r <= p) \/ (p <= r /\ r <= p) => r = p
    OBVIOUS
  <2> QED BY <1>2, <2>1
<1>5. ASSUME NEW q \in R
      PROVE  ~isSchedulingAnchor(f, s[q]) /\ Region(f, s, q) = R
  <2>1. q \in 1..Len(s) /\ \A r \in 1..Len(s) :
          (p <= r /\ r <= q) \/ (q <= r /\ r <= p) => ~isSchedulingAnchor(f, s[r])
    BY <1>2, <1>3
  <2>2. ~isSchedulingAnchor(f, s[q])
    BY <2>1
  <2>3. ASSUME NEW x \in 1..Len(s) PROVE x \in Region(f, s, q) <=> x \in R
    <3>1. x \in Region(f, s, q) <=>
             \A r \in 1..Len(s) :
                (q <= r /\ r <= x) \/ (x <= r /\ r <= q) => ~isSchedulingAnchor(f, s[r])
      BY DEF Region
    <3>2. ASSUME x \in R, NEW r \in 1..Len(s), (q <= r /\ r <= x) \/ (x <= r /\ r <= q)
          PROVE  ~isSchedulingAnchor(f, s[r])
      <4>1. \/ (p <= r /\ r <= q) \/ (q <= r /\ r <= p)
            \/ (p <= r /\ r <= x) \/ (x <= r /\ r <= p)
        BY <2>1, <3>2
      <4> QED BY <1>2, <2>1, <3>2, <4>1
    <3>3. ASSUME x \in Region(f, s, q), NEW r \in 1..Len(s),
                 (p <= r /\ r <= x) \/ (x <= r /\ r <= p)
          PROVE  ~isSchedulingAnchor(f, s[r])
      <4>1. \/ (p <= r /\ r <= q) \/ (q <= r /\ r <= p)
            \/ (q <= r /\ r <= x) \/ (x <= r /\ r <= q)
        BY <2>1, <3>3
      <4> QED BY <2>1, <3>1, <3>3, <4>1
    <3> QED BY <1>2, <3>1, <3>2, <3>3
  <2>4. Region(f, s, q) \subseteq 1..Len(s)
    BY DEF Region
  <2> QED BY <1>3, <2>2, <2>3, <2>4
<1> HIDE DEF R
<1>6. Min(R) \in R /\ Max(R) \in R /\ \A q \in R : Min(R) <= q /\ q <= Max(R)
  BY <1>1, <1>3, <1>4, MinAndMax
<1> DEFINE lo == Min(R)
           hi == Max(R)
<1> HIDE DEF lo, hi
<1>7. lo \in R /\ hi \in R /\ \A q \in R : lo <= q /\ q <= hi
  BY <1>6 DEF lo, hi
<1>8. lo \in 1..Len(s) /\ hi \in 1..Len(s)
  BY <1>3, <1>7
<1>9. ASSUME NEW q \in lo..hi PROVE q \in R
  <2>1. q \in 1..Len(s)
    BY <1>1, <1>8
  <2>2. ASSUME NEW r \in 1..Len(s), (p <= r /\ r <= q) \/ (q <= r /\ r <= p)
        PROVE  ~isSchedulingAnchor(f, s[r])
    <3>1. (p <= r /\ r <= hi) \/ (lo <= r /\ r <= p)
      BY <1>8, <2>1, <2>2
    <3> QED BY <1>2, <1>7, <1>8, <3>1
  <2> QED BY <1>2, <2>1, <2>2
<1>10. R = lo..hi /\ lo \in Nat /\ hi \in Nat
  <2>1. \A q \in R : q \in 1..Len(s)
    BY <1>3
  <2>2. \A q \in R : q \in lo..hi
    BY <1>7, <1>8, <2>1
  <2>3. R = lo..hi
    <3>1. \A q : q \in R <=> q \in lo..hi
      BY <1>9, <2>2
    <3> QED BY <3>1
  <2>4. lo \in Nat /\ hi \in Nat
    BY <1>1, <1>8
  <2> QED BY <2>3, <2>4
<1> QED BY <1>3, <1>4, <1>5, <1>10 DEF R, lo, hi

(* The sequence r has at the positions of R what s has there, in the     *)
(* order of sch; or it has it at the same ones.                          *)
FollowsIn(sch, s, r, R) ==
    /\ \A q \in R : \E x \in R : r[q] = s[x]
    /\ \A q \in R : \E x \in R : r[x] = s[q]
    /\ \A x, y \in R : x < y =>
          \E j, k \in 1..Len(sch) : j < k /\ sch[j] = r[x] /\ sch[k] = r[y]

StaysIn(s, r, R) == \A q \in R : r[q] = s[q]

OrderedIn(sch, s, r, R) == StaysIn(s, r, R) \/ FollowsIn(sch, s, r, R)

(* In a sequence that repeats nothing, a set of positions holds as many  *)
(* members as it has positions.                                          *)
LEMMA AsManyMembers ==
    ASSUME NEW I, NEW s \in Seq(I), IsInjective(s), NEW R, R \subseteq 1..Len(s),
           NEW M, M = {s[q] : q \in R}
    PROVE  IsFiniteSet(M) /\ Cardinality(M) = Cardinality(R)
<1> DEFINE g == [q \in R |-> s[q]]
<1>1. g \in [R -> M] /\ \A m \in M : \E q \in R : g[q] = m
  OBVIOUS
<1>2. DOMAIN s = 1..Len(s)
  OBVIOUS
<1>3. \A x, y \in R : g[x] = g[y] => x = y
  BY <1>2 DEF IsInjective
<1>4. g \in Bijection(R, M)
  BY <1>1, <1>3 DEF Bijection, Injection, Surjection, IsInjective
<1>5. IsFiniteSet(R)
  <2>1. Len(s) \in Nat
    OBVIOUS
  <2>2. IsFiniteSet(1..Len(s))
    BY <2>1, FS_Interval
  <2> QED BY <2>2, FS_Subset
<1> HIDE DEF g
<1> QED BY <1>4, <1>5, FS_Bijection DEF ExistsBijection

(* The sequence has as many elements as it is long.                      *)
LEMMA AsManyElements ==
    ASSUME NEW I, NEW s \in Seq(I), IsInjective(s)
    PROVE  Cardinality(ToSet(s)) = Len(s)
<1>1. ToSet(s) = {s[q] : q \in 1..Len(s)} /\ Len(s) \in Nat
  BY DEF ToSet
<1>2. Cardinality(ToSet(s)) = Cardinality(1..Len(s))
  <2>1. s \in [1..Len(s) -> ToSet(s)] /\ \A x, y \in 1..Len(s) : s[x] = s[y] => x = y
    BY <1>1 DEF IsInjective
  <2>2. s \in Bijection(1..Len(s), ToSet(s))
    BY <1>1, <2>1 DEF Bijection, Injection, Surjection, IsInjective
  <2>3. IsFiniteSet(1..Len(s))
    BY <1>1, FS_Interval
  <2> QED BY <2>2, <2>3, FS_Bijection DEF ExistsBijection
<1>3. Cardinality(1..Len(s)) = IF 1 <= Len(s) THEN Len(s) - 1 + 1 ELSE 0
  BY <1>1, FS_Interval
<1>4. Len(s) - 1 + 1 = Len(s) /\ (~(1 <= Len(s)) => Len(s) = 0)
  BY <1>1
<1> QED BY <1>2, <1>3, <1>4

(* What reorderBlockWithinRegions asks before it reorders a region.      *)
ListsRegion(f, sch, s, R) ==
    Len(Among(sch, {s[q] : q \in R})) = Cardinality(R) /\ Max(R) < Len(s)

(* If the schedule lists as many of a region's instructions as there are *)
(* and an anchor follows, they take its order.                           *)
LEMMA RegionFollows ==
    ASSUME NEW f, NEW I, NEW sch \in Seq(I), IsInjective(sch),
           NEW s \in Seq(I), IsInjective(s),
           NEW p \in 1..Len(s), ~isSchedulingAnchor(f, s[p]),
           ListsRegion(f, sch, s, Region(f, s, p))
    PROVE  FollowsIn(sch, s, reorderBlockWithinRegions(f, sch, s), Region(f, s, p))
<1> DEFINE r == reorderBlockWithinRegions(f, sch, s)
           R == Region(f, s, p)
           lo == Min(R)
           hi == Max(R)
           M == {s[q] : q \in R}
           o == Among(sch, M)
<1>1. /\ p \in R /\ lo \in Nat /\ hi \in Nat /\ R = lo..hi /\ R \subseteq 1..Len(s)
      /\ \A q \in R : ~isSchedulingAnchor(f, s[q]) /\ Region(f, s, q) = R
  BY RegionIs
<1>2. ASSUME NEW q \in R
      PROVE  r[q] = IF Len(o) = Cardinality(R) /\ hi < Len(s) THEN o[q - lo + 1] ELSE s[q]
  <2>1. q \in 1..Len(s) /\ ~isSchedulingAnchor(f, s[q]) /\ Region(f, s, q) = R
    BY <1>1
  <2> HIDE DEF R
  <2> QED BY <2>1 DEF reorderBlockWithinRegions
<1>3. /\ o \in Seq(I) /\ \A k \in 1..Len(o) : o[k] \in M
      /\ \A x, y \in 1..Len(o) : x < y =>
            \E j, k \in 1..Len(sch) : j < k /\ sch[j] = o[x] /\ sch[k] = o[y]
  <2> HIDE DEF M
  <2>1. o \in Seq(I)
    BY AmongFollows
  <2>2. \A k \in 1..Len(o) : o[k] \in M
    BY AmongFollows
  <2>3. \A x, y \in 1..Len(o) : x < y =>
            \E j, k \in 1..Len(sch) : j < k /\ sch[j] = o[x] /\ sch[k] = o[y]
    BY AmongFollows
  <2> QED BY <2>1, <2>2, <2>3
<1>4. Len(o) = Cardinality(R) /\ hi < Len(s)
  BY DEF ListsRegion
<1> HIDE DEF r, o, R, lo, hi
<1>5. lo <= hi /\ Cardinality(R) = hi - lo + 1 /\ IsFiniteSet(R) /\ hi - lo + 1 \in Nat
  <2>1. lo <= hi
    BY <1>1
  <2>2. /\ IsFiniteSet(lo..hi)
        /\ Cardinality(lo..hi) = IF lo <= hi THEN hi - lo + 1 ELSE 0
    BY <1>1, FS_Interval
  <2> QED BY <1>1, <2>1, <2>2
<1>6. IsFiniteSet(M) /\ Cardinality(M) = Cardinality(R)
  BY <1>1, <1>5, AsManyMembers
<1>7. \A x, y \in 1..Len(o) : x < y => o[x] /= o[y]
  <2> TAKE x, y \in 1..Len(o)
  <2> HAVE x < y
  <2>1. PICK j \in 1..Len(sch), k \in 1..Len(sch) : j < k /\ sch[j] = o[x] /\ sch[k] = o[y]
    BY <1>3
  <2>2. DOMAIN sch = 1..Len(sch)
    OBVIOUS
  <2>3. sch[j] /= sch[k]
    BY <2>1, <2>2 DEF IsInjective
  <2> QED BY <2>1, <2>3
<1>8. \A m \in M : \E k \in 1..Len(o) : o[k] = m
  <2>1. Len(o) \in Nat /\ Cardinality(M) = Len(o)
    BY <1>4, <1>5, <1>6
  <2>2. \A k \in 1..Len(o) : o[k] \in M
    BY <1>3
  <2> HIDE DEF M
  <2> DEFINE n == Len(o)
  <2>3. n \in Nat /\ Cardinality(M) = n /\ \A k \in 1..n : o[k] \in M
    BY <2>1, <2>2
  <2>4. \A x, y \in 1..n : x < y => o[x] /= o[y]
    BY <1>7
  <2> HIDE DEF n
  <2>5. \A m \in M : \E k \in 1..n : o[k] = m
    BY <1>6, <2>3, <2>4, EnoughAreAll
  <2> QED BY <2>5 DEF n
<1>9. ASSUME NEW q \in R
      PROVE  q - lo + 1 \in 1..Len(o) /\ r[q] = o[q - lo + 1] /\ q \in lo..hi
  BY <1>1, <1>2, <1>4, <1>5
<1>10. ASSUME NEW k \in 1..Len(o)
      PROVE  k + lo - 1 \in R /\ r[k + lo - 1] = o[k]
  <2>1. k + lo - 1 \in R /\ (k + lo - 1) - lo + 1 = k
    BY <1>1, <1>4, <1>5
  <2> QED BY <1>9, <2>1
<1>11. ASSUME NEW q \in R PROVE \E x \in R : r[q] = s[x]
  <2>1. o[q - lo + 1] \in M
    BY <1>3, <1>9
  <2> QED BY <1>9, <2>1
<1>12. ASSUME NEW q \in R PROVE \E x \in R : r[x] = s[q]
  <2>1. PICK k \in 1..Len(o) : o[k] = s[q]
    BY <1>8
  <2> QED BY <1>10, <2>1
<1>13. ASSUME NEW x \in R, NEW y \in R, x < y
      PROVE  \E j, k \in 1..Len(sch) : j < k /\ sch[j] = r[x] /\ sch[k] = r[y]
  <2>1. x - lo + 1 < y - lo + 1
    BY <1>1, <1>9, <1>13
  <2>2. /\ x - lo + 1 \in 1..Len(o) /\ y - lo + 1 \in 1..Len(o)
        /\ r[x] = o[x - lo + 1] /\ r[y] = o[y - lo + 1]
    BY <1>9
  <2> QED BY <1>3, <2>1, <2>2
<1> QED BY <1>11, <1>12, <1>13 DEF FollowsIn, r, R

(* The schedule orders a region or leaves it: if it lists as many of the *)
(* region's instructions as there are, it lists them all.                *)
LEMMA RegionReordered ==
    ASSUME NEW f, NEW I, NEW sch \in Seq(I), IsInjective(sch),
           NEW s \in Seq(I), IsInjective(s),
           NEW p \in 1..Len(s), ~isSchedulingAnchor(f, s[p])
    PROVE  OrderedIn(sch, s, reorderBlockWithinRegions(f, sch, s), Region(f, s, p))
<1> DEFINE r == reorderBlockWithinRegions(f, sch, s)
           R == Region(f, s, p)
<1>1. CASE ~ListsRegion(f, sch, s, R)
  <2>1. ASSUME NEW q \in R PROVE r[q] = s[q]
    <3>1. q \in 1..Len(s) /\ ~isSchedulingAnchor(f, s[q]) /\ Region(f, s, q) = R
      BY RegionIs
    <3> HIDE DEF R
    <3> QED BY <1>1, <3>1 DEF reorderBlockWithinRegions, ListsRegion
  <2> QED BY <2>1 DEF OrderedIn, StaysIn
<1>2. CASE ListsRegion(f, sch, s, R)
  BY <1>2, RegionFollows DEF OrderedIn
<1> QED BY <1>1, <1>2

(* A region the schedule leaves part of out stays as it is.              *)
LEMMA IncompleteRegionStays ==
    ASSUME NEW f, NEW I, NEW sch \in Seq(I), IsInjective(sch),
           NEW s \in Seq(I), IsInjective(s),
           NEW p \in 1..Len(s), ~isSchedulingAnchor(f, s[p]),
           ~({s[q] : q \in Region(f, s, p)} \subseteq ToSet(sch))
    PROVE  StaysIn(s, reorderBlockWithinRegions(f, sch, s), Region(f, s, p))
<1> DEFINE r == reorderBlockWithinRegions(f, sch, s)
           R == Region(f, s, p)
<1>1. OrderedIn(sch, s, r, R) /\ R \subseteq 1..Len(s)
  BY RegionReordered, RegionIs
<1>2. PICK o \in R : \A j \in 1..Len(sch) : sch[j] /= s[o]
  BY DEF ToSet
<1> HIDE DEF r, R
<1>3. CASE FollowsIn(sch, s, r, R)
  <2>1. PICK x \in R : r[x] = s[o]
    BY <1>3 DEF FollowsIn
  <2>2. ASSUME NEW y \in R, y /= x PROVE FALSE
    <3>1. x < y \/ y < x
      BY <1>1, <2>2
    <3>2. \E j \in 1..Len(sch) : sch[j] = r[x]
      BY <1>3, <3>1 DEF FollowsIn
    <3> QED BY <1>2, <2>1, <3>2
  <2>3. o = x /\ \A q \in R : q = x
    BY <2>2
  <2> QED BY <2>1, <2>3 DEF StaysIn, r, R
<1> QED BY <1>1, <1>3 DEF OrderedIn, r, R

(* r is s with its anchors in place and its regions permuted.            *)
Shuffled(f, s, r) ==
    /\ r = [p \in 1..Len(s) |-> r[p]]
    /\ \A p \in 1..Len(s) : isSchedulingAnchor(f, s[p]) => r[p] = s[p]
    /\ \A p \in 1..Len(s) : ~isSchedulingAnchor(f, s[p]) =>
          /\ \E q \in Region(f, s, p) : r[p] = s[q]
          /\ \E q \in Region(f, s, p) : r[q] = s[p]

(* That is what reordering a block does to it.                           *)
LEMMA ReorderShuffles ==
    ASSUME NEW f, NEW I, NEW sch \in Seq(I), IsInjective(sch), NEW s \in Seq(I), IsInjective(s)
    PROVE  Shuffled(f, s, reorderBlockWithinRegions(f, sch, s))
<1> DEFINE r == reorderBlockWithinRegions(f, sch, s)
<1>1. r = [p \in 1..Len(s) |-> r[p]]
  BY DEF reorderBlockWithinRegions
<1>2. \A p \in 1..Len(s) : isSchedulingAnchor(f, s[p]) => r[p] = s[p]
  BY DEF reorderBlockWithinRegions
<1>3. ASSUME NEW p \in 1..Len(s), ~isSchedulingAnchor(f, s[p])
      PROVE  /\ \E q \in Region(f, s, p) : r[p] = s[q]
             /\ \E q \in Region(f, s, p) : r[q] = s[p]
  <2>1. p \in Region(f, s, p)
    BY <1>3, RegionIs
  <2>2. OrderedIn(sch, s, r, Region(f, s, p))
    BY <1>3, RegionReordered
  <2> HIDE DEF r
  <2> QED BY <2>1, <2>2 DEF OrderedIn, StaysIn, FollowsIn
<1> QED BY <1>1, <1>2, <1>3 DEF Shuffled

(* Such a permutation lists the same elements, each once.                *)
LEMMA ShuffleIsPermutation ==
    ASSUME NEW f, NEW I, NEW s \in Seq(I), IsInjective(s), NEW r, Shuffled(f, s, r)
    PROVE  r \in Seq(I) /\ Len(r) = Len(s) /\ ToSet(r) = ToSet(s) /\ IsInjective(r)
<1> DEFINE n == Len(s)
<1>1. n \in Nat /\ DOMAIN s = 1..n /\ r = [p \in 1..n |-> r[p]] /\ \A p \in 1..n : s[p] \in I
  BY DEF Shuffled
<1>2. \A p \in 1..n : Region(f, s, p) \subseteq 1..n
  BY DEF Region
<1>3. ASSUME NEW p \in 1..n PROVE \E q \in 1..n : r[p] = s[q]
  BY <1>2 DEF Shuffled
<1>4. ASSUME NEW q \in 1..n PROVE \E p \in 1..n : r[p] = s[q]
  BY <1>2 DEF Shuffled
<1> HIDE DEF n
<1>5. DOMAIN r = 1..n /\ r \in Seq(I) /\ Len(r) = n
  <2>1. \A p \in 1..n : r[p] \in I
    BY <1>1, <1>3
  <2>2. r \in [1..n -> I]
    BY <1>1, <2>1
  <2> QED BY <1>1, <2>2
<1>6. ToSet(r) = ToSet(s)
  BY <1>1, <1>3, <1>4, <1>5 DEF ToSet
<1>7. IsInjective(r)
  <2> DEFINE T == {s[q] : q \in 1..n}
  <2>1. r \in Surjection(1..n, T)
    <3>1. \A p \in 1..n : r[p] \in T
      BY <1>3
    <3>2. \A m \in T : \E p \in 1..n : r[p] = m
      BY <1>4
    <3>3. r \in [1..n -> T]
      BY <1>1, <3>1
    <3> QED BY <3>2, <3>3 DEF Surjection
  <2>2. s \in Bijection(1..n, T)
    <3>1. s \in [1..n -> T] /\ \A m \in T : \E q \in 1..n : s[q] = m
      BY <1>1
    <3> QED BY <1>1, <3>1 DEF Bijection, Injection, Surjection, IsInjective
  <2>3. IsFiniteSet(1..n)
    BY <1>1, FS_Interval
  <2> HIDE DEF T
  <2>4. Cardinality(T) = Cardinality(1..n)
    BY <2>2, <2>3, FS_Bijection DEF ExistsBijection
  <2>5. r \in Injection(1..n, T)
    BY <2>1, <2>3, <2>4, FS_SurjSameCardinalityImpliesInj
  <2> QED BY <1>5, <2>5 DEF Injection, IsInjective
<1> QED BY <1>5, <1>6, <1>7 DEF n

(* The program c has block x of b shuffled and the other blocks as in b. *)
ShufflesBlock(f, b, c, x) ==
    /\ c \in [Blocks(f) -> Seq(Instructions(f))]
    /\ Shuffled(f, b[x], c[x])
    /\ \A y \in Blocks(f) : y /= x => c[y] = b[y]

(* Everything stays in its block.                                        *)
LEMMA ShuffleKeepsBlocks ==
    ASSUME NEW f, NEW b, IsPlacement(f, b), NEW x \in Blocks(f), NEW c, ShufflesBlock(f, b, c, x)
    PROVE  IsPlacement(f, c) /\ \A i \in Instructions(f) : BlockOf(c, i) = BlockOf(b, i)
<1>1. \A y \in Blocks(f) : IsInjective(c[y]) /\ ToSet(c[y]) = ToSet(b[y])
  <2>1. b[x] \in Seq(Instructions(f)) /\ IsInjective(b[x])
    BY DEF IsPlacement
  <2>2. ToSet(c[x]) = ToSet(b[x]) /\ IsInjective(c[x])
    BY <2>1, ShuffleIsPermutation DEF ShufflesBlock
  <2> QED BY <2>2 DEF IsPlacement, ShufflesBlock
<1>2. IsPlacement(f, c)
  <2>1. c \in [Blocks(f) -> Seq(Instructions(f))]
    BY DEF ShufflesBlock
  <2>2. \A i \in Instructions(f) : \E z \in Blocks(f) :
          \A y \in Blocks(f) : i \in ToSet(c[y]) <=> y = z
    <3> TAKE i \in Instructions(f)
    <3>1. PICK z \in Blocks(f) : \A y \in Blocks(f) : i \in ToSet(b[y]) <=> y = z
      BY DEF IsPlacement
    <3> QED BY <1>1, <3>1
  <2> QED BY <1>1, <2>1, <2>2 DEF IsPlacement
<1>3. ASSUME NEW i \in Instructions(f) PROVE BlockOf(c, i) = BlockOf(b, i)
  <2>1. i \in ToSet(b[BlockOf(b, i)]) /\ BlockOf(b, i) \in Blocks(f)
    BY PlacedOnce
  <2>2. i \in ToSet(c[BlockOf(b, i)])
    BY <1>1, <2>1
  <2> QED BY <1>2, <2>1, <2>2, PlacedOnce
<1> QED BY <1>2, <1>3

(* Anchors stay in their places, the others in their regions.            *)
LEMMA ShuffleKeepsPlaces ==
    ASSUME NEW f, NEW b, IsPlacement(f, b), NEW x \in Blocks(f), NEW c, ShufflesBlock(f, b, c, x),
           NEW i \in Instructions(f)
    PROVE  /\ BlockOf(b, i) /= x \/ isSchedulingAnchor(f, i) => PosOf(c, i) = PosOf(b, i)
           /\ BlockOf(b, i) = x /\ ~isSchedulingAnchor(f, i) =>
                PosOf(c, i) \in Region(f, b[x], PosOf(b, i))
<1> DEFINE s == b[x]
           r == c[x]
           p == PosOf(b, i)
           q == PosOf(c, i)
<1>1. s \in Seq(Instructions(f)) /\ IsInjective(s) /\ Shuffled(f, s, r)
  BY DEF IsPlacement, ShufflesBlock
<1>2. Len(r) = Len(s)
  BY <1>1, ShuffleIsPermutation
<1>3. IsPlacement(f, c) /\ BlockOf(c, i) = BlockOf(b, i) /\ BlockOf(b, i) \in Blocks(f)
  BY ShuffleKeepsBlocks, PlacedOnce
<1>4. /\ p \in 1..Len(b[BlockOf(b, i)]) /\ b[BlockOf(b, i)][p] = i
      /\ q \in 1..Len(c[BlockOf(b, i)]) /\ c[BlockOf(b, i)][q] = i
  <2>1. p \in 1..Len(b[BlockOf(b, i)]) /\ b[BlockOf(b, i)][p] = i
    BY PlacedOnce
  <2>2. q \in 1..Len(c[BlockOf(c, i)]) /\ c[BlockOf(c, i)][q] = i
    BY <1>3, PlacedOnce
  <2> QED BY <1>3, <2>1, <2>2
<1> HIDE DEF q
<1>5. CASE BlockOf(b, i) /= x
  <2>1. b[BlockOf(b, i)][q] = i /\ q \in 1..Len(b[BlockOf(b, i)])
    BY <1>3, <1>4, <1>5 DEF ShufflesBlock
  <2>2. PosOf(b, i) = q
    BY <1>3, <2>1, FoundThere
  <2> QED BY <1>5, <2>2 DEF q
<1>6. CASE BlockOf(b, i) = x
  <2>1. p \in 1..Len(s) /\ s[p] = i /\ q \in 1..Len(s) /\ r[q] = i
    BY <1>2, <1>4, <1>6
  <2>2. \A y \in 1..Len(s) : s[y] = i => y = p
    <3>1. DOMAIN s = 1..Len(s)
      BY <1>1
    <3> QED BY <1>1, <2>1, <3>1 DEF IsInjective
  <2>3. CASE isSchedulingAnchor(f, s[q])
    <3>1. r[q] = s[q]
      BY <1>1, <2>1, <2>3 DEF Shuffled
    <3>2. q = p
      BY <2>1, <2>2, <3>1
    <3> QED BY <1>6, <2>1, <2>3, <3>2 DEF q
  <2>4. CASE ~isSchedulingAnchor(f, s[q])
    <3>1. PICK y \in Region(f, s, q) : r[q] = s[y]
      BY <1>1, <2>1, <2>4 DEF Shuffled
    <3>2. /\ q \in Region(f, s, q) /\ y \in 1..Len(s) /\ ~isSchedulingAnchor(f, s[y])
          /\ Region(f, s, y) = Region(f, s, q)
      BY <1>1, <2>1, <2>4, <3>1, RegionIs
    <3>3. y = p
      BY <2>1, <2>2, <3>1, <3>2
    <3> QED BY <1>6, <2>1, <3>2, <3>3 DEF q
  <2> QED BY <2>3, <2>4
<1> QED BY <1>5, <1>6

(* The order of an anchor and any other instruction stays.               *)
LEMMA ShuffleKeepsAnchorOrder ==
    ASSUME NEW f, NEW b, IsPlacement(f, b), NEW x \in Blocks(f), NEW c, ShufflesBlock(f, b, c, x),
           NEW i \in Instructions(f), isSchedulingAnchor(f, i), NEW j \in Instructions(f)
    PROVE  (Before(c, i, j) <=> Before(b, i, j)) /\ (Before(c, j, i) <=> Before(b, j, i))
<1> DEFINE p == PosOf(b, i)
           q == PosOf(b, j)
           m == PosOf(c, j)
           R == Region(f, b[x], q)
<1>1. BlockOf(c, i) = BlockOf(b, i) /\ BlockOf(c, j) = BlockOf(b, j) /\ PosOf(c, i) = p
  BY ShuffleKeepsBlocks, ShuffleKeepsPlaces
<1>2. CASE BlockOf(b, j) /= x \/ isSchedulingAnchor(f, j)
  BY <1>1, <1>2, ShuffleKeepsPlaces DEF Before
<1>3. CASE BlockOf(b, i) /= BlockOf(b, j)
  BY <1>1, <1>3 DEF Before
<1>4. CASE BlockOf(b, i) = x /\ BlockOf(b, j) = x /\ ~isSchedulingAnchor(f, j)
  <2>1. m \in R
    BY <1>4, ShuffleKeepsPlaces
  <2>2. p \in 1..Len(b[x]) /\ b[x][p] = i /\ q \in 1..Len(b[x]) /\ b[x][q] = j
    BY <1>4, PlacedOnce
  <2>3. b[x] \in Seq(Instructions(f))
    BY DEF IsPlacement
  <2>4. /\ q \in R /\ R = Min(R)..Max(R) /\ Min(R) \in Nat /\ Max(R) \in Nat
        /\ \A y \in R : ~isSchedulingAnchor(f, b[x][y])
    BY <1>4, <2>2, <2>3, RegionIs
  <2>5. p \notin R
    BY <2>2, <2>4
  <2> HIDE DEF p, q, m, R
  <2>6. p \in Nat /\ q \in Nat /\ m \in Nat /\ (p < q <=> p < m) /\ (q < p <=> m < p)
    BY <2>1, <2>2, <2>4, <2>5
  <2> QED BY <1>1, <1>4, <2>6 DEF Before, p, q, m
<1> QED BY <1>2, <1>3, <1>4

(* What the schedule lists, it lists after its operands.                 *)
AfterOperands(f, sch) ==
    \A j, k \in DOMAIN sch :
        ~isSchedulingAnchor(f, sch[k]) /\ sch[j] \in Operands(f, sch[k]) => j < k

(* So an operand in the block stays before its user: in another region,  *)
(* because an anchor is between them; in the same, because the schedule  *)
(* says so or the region was left as it was.                             *)
LEMMA ShuffleKeepsOperandOrder ==
    ASSUME NEW f, NEW b, IsPlacement(f, b), NEW x \in Blocks(f), NEW c, ShufflesBlock(f, b, c, x),
           NEW sch \in Seq(Instructions(f)), AfterOperands(f, sch),
           \A p \in 1..Len(b[x]) : ~isSchedulingAnchor(f, b[x][p]) =>
              OrderedIn(sch, b[x], c[x], Region(f, b[x], p)),
           NEW i \in Instructions(f), NEW v \in Operands(f, i) \cap Instructions(f),
           Before(b, v, i)
    PROVE  Before(c, v, i)
<1> DEFINE s == b[x]
           r == c[x]
           p == PosOf(b, i)
           q == PosOf(b, v)
           m == PosOf(c, i)
           n == PosOf(c, v)
           R == Region(f, s, p)
           S == Region(f, s, q)
<1>1. IsPlacement(f, c) /\ BlockOf(c, i) = BlockOf(b, i) /\ BlockOf(c, v) = BlockOf(b, v)
  BY ShuffleKeepsBlocks
<1>2. BlockOf(b, v) = BlockOf(b, i) /\ q < p
  BY DEF Before
<1>3. CASE isSchedulingAnchor(f, i) \/ isSchedulingAnchor(f, v)
  BY <1>3, ShuffleKeepsAnchorOrder
<1>4. CASE BlockOf(b, i) /= x
  <2>1. m = p /\ n = q
    BY <1>2, <1>4, ShuffleKeepsPlaces
  <2> QED BY <1>1, <1>2, <2>1 DEF Before
<1>5. CASE BlockOf(b, i) = x /\ ~isSchedulingAnchor(f, i) /\ ~isSchedulingAnchor(f, v)
  <2>1. p \in 1..Len(s) /\ s[p] = i /\ q \in 1..Len(s) /\ s[q] = v
    BY <1>2, <1>5, PlacedOnce
  <2>2. m \in R /\ n \in S
    BY <1>2, <1>5, ShuffleKeepsPlaces
  <2>3. r[m] = i /\ r[n] = v
    BY <1>1, <1>2, <1>5, PlacedOnce
  <2>4. s \in Seq(Instructions(f)) /\ IsInjective(s) /\ DOMAIN s = 1..Len(s)
    BY DEF IsPlacement
  <2>5. /\ p \in R /\ R = Min(R)..Max(R) /\ Min(R) \in Nat /\ Max(R) \in Nat /\ R \subseteq 1..Len(s)
        /\ \A y \in R : Region(f, s, y) = R
    BY <1>5, <2>1, <2>4, RegionIs
  <2>6. /\ q \in S /\ S = Min(S)..Max(S) /\ Min(S) \in Nat /\ Max(S) \in Nat /\ S \subseteq 1..Len(s)
        /\ \A y \in S : Region(f, s, y) = S
    BY <1>5, <2>1, <2>4, RegionIs
  <2>7. OrderedIn(sch, s, r, R)
    BY <1>5, <2>1
  <2>8. n < m
    <3> HIDE DEF p, q, m, n, R, S, s, r
    <3>1. CASE R = S
      <4>1. CASE \A y \in R : r[y] = s[y]
        <5>1. s[m] = i /\ s[n] = v /\ m \in 1..Len(s) /\ n \in 1..Len(s)
          BY <2>2, <2>3, <2>5, <3>1, <4>1
        <5>2. m = p /\ n = q
          BY <2>1, <2>4, <5>1 DEF IsInjective
        <5> QED BY <1>2, <5>2
      <4>2. CASE \A y, z \in R : y < z =>
                   \E j, k \in 1..Len(sch) : j < k /\ sch[j] = r[y] /\ sch[k] = r[z]
        <5>1. ASSUME m < n PROVE FALSE
          <6>1. PICK j \in 1..Len(sch), k \in 1..Len(sch) : j < k /\ sch[j] = i /\ sch[k] = v
            BY <2>2, <2>3, <3>1, <4>2, <5>1
          <6>2. DOMAIN sch = 1..Len(sch)
            OBVIOUS
          <6>3. k < j
            BY <1>5, <6>1, <6>2 DEF AfterOperands
          <6> QED BY <6>1, <6>3
        <5>2. m /= n
          <6>1. v /= i
            BY <1>2, <2>1 DEF p, q
          <6> QED BY <2>3, <6>1
        <5>3. m \in Nat /\ n \in Nat
          BY <2>2, <2>5, <2>6
        <5> QED BY <5>1, <5>2, <5>3
      <4> QED BY <2>7, <4>1, <4>2 DEF OrderedIn, StaysIn, FollowsIn
    <3>2. CASE R /= S
      <4>1. ASSUME NEW y \in R, y \in S PROVE FALSE
        BY <2>5, <2>6, <3>2, <4>1
      <4>2. \A y : y \in R <=> y \in Nat /\ Min(R) <= y /\ y <= Max(R)
        BY <2>5
      <4>3. \A y : y \in S <=> y \in Nat /\ Min(S) <= y /\ y <= Max(S)
        BY <2>6
      <4> QED BY <1>2, <2>2, <2>5, <2>6, <4>1, <4>2, <4>3
    <3> QED BY <3>1, <3>2
  <2> QED BY <1>1, <1>2, <2>8 DEF Before
<1> QED BY <1>3, <1>4, <1>5

(* The block ends with its terminator as before: it is an anchor.        *)
LEMMA ShuffleKeepsTerminators ==
    ASSUME NEW f, NEW b, IsPlacement(f, b), NEW x \in Blocks(f), NEW c, ShufflesBlock(f, b, c, x),
           TerminatorsLast(f, b)
    PROVE  TerminatorsLast(f, c)
<1>1. \A y \in Blocks(f) : y /= x => c[y] = b[y]
  BY DEF ShufflesBlock
<1>2. b[x] \in Seq(Instructions(f)) /\ IsInjective(b[x]) /\ Shuffled(f, b[x], c[x])
  BY DEF IsPlacement, ShufflesBlock
<1>3. /\ c[x] \in Seq(Instructions(f)) /\ Len(c[x]) = Len(b[x])
      /\ DOMAIN c[x] = 1..Len(b[x]) /\ DOMAIN b[x] = 1..Len(b[x])
  BY <1>2, ShuffleIsPermutation
<1>4. c[x] /= <<>>
  <2>1. b[x] /= <<>>
    BY DEF TerminatorsLast
  <2> QED BY <1>2, <1>3, <2>1
<1>5. ASSUME NEW p \in 1..Len(b[x])
      PROVE  IsTerminator(f, c[x][p]) <=> IsTerminator(f, b[x][p])
  <2>1. CASE isSchedulingAnchor(f, b[x][p])
    BY <1>2, <2>1 DEF Shuffled
  <2>2. CASE ~isSchedulingAnchor(f, b[x][p])
    <3>1. PICK q \in Region(f, b[x], p) : c[x][p] = b[x][q]
      BY <1>2, <2>2 DEF Shuffled
    <3>2. ~isSchedulingAnchor(f, b[x][q])
      BY <1>2, <2>2, <3>1, RegionIs
    <3> QED BY <2>2, <3>1, <3>2 DEF isSchedulingAnchor
  <2> QED BY <2>1, <2>2
<1>6. \A p \in DOMAIN c[x] : IsTerminator(f, c[x][p]) <=> p = Len(c[x])
  BY <1>3, <1>5 DEF TerminatorsLast
<1>7. ASSUME NEW y \in Blocks(f)
      PROVE  /\ c[y] /= <<>>
             /\ \A p \in DOMAIN c[y] : IsTerminator(f, c[y][p]) <=> p = Len(c[y])
  <2>1. CASE y = x
    BY <1>4, <1>6, <2>1
  <2>2. CASE y /= x
    BY <1>1, <2>2 DEF TerminatorsLast
  <2> QED BY <2>1, <2>2
<1> QED BY <1>7 DEF TerminatorsLast

(* The program b with block x reordered by the schedule sch.             *)
WithBlockReordered(f, b, x, sch) == [b EXCEPT ![x] = reorderBlockWithinRegions(f, sch, @)]

(* reorderBlockWithinRegions shuffles the one block it is called for.    *)
LEMMA ReorderShufflesBlock ==
    ASSUME NEW f, NEW b, IsPlacement(f, b), NEW x \in Blocks(f),
           NEW sch \in Seq(Instructions(f)), IsInjective(sch)
    PROVE  /\ ShufflesBlock(f, b, WithBlockReordered(f, b, x, sch), x)
           /\ \A p \in 1..Len(b[x]) : ~isSchedulingAnchor(f, b[x][p]) =>
                OrderedIn(sch, b[x], WithBlockReordered(f, b, x, sch)[x], Region(f, b[x], p))
<1> DEFINE r == reorderBlockWithinRegions(f, sch, b[x])
           c == WithBlockReordered(f, b, x, sch)
<1>1. b \in [Blocks(f) -> Seq(Instructions(f))] /\ b[x] \in Seq(Instructions(f)) /\ IsInjective(b[x])
  BY DEF IsPlacement
<1>2. Shuffled(f, b[x], r)
  BY <1>1, ReorderShuffles
<1>3. \A p \in 1..Len(b[x]) : ~isSchedulingAnchor(f, b[x][p]) =>
        OrderedIn(sch, b[x], r, Region(f, b[x], p))
  BY <1>1, RegionReordered
<1>4. c = [b EXCEPT ![x] = r]
  BY DEF WithBlockReordered
<1> HIDE DEF r, c
<1>5. r \in Seq(Instructions(f))
  BY <1>1, <1>2, ShuffleIsPermutation
<1>6. /\ c \in [Blocks(f) -> Seq(Instructions(f))] /\ c[x] = r
      /\ \A y \in Blocks(f) : y /= x => c[y] = b[y]
  BY <1>1, <1>4, <1>5
<1>7. ShufflesBlock(f, b, c, x)
  BY <1>2, <1>6 DEF ShufflesBlock
<1> QED BY <1>3, <1>6, <1>7 DEF c

(* In sum: reordering a block by a schedule that respects operands is a  *)
(* reordering of its regions that does.                                  *)
LEMMA ReorderIsReordered ==
    ASSUME NEW f, NEW b, IsPlacement(f, b), NEW x \in Blocks(f),
           NEW sch \in Seq(Instructions(f)), IsInjective(sch), AfterOperands(f, sch)
    PROVE  /\ Reordered(f, b, WithBlockReordered(f, b, x, sch))
           /\ TerminatorsLast(f, b) => TerminatorsLast(f, WithBlockReordered(f, b, x, sch))
<1> DEFINE c == WithBlockReordered(f, b, x, sch)
<1> HIDE DEF c
<1>1. /\ ShufflesBlock(f, b, c, x)
      /\ \A p \in 1..Len(b[x]) : ~isSchedulingAnchor(f, b[x][p]) =>
           OrderedIn(sch, b[x], c[x], Region(f, b[x], p))
  BY ReorderShufflesBlock DEF c
<1>2. IsPlacement(f, c) /\ \A i \in Instructions(f) : BlockOf(c, i) = BlockOf(b, i)
  BY <1>1, ShuffleKeepsBlocks
<1>3. \A i, j \in Instructions(f) :
        isSchedulingAnchor(f, i) \/ isSchedulingAnchor(f, j)
        => (Before(c, i, j) <=> Before(b, i, j))
  BY <1>1, ShuffleKeepsAnchorOrder
<1>4. \A i \in Instructions(f) : \A v \in Operands(f, i) \cap Instructions(f) :
        Before(b, v, i) => Before(c, v, i)
  BY <1>1, ShuffleKeepsOperandOrder
<1>5. TerminatorsLast(f, b) => TerminatorsLast(f, c)
  BY <1>1, ShuffleKeepsTerminators
<1> QED BY <1>2, <1>3, <1>4, <1>5 DEF Reordered, c
-----------------------------------------------------------------------------
(* Two sequences one after the other.                                    *)
LEMMA ConcatIs ==
    ASSUME NEW I, NEW h \in Seq(I), NEW t \in Seq(I)
    PROVE  /\ h \o t \in Seq(I) /\ Len(h \o t) = Len(h) + Len(t)
           /\ \A k \in 1..Len(h) : (h \o t)[k] = h[k]
           /\ \A k \in 1..Len(t) : (h \o t)[Len(h) + k] = t[k]
<1>1. h \o t \in Seq(I)
  OBVIOUS
<1>2. Len(h \o t) = Len(h) + Len(t)
  OBVIOUS
<1>3. \A k \in 1..Len(h) : (h \o t)[k] = h[k]
  OBVIOUS
<1>4. \A k \in 1..Len(t) : (h \o t)[Len(h) + k] = t[k]
  OBVIOUS
<1> QED BY <1>1, <1>2, <1>3, <1>4

(* A sequence without its p-th element.                                  *)
LEMMA RemoveAtIs ==
    ASSUME NEW I, NEW s \in Seq(I), NEW p \in 1..Len(s)
    PROVE  /\ RemoveAt(s, p) \in Seq(I) /\ Len(RemoveAt(s, p)) = Len(s) - 1
           /\ \A k \in 1..(Len(s) - 1) : RemoveAt(s, p)[k] = IF k < p THEN s[k] ELSE s[k+1]
<1> DEFINE h == SubSeq(s, 1, p-1)
           t == SubSeq(s, p+1, Len(s))
<1>1. Len(s) \in Nat /\ p \in 1..Len(s)
  OBVIOUS
<1>2. h \in Seq(I) /\ Len(h) = p - 1 /\ \A k \in 1..(p-1) : h[k] = s[k]
  BY <1>1
<1>3. t \in Seq(I) /\ Len(t) = Len(s) - p /\ \A k \in 1..(Len(s) - p) : t[k] = s[k + p]
  BY <1>1
<1> HIDE DEF h, t
<1>4. h \o t \in Seq(I) /\ Len(h \o t) = Len(s) - 1
  <2>1. h \o t \in Seq(I) /\ Len(h \o t) = Len(h) + Len(t)
    BY <1>2, <1>3, ConcatIs
  <2> QED BY <1>1, <1>2, <1>3, <2>1
<1>5. ASSUME NEW k \in 1..(Len(s) - 1)
      PROVE  (h \o t)[k] = IF k < p THEN s[k] ELSE s[k+1]
  <2>1. CASE k < p
    BY <1>1, <1>2, <1>3, <2>1
  <2>2. CASE ~(k < p)
    <3> DEFINE i == k - (p - 1)
    <3>1. i \in 1..(Len(s) - p) /\ (p - 1) + i = k
      BY <1>1, <2>2
    <3> HIDE DEF i
    <3>2. \A j \in 1..Len(t) : (h \o t)[Len(h) + j] = t[j]
      BY <1>2, <1>3, ConcatIs
    <3>3. (h \o t)[k] = t[i]
      BY <1>2, <1>3, <3>1, <3>2
    <3>4. (h \o t)[k] = t[k - (p - 1)] /\ k - (p - 1) \in 1..(Len(s) - p)
      BY <3>1, <3>3 DEF i
    <3>5. (k - (p - 1)) + p = k + 1
      BY <1>1
    <3> QED BY <1>3, <2>2, <3>4, <3>5
  <2> QED BY <2>1, <2>2
<1>6. RemoveAt(s, p) = h \o t
  BY DEF RemoveAt, h, t
<1> QED BY <1>4, <1>5, <1>6

(* A sequence with an element added before the last one.                 *)
LEMMA InsertBeforeLastIs ==
    ASSUME NEW I, NEW s \in Seq(I), s /= <<>>, NEW i \in I
    PROVE  /\ Front(s) \o <<i, Last(s)>> \in Seq(I)
           /\ Len(Front(s) \o <<i, Last(s)>>) = Len(s) + 1
           /\ \A k \in 1..(Len(s) - 1) : (Front(s) \o <<i, Last(s)>>)[k] = s[k]
           /\ (Front(s) \o <<i, Last(s)>>)[Len(s)] = i
           /\ (Front(s) \o <<i, Last(s)>>)[Len(s) + 1] = s[Len(s)]
<1> DEFINE h == SubSeq(s, 1, Len(s) - 1)
           t == <<i, s[Len(s)]>>
<1>1. Len(s) \in Nat \ {0} /\ s[Len(s)] \in I
  OBVIOUS
<1>2. h \in Seq(I) /\ Len(h) = Len(s) - 1 /\ \A k \in 1..(Len(s) - 1) : h[k] = s[k]
  <2>1. \A k \in 1..(Len(s) - 1) : s[k] \in I
    BY <1>1
  <2>2. h = [k \in 1..(Len(s) - 1) |-> s[k]] /\ Len(s) - 1 \in Nat
    BY <1>1
  <2> HIDE DEF h
  <2> QED BY <2>1, <2>2
<1>3. t \in Seq(I) /\ Len(t) = 2 /\ t[1] = i /\ t[2] = s[Len(s)]
  BY <1>1
<1> HIDE DEF h, t
<1>4. h \o t \in Seq(I) /\ Len(h \o t) = Len(s) + 1
  <2>1. h \o t \in Seq(I) /\ Len(h \o t) = Len(h) + Len(t)
    BY <1>2, <1>3, ConcatIs
  <2> QED BY <1>1, <1>2, <1>3, <2>1
<1>5. \A k \in 1..(Len(s) - 1) : (h \o t)[k] = s[k]
  BY <1>1, <1>2, <1>3
<1>6. (h \o t)[Len(s)] = i /\ (h \o t)[Len(s) + 1] = s[Len(s)]
  <2>1. \A k \in 1..Len(t) : (h \o t)[Len(h) + k] = t[k]
    <3>1. h \in Seq(I) /\ t \in Seq(I)
      BY <1>2, <1>3
    <3> QED BY <3>1, ConcatIs
  <2>2. 1 \in 1..Len(t) /\ 2 \in 1..Len(t)
    BY <1>3
  <2>4. (h \o t)[Len(h) + 1] = i /\ (h \o t)[Len(h) + 2] = s[Len(s)]
    BY <1>3, <2>1, <2>2
  <2>3. Len(h) + 1 = Len(s) /\ Len(h) + 2 = Len(s) + 1
    BY <1>1, <1>2
  <2> QED BY <2>3, <2>4
<1>7. Front(s) \o <<i, Last(s)>> = h \o t
  BY DEF Front, Last, h, t
<1> QED BY <1>4, <1>5, <1>6, <1>7

(* The program b with i at the end of block t.                           *)
WithHoisted(b, i, t) ==
    [b EXCEPT ![BlockOf(b, i)] = RemoveAt(@, PosOf(b, i)),
              ![t] = Front(@) \o <<i, Last(@)>>]

(* What c has in each place, if it is b with i moved from block o to t.  *)
Rearranged(f, b, c, i, o, t) ==
    /\ c \in [Blocks(f) -> Seq(Instructions(f))]
    /\ \A x \in Blocks(f) \ {o, t} : c[x] = b[x]
    /\ Len(c[o]) = Len(b[o]) - 1
    /\ \A k \in 1..(Len(b[o]) - 1) : c[o][k] = IF k < PosOf(b, i) THEN b[o][k] ELSE b[o][k+1]
    /\ Len(c[t]) = Len(b[t]) + 1
    /\ \A k \in 1..(Len(b[t]) - 1) : c[t][k] = b[t][k]
    /\ c[t][Len(b[t])] = i
    /\ c[t][Len(b[t]) + 1] = b[t][Len(b[t])]

(* moveBefore the terminator of the target takes the instruction out of  *)
(* its block and puts it last but one there.                             *)
LEMMA HoistRearranges ==
    ASSUME NEW f, NEW b, IsPlacement(f, b), TerminatorsLast(f, b),
           NEW i \in Instructions(f), NEW t \in Blocks(f), BlockOf(b, i) /= t
    PROVE  Rearranged(f, b, WithHoisted(b, i, t), i, BlockOf(b, i), t)
<1> DEFINE o == BlockOf(b, i)
           p == PosOf(b, i)
           r == RemoveAt(b[o], p)
           w == Front(b[t]) \o <<i, Last(b[t])>>
           c == WithHoisted(b, i, t)
<1>1. /\ b \in [Blocks(f) -> Seq(Instructions(f))] /\ o \in Blocks(f) /\ p \in 1..Len(b[o])
      /\ b[t] /= <<>>
  BY PlacedOnce DEF IsPlacement, TerminatorsLast
<1>2. c = [b EXCEPT ![o] = r, ![t] = w]
  BY DEF WithHoisted
<1>3. /\ r \in Seq(Instructions(f)) /\ Len(r) = Len(b[o]) - 1
      /\ \A k \in 1..(Len(b[o]) - 1) : r[k] = IF k < p THEN b[o][k] ELSE b[o][k+1]
  <2>1. b[o] \in Seq(Instructions(f))
    BY <1>1
  <2> HIDE DEF o, p
  <2> QED BY <1>1, <2>1, RemoveAtIs
<1>4. /\ w \in Seq(Instructions(f)) /\ Len(w) = Len(b[t]) + 1
      /\ \A k \in 1..(Len(b[t]) - 1) : w[k] = b[t][k]
      /\ w[Len(b[t])] = i /\ w[Len(b[t]) + 1] = b[t][Len(b[t])]
  <2> DEFINE u == b[t]
  <2>1. u \in Seq(Instructions(f)) /\ u /= <<>>
    BY <1>1
  <2> HIDE DEF u
  <2>2. /\ Front(u) \o <<i, Last(u)>> \in Seq(Instructions(f))
        /\ Len(Front(u) \o <<i, Last(u)>>) = Len(u) + 1
        /\ \A k \in 1..(Len(u) - 1) : (Front(u) \o <<i, Last(u)>>)[k] = u[k]
        /\ (Front(u) \o <<i, Last(u)>>)[Len(u)] = i
        /\ (Front(u) \o <<i, Last(u)>>)[Len(u) + 1] = u[Len(u)]
    BY <2>1, InsertBeforeLastIs
  <2> QED BY <2>2 DEF u
<1>5. o /= t
  OBVIOUS
<1> HIDE DEF o, p, r, w, c
<1>6. /\ c \in [Blocks(f) -> Seq(Instructions(f))] /\ c[o] = r /\ c[t] = w
      /\ \A x \in Blocks(f) \ {o, t} : c[x] = b[x]
  BY <1>1, <1>2, <1>3, <1>4, <1>5
<1>7. Rearranged(f, b, c, i, o, t)
  BY <1>3, <1>4, <1>6 DEF Rearranged, p
<1> QED BY <1>7 DEF c, o

(* Where an instruction goes.                                            *)
NewPlace(b, i, t, j) ==
    LET q == PosOf(b, j)
    IN  IF BlockOf(b, j) = BlockOf(b, i) /\ q > PosOf(b, i) THEN q - 1
        ELSE IF BlockOf(b, j) = t /\ q = Len(b[t]) THEN q + 1
        ELSE q

(* After it every instruction is still in exactly one place, the one     *)
(* NewPlace says.                                                        *)
LEMMA HoistPlaces ==
    ASSUME NEW f, NEW b, IsPlacement(f, b), TerminatorsLast(f, b),
           NEW i \in Instructions(f), NEW t \in Blocks(f), BlockOf(b, i) /= t,
           NEW c, Rearranged(f, b, c, i, BlockOf(b, i), t)
    PROVE  /\ IsPlacement(f, c)
           /\ BlockOf(c, i) = t /\ PosOf(c, i) = Len(b[t])
           /\ \A j \in Instructions(f) \ {i} :
                BlockOf(c, j) = BlockOf(b, j) /\ PosOf(c, j) = NewPlace(b, i, t, j)
<1> DEFINE o == BlockOf(b, i)
           p == PosOf(b, i)
<1>1. /\ b \in [Blocks(f) -> Seq(Instructions(f))] /\ o \in Blocks(f) /\ p \in 1..Len(b[o])
      /\ b[o][p] = i /\ b[t] /= <<>> /\ o /= t
  BY PlacedOnce DEF IsPlacement, TerminatorsLast
<1>2. Len(b[o]) \in Nat /\ Len(b[t]) \in Nat \ {0}
  BY <1>1
<1>3. /\ c \in [Blocks(f) -> Seq(Instructions(f))]
      /\ Len(c[o]) = Len(b[o]) - 1 /\ Len(c[t]) = Len(b[t]) + 1
  BY DEF Rearranged
<1>4. \A x \in Blocks(f) : DOMAIN b[x] = 1..Len(b[x]) /\ DOMAIN c[x] = 1..Len(c[x])
  BY <1>1, <1>3
<1>5. ASSUME NEW j \in Instructions(f) \ {i}
      PROVE  /\ NewPlace(b, i, t, j) \in 1..Len(c[BlockOf(b, j)])
             /\ c[BlockOf(b, j)][NewPlace(b, i, t, j)] = j
  <2> DEFINE q == PosOf(b, j)
  <2>1. BlockOf(b, j) \in Blocks(f) /\ q \in 1..Len(b[BlockOf(b, j)]) /\ b[BlockOf(b, j)][q] = j
    BY PlacedOnce
  <2>2. CASE BlockOf(b, j) = o
    <3>1. q \in 1..Len(b[o]) /\ b[o][q] = j /\ q /= p
      BY <1>1, <2>1, <2>2
    <3>2. CASE q > p
      <4>1. NewPlace(b, i, t, j) = q - 1 /\ q - 1 \in 1..(Len(b[o]) - 1) /\ ~(q - 1 < p)
            /\ (q - 1) + 1 = q
        BY <1>1, <1>2, <2>2, <3>1, <3>2 DEF NewPlace
      <4> QED BY <1>3, <2>2, <3>1, <4>1 DEF Rearranged
    <3>3. CASE ~(q > p)
      <4>1. NewPlace(b, i, t, j) = q /\ q \in 1..(Len(b[o]) - 1) /\ q < p
        BY <1>1, <1>2, <2>2, <3>1, <3>3 DEF NewPlace
      <4> QED BY <1>3, <2>2, <3>1, <4>1 DEF Rearranged
    <3> QED BY <3>2, <3>3
  <2>3. CASE BlockOf(b, j) = t
    <3>1. q \in 1..Len(b[t]) /\ b[t][q] = j
      BY <2>1, <2>3
    <3>2. CASE q = Len(b[t])
      <4>1. NewPlace(b, i, t, j) = Len(b[t]) + 1 /\ Len(b[t]) + 1 \in 1..(Len(b[t]) + 1)
        BY <1>1, <1>2, <2>3, <3>2 DEF NewPlace
      <4> QED BY <1>3, <2>3, <3>1, <3>2, <4>1 DEF Rearranged
    <3>3. CASE q /= Len(b[t])
      <4>1. NewPlace(b, i, t, j) = q /\ q \in 1..(Len(b[t]) - 1) /\ q \in 1..(Len(b[t]) + 1)
        BY <1>1, <1>2, <2>3, <3>1, <3>3 DEF NewPlace
      <4> QED BY <1>3, <2>3, <3>1, <4>1 DEF Rearranged
    <3> QED BY <3>2, <3>3
  <2>4. CASE BlockOf(b, j) /= o /\ BlockOf(b, j) /= t
    <3>1. c[BlockOf(b, j)] = b[BlockOf(b, j)]
      BY <2>1, <2>4 DEF Rearranged
    <3> QED BY <2>1, <2>4, <3>1 DEF NewPlace
  <2> QED BY <2>2, <2>3, <2>4
<1>6. Len(b[t]) \in 1..Len(c[t]) /\ c[t][Len(b[t])] = i
  BY <1>2, <1>3 DEF Rearranged
<1>7. ASSUME NEW x \in Blocks(f), NEW k \in 1..Len(c[x])
      PROVE  \/ c[x][k] = i /\ x = t /\ k = Len(b[t])
             \/ /\ c[x][k] \in Instructions(f) \ {i} /\ BlockOf(b, c[x][k]) = x
                /\ k = NewPlace(b, i, t, c[x][k])
  <2>1. CASE x = o
    <3>1. k \in 1..(Len(b[o]) - 1)
      BY <1>3, <2>1
    <3>2. CASE k < p
      <4>1. c[x][k] = b[o][k] /\ k \in 1..Len(b[o])
        BY <1>2, <2>1, <3>1, <3>2 DEF Rearranged
      <4>2. b[o][k] \in Instructions(f) /\ BlockOf(b, b[o][k]) = o /\ PosOf(b, b[o][k]) = k
        BY <1>1, <4>1, FoundThere
      <4>3. b[o][k] /= i
        BY <1>1, <3>2, <4>2
      <4>4. k = NewPlace(b, i, t, b[o][k])
        BY <1>1, <1>2, <3>1, <3>2, <4>2 DEF NewPlace
      <4> QED BY <2>1, <4>1, <4>2, <4>3, <4>4
    <3>3. CASE ~(k < p)
      <4>1. c[x][k] = b[o][k+1] /\ k + 1 \in 1..Len(b[o])
        BY <1>2, <2>1, <3>1, <3>3 DEF Rearranged
      <4>2. b[o][k+1] \in Instructions(f) /\ BlockOf(b, b[o][k+1]) = o /\ PosOf(b, b[o][k+1]) = k+1
        BY <1>1, <4>1, FoundThere
      <4>3. b[o][k+1] /= i
        BY <1>1, <3>1, <3>3, <4>2
      <4>4. k = NewPlace(b, i, t, b[o][k+1])
        BY <1>1, <1>2, <3>1, <3>3, <4>2 DEF NewPlace
      <4> QED BY <2>1, <4>1, <4>2, <4>3, <4>4
    <3> QED BY <3>2, <3>3
  <2>2. CASE x = t
    <3>1. k \in 1..(Len(b[t]) + 1)
      BY <1>3, <2>2
    <3>2. CASE k = Len(b[t])
      BY <1>6, <2>2, <3>2
    <3>3. CASE k = Len(b[t]) + 1
      <4>1. c[x][k] = b[t][Len(b[t])] /\ Len(b[t]) \in 1..Len(b[t])
        BY <1>2, <2>2, <3>3 DEF Rearranged
      <4>2. /\ b[t][Len(b[t])] \in Instructions(f) /\ BlockOf(b, b[t][Len(b[t])]) = t
            /\ PosOf(b, b[t][Len(b[t])]) = Len(b[t])
        BY <4>1, FoundThere
      <4>3. b[t][Len(b[t])] /= i
        BY <1>1, <4>2
      <4>4. k = NewPlace(b, i, t, b[t][Len(b[t])])
        BY <1>1, <1>2, <3>3, <4>2 DEF NewPlace
      <4> QED BY <2>2, <4>1, <4>2, <4>3, <4>4
    <3>4. CASE k /= Len(b[t]) /\ k /= Len(b[t]) + 1
      <4>1. k \in 1..(Len(b[t]) - 1) /\ k \in 1..Len(b[t])
        BY <1>2, <3>1, <3>4
      <4>2. c[x][k] = b[t][k]
        BY <2>2, <4>1 DEF Rearranged
      <4>3. b[t][k] \in Instructions(f) /\ BlockOf(b, b[t][k]) = t /\ PosOf(b, b[t][k]) = k
        BY <4>1, FoundThere
      <4>4. b[t][k] /= i
        BY <1>1, <4>3
      <4>5. k = NewPlace(b, i, t, b[t][k])
        BY <1>1, <3>4, <4>3 DEF NewPlace
      <4> QED BY <2>2, <4>2, <4>3, <4>4, <4>5
    <3> QED BY <3>2, <3>3, <3>4
  <2>3. CASE x /= o /\ x /= t
    <3>1. c[x] = b[x]
      BY <2>3 DEF Rearranged
    <3>2. b[x][k] \in Instructions(f) /\ BlockOf(b, b[x][k]) = x /\ PosOf(b, b[x][k]) = k
      BY <3>1, FoundThere
    <3>3. b[x][k] /= i /\ k = NewPlace(b, i, t, b[x][k])
      BY <2>3, <3>2 DEF NewPlace
    <3> QED BY <3>1, <3>2, <3>3
  <2> QED BY <2>1, <2>2, <2>3
<1>8. IsPlacement(f, c)
  <2>1. ASSUME NEW x \in Blocks(f) PROVE IsInjective(c[x])
    <3>1. \A k, m \in 1..Len(c[x]) : c[x][k] = c[x][m] => k = m
      BY <1>7
    <3> QED BY <1>4, <3>1 DEF IsInjective
  <2>2. ASSUME NEW j \in Instructions(f)
        PROVE  \E x \in Blocks(f) : \A y \in Blocks(f) : j \in ToSet(c[y]) <=> y = x
    <3> DEFINE x == IF j = i THEN t ELSE BlockOf(b, j)
    <3>1. x \in Blocks(f)
      BY PlacedOnce
    <3>2. \E k \in 1..Len(c[x]) : c[x][k] = j
      BY <1>5, <1>6
    <3>3. \A y \in Blocks(f) : \A k \in 1..Len(c[y]) : c[y][k] = j => y = x
      BY <1>7
    <3> HIDE DEF x
    <3>4. \A y \in Blocks(f) : j \in ToSet(c[y]) <=> y = x
      BY <1>4, <3>1, <3>2, <3>3 DEF ToSet
    <3> QED BY <3>1, <3>4
  <2> QED BY <1>3, <2>1, <2>2 DEF IsPlacement
<1>9. BlockOf(c, i) = t /\ PosOf(c, i) = Len(b[t])
  BY <1>6, <1>8, FoundThere
<1>10. ASSUME NEW j \in Instructions(f) \ {i}
       PROVE  BlockOf(c, j) = BlockOf(b, j) /\ PosOf(c, j) = NewPlace(b, i, t, j)
  <2>1. BlockOf(b, j) \in Blocks(f)
    BY PlacedOnce
  <2> QED BY <1>5, <1>8, <2>1, FoundThere
<1> QED BY <1>8, <1>9, <1>10

(* So an instruction that is no anchor, moved to the end of another block*)
(* of a program in which each block ends with its terminator, is hoisted:*)
(* it comes after all others there but the terminator, and nothing else  *)
(* changes its block or its order.                                       *)
LEMMA HoistIsHoisted ==
    ASSUME NEW f, NEW b, IsPlacement(f, b), TerminatorsLast(f, b),
           NEW i \in Instructions(f), ~isSchedulingAnchor(f, i),
           NEW t \in Blocks(f), BlockOf(b, i) /= t
    PROVE  /\ Hoisted(f, b, WithHoisted(b, i, t), i, t)
           /\ TerminatorsLast(f, WithHoisted(b, i, t))
<1> DEFINE c == WithHoisted(b, i, t)
           o == BlockOf(b, i)
           new(j) == NewPlace(b, i, t, j)
<1> HIDE DEF c
<1>1. Rearranged(f, b, c, i, o, t)
  BY HoistRearranges DEF c
<1>2. /\ IsPlacement(f, c) /\ BlockOf(c, i) = t /\ PosOf(c, i) = Len(b[t])
      /\ \A j \in Instructions(f) \ {i} : BlockOf(c, j) = BlockOf(b, j) /\ PosOf(c, j) = new(j)
  BY <1>1, HoistPlaces
<1>3. /\ o \in Blocks(f) /\ PosOf(b, i) \in 1..Len(b[o]) /\ b[o][PosOf(b, i)] = i
      /\ Len(b[o]) \in Nat /\ Len(b[t]) \in Nat \ {0}
  <2>1. o \in Blocks(f) /\ PosOf(b, i) \in 1..Len(b[o]) /\ b[o][PosOf(b, i)] = i
    BY PlacedOnce
  <2>2. b \in [Blocks(f) -> Seq(Instructions(f))] /\ b[t] /= <<>>
    BY DEF IsPlacement, TerminatorsLast
  <2> HIDE DEF o
  <2>3. Len(b[o]) \in Nat /\ Len(b[t]) \in Nat \ {0}
    BY <2>1, <2>2
  <2> QED BY <2>1, <2>3
<1>4. \A j \in Instructions(f) \ {i} :
        /\ BlockOf(b, j) \in Blocks(f) /\ PosOf(b, j) \in 1..Len(b[BlockOf(b, j)])
        /\ BlockOf(b, j) = o => PosOf(b, j) /= PosOf(b, i)
  BY <1>3, PlacedOnce
<1>5. ASSUME NEW j \in Instructions(f) \ {i}, NEW k \in Instructions(f) \ {i},
             BlockOf(b, j) = BlockOf(b, k)
      PROVE  new(j) < new(k) <=> PosOf(b, j) < PosOf(b, k)
  <2>1. PosOf(b, j) \in 1..Len(b[BlockOf(b, j)]) /\ PosOf(b, k) \in 1..Len(b[BlockOf(b, j)])
    BY <1>4, <1>5
  <2>2. CASE BlockOf(b, j) = o
    <3>1. /\ new(j) = IF PosOf(b, j) > PosOf(b, i) THEN PosOf(b, j) - 1 ELSE PosOf(b, j)
          /\ new(k) = IF PosOf(b, k) > PosOf(b, i) THEN PosOf(b, k) - 1 ELSE PosOf(b, k)
      BY <1>5, <2>2 DEF NewPlace
    <3>2. PosOf(b, j) /= PosOf(b, i) /\ PosOf(b, k) /= PosOf(b, i)
      BY <1>4, <1>5, <2>2
    <3> HIDE DEF new
    <3> QED BY <1>3, <2>1, <2>2, <3>1, <3>2
  <2>3. CASE BlockOf(b, j) = t
    <3>1. /\ new(j) = IF PosOf(b, j) = Len(b[t]) THEN PosOf(b, j) + 1 ELSE PosOf(b, j)
          /\ new(k) = IF PosOf(b, k) = Len(b[t]) THEN PosOf(b, k) + 1 ELSE PosOf(b, k)
      BY <1>5, <2>3 DEF NewPlace
    <3> HIDE DEF new
    <3> QED BY <1>3, <2>1, <2>3, <3>1
  <2>4. CASE BlockOf(b, j) /= o /\ BlockOf(b, j) /= t
    BY <1>5, <2>4 DEF NewPlace
  <2> QED BY <2>2, <2>3, <2>4
<1>6. \A j, k \in Instructions(f) \ {i} : Before(c, j, k) <=> Before(b, j, k)
  <2> HIDE DEF new
  <2> QED BY <1>2, <1>5 DEF Before
<1>7. ASSUME NEW j \in Instructions(f), BlockOf(b, j) = t
      PROVE  IF IsTerminator(f, j) THEN Before(c, i, j) ELSE Before(c, j, i)
  <2>1. j \in Instructions(f) \ {i}
    BY <1>7
  <2>2. PosOf(b, j) \in 1..Len(b[t]) /\ b[t][PosOf(b, j)] = j
    BY <1>7, PlacedOnce
  <2>3. DOMAIN b[t] = 1..Len(b[t])
    BY DEF IsPlacement
  <2>4. IsTerminator(f, j) <=> PosOf(b, j) = Len(b[t])
    BY <2>2, <2>3 DEF TerminatorsLast
  <2>5. PosOf(c, j) = IF PosOf(b, j) = Len(b[t]) THEN PosOf(b, j) + 1 ELSE PosOf(b, j)
    BY <1>2, <1>7, <2>1 DEF NewPlace
  <2>6. BlockOf(c, j) = t /\ BlockOf(c, i) = t /\ PosOf(c, i) = Len(b[t])
    BY <1>2, <1>7, <2>1
  <2> QED BY <1>3, <2>2, <2>4, <2>5, <2>6 DEF Before
<1>8. Hoisted(f, b, c, i, t)
  BY <1>2, <1>6, <1>7 DEF Hoisted
<1>9. TerminatorsLast(f, c)
  <2>1. ASSUME NEW x \in Blocks(f), NEW p \in 1..Len(c[x])
        PROVE  IsTerminator(f, c[x][p]) <=> p = Len(c[x])
    <3> DEFINE j == c[x][p]
    <3>1. j \in Instructions(f) /\ BlockOf(c, j) = x /\ PosOf(c, j) = p
      BY <1>2, <2>1, FoundThere
    <3>2. Len(c[x]) \in Nat
      BY <1>2 DEF IsPlacement
    <3> HIDE DEF j
    <3>3. CASE j = i
      <4>1. x = t /\ p = Len(b[t]) /\ Len(c[t]) = Len(b[t]) + 1
        BY <1>1, <1>2, <3>1, <3>3 DEF Rearranged
      <4>2. ~IsTerminator(f, i)
        BY DEF isSchedulingAnchor
      <4> QED BY <1>3, <3>3, <4>1, <4>2 DEF j
    <3>4. CASE j /= i
      <4>1. BlockOf(b, j) = x /\ p = new(j)
        BY <1>2, <3>1, <3>4
      <4>2. PosOf(b, j) \in 1..Len(b[x]) /\ b[x][PosOf(b, j)] = j /\ DOMAIN b[x] = 1..Len(b[x])
        <5>1. DOMAIN b[x] = 1..Len(b[x])
          BY DEF IsPlacement
        <5> QED BY <3>1, <4>1, <5>1, PlacedOnce
      <4>3. IsTerminator(f, j) <=> PosOf(b, j) = Len(b[x])
        BY <4>2 DEF TerminatorsLast
      <4>4. CASE x = o
        <5>1. p = IF PosOf(b, j) > PosOf(b, i) THEN PosOf(b, j) - 1 ELSE PosOf(b, j)
          BY <4>1, <4>4 DEF NewPlace
        <5>2. PosOf(b, j) /= PosOf(b, i) /\ Len(c[o]) = Len(b[o]) - 1
          BY <1>1, <1>4, <3>1, <3>4, <4>1, <4>4 DEF Rearranged
        <5>3. PosOf(b, i) /= Len(b[o])
          <6>1. ~IsTerminator(f, i) /\ DOMAIN b[o] = 1..Len(b[o])
            BY <1>3 DEF isSchedulingAnchor, IsPlacement
          <6> QED BY <1>3, <6>1 DEF TerminatorsLast
        <5>4. p = Len(b[o]) - 1 <=> PosOf(b, j) = Len(b[o])
          BY <1>3, <4>2, <4>4, <5>1, <5>2, <5>3
        <5> QED BY <4>3, <4>4, <5>2, <5>4 DEF j
      <4>5. CASE x = t
        <5>1. p = IF PosOf(b, j) = Len(b[t]) THEN PosOf(b, j) + 1 ELSE PosOf(b, j)
          BY <4>1, <4>5 DEF NewPlace
        <5>2. Len(c[t]) = Len(b[t]) + 1
          BY <1>1 DEF Rearranged
        <5>3. p = Len(b[t]) + 1 <=> PosOf(b, j) = Len(b[t])
          BY <1>3, <4>2, <4>5, <5>1
        <5> QED BY <4>3, <4>5, <5>2, <5>3 DEF j
      <4>6. CASE x /= o /\ x /= t
        <5>1. p = PosOf(b, j) /\ c[x] = b[x]
          BY <1>1, <4>1, <4>6 DEF NewPlace, Rearranged
        <5> QED BY <4>3, <5>1 DEF j
      <4> QED BY <4>4, <4>5, <4>6
    <3> QED BY <3>3, <3>4
  <2>2. ASSUME NEW x \in Blocks(f) PROVE c[x] /= <<>>
    <3>1. b[x] \in Seq(Instructions(f)) /\ b[x] /= <<>> /\ c[x] \in Seq(Instructions(f))
      BY <1>2 DEF IsPlacement, TerminatorsLast
    <3>2. CASE x = o
      <4>1. PosOf(b, i) /= Len(b[o])
        <5>1. ~IsTerminator(f, i) /\ DOMAIN b[o] = 1..Len(b[o])
          BY <1>3 DEF isSchedulingAnchor, IsPlacement
        <5> QED BY <1>3, <5>1 DEF TerminatorsLast
      <4>2. Len(c[o]) = Len(b[o]) - 1
        BY <1>1 DEF Rearranged
      <4>3. Len(b[o]) - 1 /= 0
        <5>1. \A n \in Nat : \A q \in 1..n : q /= n => n - 1 /= 0
          OBVIOUS
        <5> QED BY <1>3, <4>1, <5>1
      <4> QED BY <3>2, <4>2, <4>3
    <3>3. CASE x = t
      <4>1. Len(c[t]) = Len(b[t]) + 1 /\ Len(b[t]) + 1 /= 0
        BY <1>1, <1>3 DEF Rearranged
      <4> QED BY <3>3, <4>1
    <3>4. CASE x /= o /\ x /= t
      BY <1>1, <3>1, <3>4 DEF Rearranged
    <3> QED BY <3>2, <3>3, <3>4
  <2>3. \A x \in Blocks(f) : DOMAIN c[x] = 1..Len(c[x])
    BY <1>2 DEF IsPlacement
  <2> QED BY <2>1, <2>2, <2>3 DEF TerminatorsLast
<1> QED BY <1>8, <1>9 DEF c
-----------------------------------------------------------------------------
(* Among returns what the sequence has of the set, nothing twice that is *)
(* not there twice.                                                      *)
LEMMA AmongElements ==
    ASSUME NEW I, NEW s \in Seq(I), NEW M
    PROVE  /\ Among(s, M) \in Seq(ToSet(s) \cap M)
           /\ ToSet(Among(s, M)) = ToSet(s) \cap M
           /\ IsInjective(s) => IsInjective(Among(s, M))
<1> DEFINE N == Len(s)
           a == Among(s, M)
<1>1. N \in Nat /\ DOMAIN s = 1..N /\ \A k \in 1..N : s[k] \in I
  OBVIOUS
<1>2. PICK r : TakesInOrder(I, s, M, r) /\ a = r[N]
  BY AmongIsTaking
<1>3. /\ \A k \in 0..N : r[k] \in Seq(I)
      /\ r[0] = <<>>
      /\ \A k \in 1..N : r[k] = IF s[k] \in M THEN Append(r[k-1], s[k]) ELSE r[k-1]
  BY <1>2 DEF TakesInOrder
<1> HIDE DEF a
<1> DEFINE Has(k) == \A j \in 1..k : s[j] \in M => \E p \in 1..Len(r[k]) : r[k][p] = s[j]
           T == {k \in 0..N : ~Has(k)}
<1>4. T = {}
  <2> SUFFICES ASSUME T /= {} PROVE FALSE
    OBVIOUS
  <2>1. PICK k \in T : \A m \in T : k <= m
    <3>1. T \subseteq Nat
      OBVIOUS
    <3> QED BY <3>1, Least
  <2>2. k /= 0
    <3>1. Has(0)
      OBVIOUS
    <3> HIDE DEF Has
    <3> QED BY <2>1, <3>1
  <2>3. k \in 1..N /\ k - 1 \in 0..N /\ ~(k <= k - 1)
    BY <1>1, <2>1, <2>2
  <2>4. Has(k-1)
    <3> HIDE DEF Has
    <3> QED BY <2>1, <2>3
  <2> DEFINE t == r[k-1]
  <2>5. t \in Seq(I) /\ Len(t) \in Nat /\ s[k] \in I
    BY <1>1, <1>3, <2>3
  <2>6. ASSUME NEW j \in 1..k, s[j] \in M
        PROVE  \E p \in 1..Len(r[k]) : r[k][p] = s[j]
    <3>1. CASE s[k] \in M
      <4>1. r[k] = Append(t, s[k])
        BY <1>3, <2>3, <3>1
      <4>2. /\ Len(r[k]) = Len(t) + 1 /\ r[k][Len(t) + 1] = s[k]
            /\ \A p \in 1..Len(t) : r[k][p] = t[p]
        BY <2>5, <4>1
      <4>3. CASE j = k
        <5>1. Len(t) + 1 \in 1..Len(r[k])
          BY <2>5, <4>2
        <5> QED BY <4>2, <4>3, <5>1
      <4>4. CASE j /= k
        <5>1. j \in 1..(k-1)
          BY <2>3, <4>4
        <5>2. PICK p \in 1..Len(t) : t[p] = s[j]
          BY <2>4, <2>6, <5>1
        <5>3. p \in 1..Len(r[k])
          BY <2>5, <4>2
        <5> QED BY <4>2, <5>2, <5>3
      <4> QED BY <4>3, <4>4
    <3>2. CASE s[k] \notin M
      <4>1. r[k] = t
        BY <1>3, <2>3, <3>2
      <4>2. j \in 1..(k-1)
        BY <2>3, <2>6, <3>2
      <4> QED BY <2>4, <2>6, <4>1, <4>2
    <3> QED BY <3>1, <3>2
  <2>7. Has(k)
    BY <2>6
  <2> HIDE DEF Has
  <2> QED BY <2>1, <2>7
<1>5. Has(N)
  <2>1. N \in 0..N
    BY <1>1
  <2> HIDE DEF Has
  <2> QED BY <1>4, <2>1
<1>6. /\ a \in Seq(I) /\ Len(a) \in Nat /\ DOMAIN a = 1..Len(a)
      /\ \A p \in 1..Len(a) : a[p] \in M
      /\ \A p, q \in 1..Len(a) : p < q =>
            \E j, k \in 1..N : j < k /\ s[j] = a[p] /\ s[k] = a[q]
  <2>1. a \in Seq(I)
    BY AmongFollows DEF a
  <2>2. Len(a) \in Nat /\ DOMAIN a = 1..Len(a)
    BY <2>1
  <2>3. /\ \A p \in 1..Len(Among(s, M)) : Among(s, M)[p] \in M
        /\ \A p, q \in 1..Len(Among(s, M)) : p < q =>
             \E j, k \in 1..Len(s) : j < k /\ s[j] = Among(s, M)[p] /\ s[k] = Among(s, M)[q]
    BY AmongFollows
  <2>4. /\ \A p \in 1..Len(a) : a[p] \in M
        /\ \A p, q \in 1..Len(a) : p < q =>
              \E j, k \in 1..N : j < k /\ s[j] = a[p] /\ s[k] = a[q]
    BY <2>3 DEF a
  <2> QED BY <2>1, <2>2, <2>4
<1> DEFINE From(k) == \A p \in 1..Len(r[k]) : r[k][p] \in ToSet(s)
           D == {k \in 0..N : ~From(k)}
<1>7. D = {}
  <2> SUFFICES ASSUME D /= {} PROVE FALSE
    OBVIOUS
  <2>1. PICK k \in D : \A m \in D : k <= m
    <3>1. D \subseteq Nat
      OBVIOUS
    <3> QED BY <3>1, Least
  <2>2. k /= 0
    <3>1. From(0)
      BY <1>3
    <3> HIDE DEF From
    <3> QED BY <2>1, <3>1
  <2>3. k \in 1..N /\ k - 1 \in 0..N /\ ~(k <= k - 1)
    BY <1>1, <2>1, <2>2
  <2>4. From(k-1)
    <3> HIDE DEF From
    <3> QED BY <2>1, <2>3
  <2> DEFINE t == r[k-1]
  <2>5. t \in Seq(I) /\ Len(t) \in Nat /\ s[k] \in I /\ s[k] \in ToSet(s)
    <3>1. s[k] \in ToSet(s)
      BY <1>1, <2>3 DEF ToSet
    <3>2. t \in Seq(I)
      BY <1>3, <2>3
    <3>3. Len(t) \in Nat
      BY <3>2
    <3> QED BY <1>1, <2>3, <3>1, <3>2, <3>3
  <2>6. From(k)
    <3>1. CASE s[k] \in M
      <4>1. r[k] = Append(t, s[k])
        BY <1>3, <2>3, <3>1
      <4>2. /\ Len(r[k]) = Len(t) + 1 /\ r[k][Len(t) + 1] = s[k]
            /\ \A p \in 1..Len(t) : r[k][p] = t[p]
        BY <2>5, <4>1
      <4>3. \A p \in 1..Len(r[k]) : p \in 1..Len(t) \/ p = Len(t) + 1
        BY <2>5, <4>2
      <4> QED BY <2>4, <2>5, <4>2, <4>3
    <3>2. CASE s[k] \notin M
      <4>1. r[k] = t
        BY <1>3, <2>3, <3>2
      <4> QED BY <2>4, <4>1
    <3> QED BY <3>1, <3>2
  <2> HIDE DEF From
  <2> QED BY <2>1, <2>6
<1>8. \A p \in 1..Len(a) : a[p] \in ToSet(s)
  <2>1. N \in 0..N
    BY <1>1
  <2>2. From(N)
    <3> HIDE DEF From
    <3> QED BY <1>7, <2>1
  <2> QED BY <1>2, <2>2
<1>9. ToSet(a) = ToSet(s) \cap M
  <2>1. \A x \in ToSet(a) : x \in ToSet(s) \cap M
    BY <1>6, <1>8 DEF ToSet
  <2>2. ASSUME NEW x \in ToSet(s) \cap M PROVE x \in ToSet(a)
    <3>1. PICK j \in 1..N : s[j] = x
      BY <1>1 DEF ToSet
    <3>2. PICK p \in 1..Len(a) : a[p] = x
      BY <1>2, <1>5, <3>1
    <3> QED BY <1>6, <3>2 DEF ToSet
  <2> QED BY <2>1, <2>2
<1>10. a \in Seq(ToSet(s) \cap M)
  <2>1. \A p \in 1..Len(a) : a[p] \in ToSet(s) \cap M
    BY <1>6, <1>8
  <2> QED BY <1>6, <2>1
<1>11. ASSUME IsInjective(s) PROVE IsInjective(a)
  <2>1. \A j, k \in 1..N : s[j] = s[k] => j = k
    BY <1>1, <1>11 DEF IsInjective
  <2>2. \A p, q \in 1..Len(a) : p < q => a[p] /= a[q]
    BY <1>1, <1>6, <2>1
  <2>3. \A p, q \in 1..Len(a) : a[p] = a[q] => p = q
    BY <1>6, <2>2
  <2> QED BY <1>6, <2>3 DEF IsInjective
<1> QED BY <1>9, <1>10, <1>11 DEF a

(* A region the schedule lists completely takes its order.               *)
LEMMA RegionTakesSchedule ==
    ASSUME NEW f, NEW I, NEW sch \in Seq(I), IsInjective(sch),
           NEW s \in Seq(I), IsInjective(s),
           NEW p \in 1..Len(s), ~isSchedulingAnchor(f, s[p]),
           {s[q] : q \in Region(f, s, p)} \subseteq ToSet(sch),
           Max(Region(f, s, p)) < Len(s)
    PROVE  FollowsIn(sch, s, reorderBlockWithinRegions(f, sch, s), Region(f, s, p))
<1> DEFINE R == Region(f, s, p)
           M == {s[q] : q \in R}
           o == Among(sch, M)
<1>1. R \subseteq 1..Len(s)
  BY RegionIs
<1>2. Cardinality(M) = Cardinality(R)
  BY <1>1, AsManyMembers
<1> HIDE DEF R, M
<1>3. M \subseteq ToSet(sch)
  BY DEF M, R
<1>4. o \in Seq(ToSet(sch) \cap M) /\ ToSet(o) = M /\ IsInjective(o)
  <2>1. /\ o \in Seq(ToSet(sch) \cap M) /\ ToSet(o) = ToSet(sch) \cap M
        /\ IsInjective(sch) => IsInjective(o)
    BY AmongElements
  <2>2. ToSet(sch) \cap M = M
    BY <1>3
  <2> QED BY <2>1, <2>2
<1>5. Len(o) = Cardinality(M)
  <2> HIDE DEF o
  <2> QED BY <1>4, AsManyElements
<1>6. ListsRegion(f, sch, s, R)
  <2>1. Max(R) < Len(s)
    BY DEF R
  <2> QED BY <1>2, <1>5, <2>1 DEF ListsRegion, M
<1> QED BY <1>6, RegionFollows DEF R

(* Appending a sequence appends its elements.                            *)
LEMMA ConcatElements ==
    ASSUME NEW I, NEW a \in Seq(I), NEW w \in Seq(I)
    PROVE  /\ a \o w \in Seq(I)
           /\ ToSet(a \o w) = ToSet(a) \cup ToSet(w)
           /\ IsInjective(a) /\ IsInjective(w) /\ ToSet(a) \cap ToSet(w) = {} => IsInjective(a \o w)
<1> DEFINE c == a \o w
<1>1. /\ Len(a) \in Nat /\ DOMAIN a = 1..Len(a)
      /\ Len(w) \in Nat /\ DOMAIN w = 1..Len(w)
  OBVIOUS
<1>2. /\ c \in Seq(I) /\ Len(c) = Len(a) + Len(w)
      /\ \A k \in 1..Len(a) : c[k] = a[k]
      /\ \A k \in 1..Len(w) : c[Len(a) + k] = w[k]
  BY ConcatIs
<1>3. DOMAIN c = 1..(Len(a) + Len(w))
  BY <1>2
<1> HIDE DEF c
<1>4. \A k \in 1..(Len(a) + Len(w)) :
        k \in 1..Len(a) \/ (k - Len(a) \in 1..Len(w) /\ Len(a) + (k - Len(a)) = k)
  BY <1>1
<1>5. ToSet(c) = ToSet(a) \cup ToSet(w)
  <2>1. ASSUME NEW x \in ToSet(c) PROVE x \in ToSet(a) \cup ToSet(w)
    <3>1. PICK k \in 1..(Len(a) + Len(w)) : c[k] = x
      BY <1>3 DEF ToSet
    <3>2. CASE k \in 1..Len(a)
      BY <1>1, <1>2, <3>1, <3>2 DEF ToSet
    <3>3. CASE k - Len(a) \in 1..Len(w) /\ Len(a) + (k - Len(a)) = k
      BY <1>1, <1>2, <3>1, <3>3 DEF ToSet
    <3> QED BY <1>4, <3>2, <3>3
  <2>2. ASSUME NEW x \in ToSet(a) PROVE x \in ToSet(c)
    <3>1. PICK k \in 1..Len(a) : a[k] = x
      BY <1>1 DEF ToSet
    <3>2. k \in 1..(Len(a) + Len(w))
      BY <1>1
    <3> QED BY <1>2, <1>3, <3>1, <3>2 DEF ToSet
  <2>3. ASSUME NEW x \in ToSet(w) PROVE x \in ToSet(c)
    <3>1. PICK k \in 1..Len(w) : w[k] = x
      BY <1>1 DEF ToSet
    <3>2. Len(a) + k \in 1..(Len(a) + Len(w))
      BY <1>1
    <3> QED BY <1>2, <1>3, <3>1, <3>2 DEF ToSet
  <2> QED BY <2>1, <2>2, <2>3
<1>6. ASSUME IsInjective(a), IsInjective(w), ToSet(a) \cap ToSet(w) = {}
      PROVE  IsInjective(c)
  <2>1. \A j, k \in 1..Len(a) : a[j] = a[k] => j = k
    BY <1>1, <1>6 DEF IsInjective
  <2>2. \A j, k \in 1..Len(w) : w[j] = w[k] => j = k
    BY <1>1, <1>6 DEF IsInjective
  <2>3. \A j \in 1..Len(a), k \in 1..Len(w) : a[j] /= w[k]
    <3> TAKE j \in 1..Len(a), k \in 1..Len(w)
    <3>1. a[j] \in ToSet(a) /\ w[k] \in ToSet(w)
      BY <1>1 DEF ToSet
    <3> QED BY <1>6, <3>1
  <2>4. ASSUME NEW j \in 1..(Len(a) + Len(w)), NEW k \in 1..(Len(a) + Len(w)), c[j] = c[k]
        PROVE  j = k
    <3>1. CASE j \in 1..Len(a) /\ k \in 1..Len(a)
      BY <1>2, <2>1, <2>4, <3>1
    <3>2. CASE j \in 1..Len(a) /\ k \notin 1..Len(a)
      <4>1. c[j] = a[j] /\ k - Len(a) \in 1..Len(w) /\ c[k] = w[k - Len(a)]
        BY <1>2, <1>4, <3>2
      <4> QED BY <2>3, <2>4, <3>2, <4>1
    <3>3. CASE j \notin 1..Len(a) /\ k \in 1..Len(a)
      <4>1. c[k] = a[k] /\ j - Len(a) \in 1..Len(w) /\ c[j] = w[j - Len(a)]
        BY <1>2, <1>4, <3>3
      <4> QED BY <2>3, <2>4, <3>3, <4>1
    <3>4. CASE j \notin 1..Len(a) /\ k \notin 1..Len(a)
      <4>1. /\ j - Len(a) \in 1..Len(w) /\ c[j] = w[j - Len(a)]
            /\ k - Len(a) \in 1..Len(w) /\ c[k] = w[k - Len(a)]
        BY <1>2, <1>4, <3>4
      <4>2. j - Len(a) = k - Len(a)
        BY <2>2, <2>4, <4>1
      <4> QED BY <1>1, <4>2
    <3> QED BY <3>1, <3>2, <3>3, <3>4
  <2> QED BY <1>3, <2>4 DEF IsInjective
<1> QED BY <1>2, <1>5, <1>6 DEF c

(* addEdge, edge by edge: every edge is there, and there once.           *)
LEMMA AddEdgesIs ==
    ASSUME NEW I, NEW vector \in Seq(I), NEW new \in Seq(I), IsInjective(vector), IsInjective(new)
    PROVE  /\ AddEdges(vector, new) \in Seq(I)
           /\ ToSet(AddEdges(vector, new)) = ToSet(vector) \cup ToSet(new)
           /\ IsInjective(AddEdges(vector, new))
<1> DEFINE w == Among(new, ToSet(new) \ ToSet(vector))
<1>1. /\ w \in Seq(ToSet(new) \cap (ToSet(new) \ ToSet(vector)))
      /\ ToSet(w) = ToSet(new) \cap (ToSet(new) \ ToSet(vector)) /\ IsInjective(w)
  BY AmongElements
<1>2. AddEdges(vector, new) = vector \o w
  BY DEF AddEdges
<1> HIDE DEF w
<1>3. w \in Seq(I)
  <2>1. ToSet(new) \subseteq I
    BY DEF ToSet
  <2>2. Len(w) \in Nat /\ DOMAIN w = 1..Len(w)
    BY <1>1
  <2>3. \A k \in 1..Len(w) : w[k] \in I
    BY <1>1, <2>1, <2>2 DEF ToSet
  <2> QED BY <1>1, <2>2, <2>3
<1>4. ToSet(vector) \cap ToSet(w) = {} /\ ToSet(vector) \cup ToSet(w) = ToSet(vector) \cup ToSet(new)
  BY <1>1
<1>5. /\ vector \o w \in Seq(I) /\ ToSet(vector \o w) = ToSet(vector) \cup ToSet(w)
      /\ IsInjective(vector \o w)
  BY <1>1, <1>3, <1>4, ConcatElements
<1> QED BY <1>2, <1>4, <1>5

(* The ordered operations behind one of them, as the code lists them.    *)
LEMMA OrderDependentsAre ==
    ASSUME NEW f, NEW I, NEW s \in Seq(I), IsInjective(s), NEW i
    PROVE  /\ OrderDependents(f, s, i) \in Seq(ToSet(s)) /\ IsInjective(OrderDependents(f, s, i))
           /\ \A n \in ToSet(OrderDependents(f, s, i)) :
                /\ n \in ToSet(s) /\ IsOrderedOp(f, i) /\ IsOrderedOp(f, n)
                /\ \E p, q \in 1..Len(s) : p < q /\ s[p] = i /\ s[q] = n
<1> DEFINE M == {n \in ToSet(s) : IsOrderedOp(f, n) /\
                                  \E p, q \in DOMAIN s : p < q /\ s[p] = i /\ s[q] = n}
           o == OrderDependents(f, s, i)
<1>1. DOMAIN s = 1..Len(s)
  OBVIOUS
<1>2. CASE IsOrderedOp(f, i)
  <2>1. o = Among(s, M)
    BY <1>2 DEF OrderDependents
  <2>2. \A n \in M : IsOrderedOp(f, n) /\ \E p, q \in 1..Len(s) : p < q /\ s[p] = i /\ s[q] = n
    BY <1>1
  <2>3. /\ Among(s, M) \in Seq(ToSet(s) \cap M) /\ ToSet(Among(s, M)) = ToSet(s) \cap M
        /\ IsInjective(Among(s, M))
    <3> HIDE DEF M
    <3> QED BY AmongElements
  <2> HIDE DEF M, o
  <2>4. Among(s, M) \in Seq(ToSet(s))
    BY <2>3
  <2> QED BY <1>2, <2>1, <2>2, <2>3, <2>4 DEF o
<1>3. CASE ~IsOrderedOp(f, i)
  <2>1. o = <<>>
    BY <1>3 DEF OrderDependents
  <2>2. <<>> \in Seq(ToSet(s)) /\ IsInjective(<<>>) /\ ToSet(<<>>) = {}
    BY DEF IsInjective, ToSet
  <2> QED BY <2>1, <2>2
<1> QED BY <1>2, <1>3

(* What the list scheduler needs of a graph of function f: one node per  *)
(* instruction, an edge once, the values of f, and an edge from each     *)
(* operand to its user where both can be scheduled.                      *)
IsDDG(f, g) ==
    /\ g.nodes \in Seq(Instructions(f)) /\ IsInjective(g.nodes)
    /\ g.succ \in [ToSet(g.nodes) -> Seq(ToSet(g.nodes))]
    /\ \A n \in ToSet(g.nodes) : IsInjective(g.succ[n])
    /\ g.movable = {n \in ToSet(g.nodes) : ~IsTerminator(f, n) /\ ~IsPHI(f, n)}
    /\ g.result \in [ToSet(g.nodes) -> SUBSET Universe(f)]
    /\ \A n \in ToSet(g.nodes) : IsFiniteSet(g.result[n])
    /\ g.operands \in [ToSet(g.nodes) -> Seq(Universe(f))]
    /\ g.out \in [ToSet(g.nodes) -> SUBSET Universe(f)]
    /\ g.live \subseteq Universe(f) /\ IsFiniteSet(g.live)
    /\ \A v, n \in g.movable : v \in Operands(f, n) => n \in ToSet(g.succ[v])

(* ScheduleInput adds what has these properties to nodes and edges that  *)
(* have them.                                                            *)
LEMMA ScheduleInputIs ==
    ASSUME NEW f, IsFunction(f), NEW first \in Blocks(f),
           NEW nodes \in Seq(Instructions(f)), IsInjective(nodes),
           NEW succ \in [ToSet(nodes) -> Seq(ToSet(nodes))],
           \A n \in ToSet(nodes) : IsInjective(succ[n]),
           \A v, n \in ToSet(nodes) :
              /\ ~IsTerminator(f, v) /\ ~IsPHI(f, v) /\ ~IsTerminator(f, n) /\ ~IsPHI(f, n)
              /\ v \in Operands(f, n)
              => n \in ToSet(succ[v])
    PROVE  /\ IsDDG(f, ScheduleInput(f, nodes, succ, first))
           /\ ScheduleInput(f, nodes, succ, first).nodes = nodes
           /\ ScheduleInput(f, nodes, succ, first).succ = succ
<1> DEFINE N == ToSet(nodes)
           g == ScheduleInput(f, nodes, succ, first)
<1>1. /\ g.nodes = nodes /\ g.succ = succ
      /\ g.movable = {n \in N : ~IsTerminator(f, n) /\ ~IsPHI(f, n)}
      /\ g.result = [n \in N |-> {n} \cap Universe(f)]
      /\ g.operands = [n \in N |-> f.use[n]]
      /\ g.out = [n \in N |-> LiveOut(f)[BlockOf(f.body, n)]]
      /\ g.live = LiveIn(f)[first]
  BY DEF ScheduleInput
<1>2. N \subseteq Instructions(f)
  BY DEF ToSet
<1>3. \A b \in Blocks(f) : LiveIn(f)[b] \subseteq Universe(f)
  BY DEF LiveIn
<1>4. \A b \in Blocks(f) : LiveOut(f)[b] \subseteq Universe(f)
  <2>1. \A b \in Blocks(f) : Succs(f, b) \subseteq Blocks(f)
    BY FunctionGraph DEF IsCFG
  <2>2. \A b \in Blocks(f) : LiveOut(f)[b] = UNION {LiveIn(f)[s] : s \in Succs(f, b)}
    BY DEF LiveOut
  <2> QED BY <1>3, <2>1, <2>2
<1>5. IsPlacement(f, f.body) /\ IsFiniteSet(Universe(f)) /\ f.use \in [Instructions(f) -> Seq(Universe(f))]
  BY DEF IsFunction
<1>6. \A n \in N : BlockOf(f.body, n) \in Blocks(f)
  BY <1>2, <1>5, PlacedOnce
<1>7. \A n \in N : {n} \cap Universe(f) \in SUBSET Universe(f) /\ IsFiniteSet({n} \cap Universe(f))
  BY <1>5, FS_Subset
<1>8. LiveIn(f)[first] \subseteq Universe(f) /\ IsFiniteSet(LiveIn(f)[first])
  BY <1>3, <1>5, FS_Subset
<1> HIDE DEF g
<1>9. /\ g.result \in [N -> SUBSET Universe(f)] /\ \A n \in N : IsFiniteSet(g.result[n])
      /\ g.operands \in [N -> Seq(Universe(f))]
      /\ g.out \in [N -> SUBSET Universe(f)]
  <2>1. g.result \in [N -> SUBSET Universe(f)] /\ \A n \in N : IsFiniteSet(g.result[n])
    BY <1>1, <1>7
  <2>2. g.operands \in [N -> Seq(Universe(f))]
    BY <1>1, <1>2, <1>5
  <2>3. g.out \in [N -> SUBSET Universe(f)]
    BY <1>1, <1>4, <1>6
  <2> QED BY <2>1, <2>2, <2>3
<1>10. IsDDG(f, g)
  BY <1>1, <1>8, <1>9 DEF IsDDG
<1> QED BY <1>1, <1>10 DEF g

(* The graph of one block has these properties.                          *)
LEMMA LocalDDGIs ==
    ASSUME NEW f, IsFunction(f), NEW b \in Blocks(f)
    PROVE  /\ IsDDG(f, LocalDDG(f, b)) /\ LocalDDG(f, b).nodes = f.body[b]
           /\ \A v, n \in ToSet(f.body[b]) :
                n \in ToSet(LocalDDG(f, b).succ[v]) =>
                  \/ v \in Operands(f, n)
                  \/ \E p, q \in 1..Len(f.body[b]) : p < q /\ f.body[b][p] = v /\ f.body[b][q] = n
<1> DEFINE s == f.body[b]
           N == ToSet(s)
           users(i) == Among(s, {n \in N : i \in Operands(f, n)})
           succ == LocalSuccessors(f, b)
<1>1. s \in Seq(Instructions(f)) /\ IsInjective(s)
  BY DEF IsFunction, IsPlacement
<1>2. s \in Seq(N)
  <2>1. \A k \in 1..Len(s) : s[k] \in ToSet(s)
    BY <1>1 DEF ToSet
  <2> QED BY <1>1, <2>1
<1> HIDE DEF s
<1>3. ASSUME NEW i \in N
      PROVE  /\ succ[i] \in Seq(N) /\ IsInjective(succ[i])
             /\ ToSet(succ[i]) = {n \in N : i \in Operands(f, n)} \cup ToSet(OrderDependents(f, s, i))
  <2>1. /\ users(i) \in Seq(N \cap {n \in N : i \in Operands(f, n)}) /\ IsInjective(users(i))
        /\ ToSet(users(i)) = N \cap {n \in N : i \in Operands(f, n)}
    BY <1>1, AmongElements
  <2>2. OrderDependents(f, s, i) \in Seq(N) /\ IsInjective(OrderDependents(f, s, i))
    BY <1>1, OrderDependentsAre
  <2>3. succ[i] = AddEdges(users(i), OrderDependents(f, s, i))
    BY DEF LocalSuccessors, s
  <2> DEFINE u == users(i)
             o == OrderDependents(f, s, i)
  <2> HIDE DEF u, o, succ
  <2>4. u \in Seq(N) /\ o \in Seq(N) /\ IsInjective(u) /\ IsInjective(o) /\ succ[i] = AddEdges(u, o)
    <3>1. u \in Seq(N)
      BY <2>1 DEF u
    <3> QED BY <2>1, <2>2, <2>3, <3>1 DEF u, o
  <2>5. succ[i] \in Seq(N) /\ IsInjective(succ[i]) /\ ToSet(succ[i]) = ToSet(u) \cup ToSet(o)
    BY <2>4, AddEdgesIs
  <2> QED BY <2>1, <2>5 DEF u, o
<1>4. succ \in [N -> Seq(N)]
  <2>1. succ = [i \in N |-> succ[i]]
    BY DEF LocalSuccessors, s
  <2> HIDE DEF succ
  <2> QED BY <1>3, <2>1
<1> HIDE DEF succ
<1>5. LocalDDG(f, b) = ScheduleInput(f, s, succ, b)
  BY DEF LocalDDG, s, succ
<1>6. \A v, n \in N : v \in Operands(f, n) => n \in ToSet(succ[v])
  BY <1>3
<1>7. IsDDG(f, LocalDDG(f, b)) /\ LocalDDG(f, b).nodes = s /\ LocalDDG(f, b).succ = succ
  BY <1>1, <1>3, <1>4, <1>5, <1>6, ScheduleInputIs
<1>8. ASSUME NEW v \in N, NEW n \in N, n \in ToSet(succ[v]), v \notin Operands(f, n)
      PROVE  \E p, q \in 1..Len(s) : p < q /\ s[p] = v /\ s[q] = n
  <2>1. n \in ToSet(OrderDependents(f, s, v))
    BY <1>3, <1>8
  <2> QED BY <1>1, <2>1, OrderDependentsAre
<1> QED BY <1>7, <1>8 DEF s

(* A result that comes after all its predecessors in the graph lists no  *)
(* instruction before an operand.                                        *)
LEMMA DependenceKeepsOperands ==
    ASSUME NEW f, NEW g, IsDDG(f, g), NEW sch \in Seq(ToSet(g.nodes)), IsInjective(sch),
           ToSet(sch) \subseteq g.movable,
           \A k \in 1..Len(sch) :
              {m \in ToSet(g.nodes) : sch[k] \in ToSet(g.succ[m])} \subseteq {sch[j] : j \in 1..(k-1)}
    PROVE  sch \in Seq(Instructions(f)) /\ AfterOperands(f, sch)
<1>1. Len(sch) \in Nat /\ DOMAIN sch = 1..Len(sch) /\ \A k \in 1..Len(sch) : sch[k] \in ToSet(g.nodes)
  OBVIOUS
<1>2. ToSet(g.nodes) \subseteq Instructions(f)
  BY DEF IsDDG, ToSet
<1>3. sch \in Seq(Instructions(f))
  BY <1>1, <1>2
<1>4. \A k \in 1..Len(sch) : sch[k] \in g.movable
  BY <1>1 DEF ToSet
<1>5. ASSUME NEW j \in 1..Len(sch), NEW k \in 1..Len(sch), sch[j] \in Operands(f, sch[k])
      PROVE  j < k
  <2>1. sch[k] \in ToSet(g.succ[sch[j]])
    BY <1>4, <1>5 DEF IsDDG
  <2>2. PICK m \in 1..(k-1) : sch[j] = sch[m]
    BY <1>1, <2>1
  <2>3. m \in 1..Len(sch) /\ m < k
    BY <1>1, <2>2
  <2>4. j = m
    BY <1>1, <2>2, <2>3 DEF IsInjective
  <2> QED BY <2>3, <2>4
<1> QED BY <1>1, <1>3, <1>5 DEF AfterOperands
-----------------------------------------------------------------------------
(* r lists the nodes of the first blocks of a trace.                     *)
ListsNodes(f, trace, r) ==
    /\ r \in [0..Len(trace) -> Seq(Instructions(f))]
    /\ r[0] = <<>>
    /\ \A t \in 1..Len(trace) :
          r[t] = r[t-1] \o Among(f.body[trace[t]], {i \in Instructions(f) : ~IsPHI(f, i)})

NodesAreListed(f, trace) ==
    \E r : ListsNodes(f, trace, r) /\ TraceNodes(f, trace) = r[Len(trace)]

(* buildDDG lists them block by block.                                   *)
LEMMA TraceNodesListed ==
    ASSUME NEW f, NEW trace, Len(trace) \in Nat,
           \A t \in 1..Len(trace) : f.body[trace[t]] \in Seq(Instructions(f))
    PROVE  NodesAreListed(f, trace)
<1> DEFINE N == Len(trace)
           D == Seq(Instructions(f))
           part(t) == Among(f.body[trace[t]], {i \in Instructions(f) : ~IsPHI(f, i)})
           G == [tx \in (1..N) \X D |-> tx[2] \o part(tx[1])]
<1>1. N \in Nat
  OBVIOUS
<1>2. \A t \in 1..N : part(t) \in D
  BY AmongFollows
<1> HIDE DEF part
<1>3. G \in [(1..N) \X D -> D] /\ \A t \in 1..N, x \in D : G[<<t, x>>] = x \o part(t)
  <2>1. \A t \in 1..N, x \in D : x \o part(t) \in D
    BY <1>2
  <2> QED BY <2>1
<1>4. <<>> \in D
  OBVIOUS
<1> HIDE DEF G, D, N
<1>5. PICK r \in [0..N -> D] : r[0] = <<>> /\ \A t \in 1..N : r[t] = G[<<t, r[t-1]>>]
  <2>1. IsRecursive(N, D, G, <<>>)
    BY <1>1, <1>3, <1>4, RecursionExists
  <2> QED BY <2>1 DEF IsRecursive
<1>6. \A t \in 1..N : t - 1 \in 0..N /\ r[t] = r[t-1] \o part(t)
  <2> TAKE t \in 1..N
  <2>1. t - 1 \in 0..N /\ r[t-1] \in D
    BY <1>1
  <2> QED BY <1>3, <1>5, <2>1
<1> DEFINE Eq(h) == h = [t \in 0..N |-> IF t = 0 THEN <<>> ELSE h[t-1] \o part(t)]
           g == CHOOSE h : Eq(h)
<1>7. Eq(r)
  <2>1. \A t \in 0..N : t = 0 \/ t \in 1..N
    BY <1>1
  <2>2. \A t \in 0..N : r[t] = IF t = 0 THEN <<>> ELSE r[t-1] \o part(t)
    BY <1>5, <1>6, <2>1
  <2> QED BY <2>2
<1>8. Eq(g)
  <2> HIDE DEF Eq
  <2> QED BY <1>7
<1>9. TraceNodes(f, trace) = g[N]
  BY DEF TraceNodes, N, part
<1> HIDE DEF g
<1>10. \A t \in 0..N : g[t] = IF t = 0 THEN <<>> ELSE g[t-1] \o part(t)
  BY <1>8
<1>11. \A t \in 0..N : g[t] = r[t]
  <2> DEFINE T == {t \in 0..N : g[t] /= r[t]}
  <2> SUFFICES ASSUME T /= {} PROVE FALSE
    OBVIOUS
  <2>1. PICK t \in T : \A u \in T : t <= u
    <3>1. T \subseteq Nat
      BY <1>1
    <3> QED BY <3>1, Least
  <2>2. t \in 1..N /\ ~(t <= t - 1) /\ t - 1 \in 0..N
    <3>1. t /= 0
      BY <1>5, <1>10, <2>1
    <3> QED BY <1>1, <2>1, <3>1
  <2>3. t - 1 \notin T
    <3> HIDE DEF T
    <3> QED BY <2>1, <2>2
  <2>4. g[t-1] = r[t-1]
    BY <2>2, <2>3
  <2>5. g[t] = g[t-1] \o part(t)
    <3>1. t \in 0..N /\ t /= 0
      BY <1>1, <2>2
    <3> QED BY <1>10, <3>1
  <2>6. g[t] = r[t]
    BY <1>6, <2>2, <2>4, <2>5
  <2> QED BY <2>1, <2>6
<1>12. N \in 0..N
  BY <1>1
<1>13. TraceNodes(f, trace) = r[N]
  BY <1>9, <1>11, <1>12
<1>14. ListsNodes(f, trace, r)
  BY <1>5, <1>6 DEF ListsNodes, N, D, part
<1> QED BY <1>13, <1>14 DEF NodesAreListed, N

(* What TraceNodes lists: once each, the instructions of the trace's     *)
(* blocks that are no PHIs.                                              *)
OnTrace(f, trace) ==
    {i \in Instructions(f) : ~IsPHI(f, i) /\ BlockOf(f.body, i) \in ToSet(trace)}

(* Every instruction of the trace but the PHIs has one node.             *)
LEMMA TraceNodesAre ==
    ASSUME NEW f, IsPlacement(f, f.body), NEW trace \in Seq(Blocks(f)), IsInjective(trace)
    PROVE  /\ TraceNodes(f, trace) \in Seq(Instructions(f)) /\ IsInjective(TraceNodes(f, trace))
           /\ ToSet(TraceNodes(f, trace)) = OnTrace(f, trace)
<1> DEFINE N == Len(trace)
           I == Instructions(f)
           M == {i \in I : ~IsPHI(f, i)}
           part(t) == Among(f.body[trace[t]], M)
           listed(t) == {i \in M : \E u \in 1..t : BlockOf(f.body, i) = trace[u]}
<1>1. /\ N \in Nat /\ DOMAIN trace = 1..N
      /\ \A t \in 1..N : trace[t] \in Blocks(f)
  OBVIOUS
<1>2. \A t \in 1..N : f.body[trace[t]] \in Seq(I) /\ IsInjective(f.body[trace[t]])
  BY <1>1 DEF IsPlacement
<1>3. PICK r : ListsNodes(f, trace, r) /\ TraceNodes(f, trace) = r[N]
  BY <1>1, <1>2, TraceNodesListed DEF NodesAreListed
<1>4. /\ r[0] = <<>> /\ \A t \in 0..N : r[t] \in Seq(I)
      /\ \A t \in 1..N : r[t] = r[t-1] \o part(t)
  BY <1>3 DEF ListsNodes
<1>5. ASSUME NEW t \in 1..N
      PROVE  /\ part(t) \in Seq(I) /\ IsInjective(part(t))
             /\ ToSet(part(t)) = {i \in M : BlockOf(f.body, i) = trace[t]}
  <2> DEFINE s == f.body[trace[t]]
  <2>1. s \in Seq(I) /\ IsInjective(s)
    BY <1>2
  <2>2. part(t) \in Seq(I)
    <3> HIDE DEF M
    <3> QED BY <2>1, AmongFollows
  <2>3. ToSet(part(t)) = ToSet(s) \cap M /\ IsInjective(part(t))
    <3> HIDE DEF M
    <3> QED BY <2>1, AmongElements
  <2>4. \A i \in M : i \in ToSet(s) <=> BlockOf(f.body, i) = trace[t]
    BY <1>1, PlacedOnce
  <2> HIDE DEF s, M
  <2> QED BY <2>2, <2>3, <2>4
<1> DEFINE Right(t) == IsInjective(r[t]) /\ ToSet(r[t]) = listed(t)
<1>6. Right(0)
  <2>1. IsInjective(<<>>) /\ ToSet(<<>>) = {}
    BY DEF IsInjective, ToSet
  <2>2. listed(0) = {}
    OBVIOUS
  <2> QED BY <1>4, <2>1, <2>2
<1>7. ASSUME NEW t \in 1..N, Right(t-1) PROVE Right(t)
  <2>1. t - 1 \in 0..N /\ 1..t = (1..(t-1)) \cup {t}
    BY <1>1
  <2>2. listed(t) = listed(t-1) \cup {i \in M : BlockOf(f.body, i) = trace[t]}
    <3> HIDE DEF M
    <3> QED BY <2>1
  <2>3. listed(t-1) \cap {i \in M : BlockOf(f.body, i) = trace[t]} = {}
    <3>1. \A u \in 1..(t-1) : trace[u] /= trace[t]
      <4>1. \A u \in 1..(t-1) : u \in 1..N /\ u /= t
        BY <1>1
      <4> QED BY <1>1, <4>1 DEF IsInjective
    <3> HIDE DEF M
    <3> QED BY <3>1
  <2>4. r[t-1] \in Seq(I) /\ part(t) \in Seq(I)
    BY <1>4, <1>5, <2>1
  <2>5. IsInjective(r[t-1]) /\ ToSet(r[t-1]) = listed(t-1)
    BY <1>7
  <2>6. IsInjective(part(t)) /\ ToSet(part(t)) = {i \in M : BlockOf(f.body, i) = trace[t]}
    BY <1>5
  <2>7. r[t] = r[t-1] \o part(t)
    BY <1>4
  <2> DEFINE a == r[t-1]
             w == part(t)
  <2> HIDE DEF listed, M, part, a, w
  <2>8. a \in Seq(I) /\ w \in Seq(I) /\ IsInjective(a) /\ IsInjective(w) /\ ToSet(a) \cap ToSet(w) = {}
    BY <2>3, <2>4, <2>5, <2>6 DEF a, w
  <2>9. ToSet(a \o w) = ToSet(a) \cup ToSet(w) /\ IsInjective(a \o w)
    BY <2>8, ConcatElements
  <2> QED BY <2>2, <2>5, <2>6, <2>7, <2>9 DEF a, w
<1>8. \A t \in 0..N : Right(t)
  <2> DEFINE T == {t \in 0..N : ~Right(t)}
  <2> SUFFICES ASSUME T /= {} PROVE FALSE
    OBVIOUS
  <2> HIDE DEF Right
  <2>1. PICK t \in T : \A u \in T : t <= u
    <3>1. T \subseteq Nat
      BY <1>1
    <3> QED BY <3>1, Least
  <2>2. t \in 1..N /\ ~(t <= t - 1) /\ t - 1 \in 0..N
    BY <1>1, <1>6, <2>1
  <2>3. Right(t-1)
    BY <2>1, <2>2
  <2> QED BY <1>7, <2>1, <2>2, <2>3
<1>9. N \in 0..N
  BY <1>1
<1>10. r[N] \in Seq(I) /\ IsInjective(r[N]) /\ ToSet(r[N]) = listed(N)
  BY <1>4, <1>8, <1>9
<1>11. listed(N) = OnTrace(f, trace)
  <2>1. \A x : x \in ToSet(trace) <=> \E u \in 1..N : x = trace[u]
    BY <1>1 DEF ToSet
  <2> QED BY <2>1 DEF OnTrace
<1> QED BY <1>3, <1>10, <1>11

(* The graph of a trace is what the list scheduler needs, and what a     *)
(* movable instruction waits for can be moved itself.                    *)
LEMMA TraceDDGIs ==
    ASSUME NEW f, IsFunction(f), NEW trace \in Seq(Blocks(f)), IsInjective(trace), trace /= <<>>
    PROVE  /\ IsDDG(f, TraceDDG(f, trace))
           /\ TraceDDG(f, trace).nodes = TraceNodes(f, trace)
           /\ TraceDDG(f, trace).succ = TraceSuccessors(f, trace)
           /\ \A m, n \in ToSet(TraceNodes(f, trace)) :
                n \in ToSet(TraceSuccessors(f, trace)[m]) => ~IsTerminator(f, m) /\ ~IsPHI(f, m)
<1> DEFINE nodes == TraceNodes(f, trace)
           N == ToSet(nodes)
           succ == TraceSuccessors(f, trace)
           users(i) == {n \in N : ~IsTerminator(f, n) /\ i \in Operands(f, n)}
           true(i) == IF IsTerminator(f, i) THEN <<>> ELSE Among(nodes, users(i))
           order(i) == OrderDependents(f, f.body[BlockOf(f.body, i)], i)
<1>1. IsPlacement(f, f.body) /\ trace[1] \in Blocks(f)
  BY DEF IsFunction
<1>2. nodes \in Seq(Instructions(f)) /\ IsInjective(nodes) /\ N = OnTrace(f, trace)
  BY <1>1, TraceNodesAre
<1>3. succ = [i \in N |-> AddEdges(true(i), order(i))]
  BY DEF TraceSuccessors
<1> HIDE DEF nodes, succ
<1>4. ASSUME NEW i \in N
      PROVE  true(i) \in Seq(N) /\ IsInjective(true(i))
             /\ ToSet(true(i)) = IF IsTerminator(f, i) THEN {} ELSE users(i)
  <2>1. CASE IsTerminator(f, i)
    <3>1. <<>> \in Seq(N) /\ IsInjective(<<>>) /\ ToSet(<<>>) = {}
      BY DEF IsInjective, ToSet
    <3> QED BY <2>1, <3>1
  <2>2. CASE ~IsTerminator(f, i)
    <3>1. users(i) \subseteq N
      OBVIOUS
    <3>2. true(i) = Among(nodes, users(i))
      BY <2>2
    <3> HIDE DEF users, true
    <3>3. /\ Among(nodes, users(i)) \in Seq(N \cap users(i)) /\ IsInjective(Among(nodes, users(i)))
          /\ ToSet(Among(nodes, users(i))) = N \cap users(i)
      BY <1>2, AmongElements
    <3>4. Among(nodes, users(i)) \in Seq(N)
      BY <3>3
    <3> QED BY <2>2, <3>1, <3>2, <3>3, <3>4
  <2> QED BY <2>1, <2>2
<1>5. ASSUME NEW i \in N
      PROVE  order(i) \in Seq(N) /\ IsInjective(order(i))
             /\ (ToSet(order(i)) /= {} => IsOrderedOp(f, i))
  <2> DEFINE b == BlockOf(f.body, i)
             s == f.body[b]
             o == order(i)
  <2>1. i \in Instructions(f) /\ b \in ToSet(trace) /\ b \in Blocks(f)
    <3>1. i \in Instructions(f) /\ b \in ToSet(trace)
      BY <1>2 DEF OnTrace
    <3> QED BY <1>1, <3>1, PlacedOnce
  <2>2. s \in Seq(Instructions(f)) /\ IsInjective(s)
    BY <1>1, <2>1 DEF IsPlacement
  <2>3. o = OrderDependents(f, s, i)
    OBVIOUS
  <2> HIDE DEF o, order, s
  <2>4. /\ o \in Seq(ToSet(s)) /\ IsInjective(o)
        /\ \A n \in ToSet(o) : n \in ToSet(s) /\ IsOrderedOp(f, i) /\ IsOrderedOp(f, n)
    BY <2>2, <2>3, OrderDependentsAre
  <2>5. \A n \in ToSet(o) : n \in N
    <3> TAKE n \in ToSet(o)
    <3>1. n \in ToSet(s) /\ IsOrderedOp(f, n)
      BY <2>4
    <3>2. n \in Instructions(f)
      BY <2>2, <3>1 DEF ToSet
    <3>3. BlockOf(f.body, n) = b
      BY <1>1, <2>1, <3>1, <3>2, PlacedOnce DEF s
    <3>4. ~IsPHI(f, n)
      BY <3>1 DEF IsOrderedOp, IsPHI
    <3> QED BY <1>2, <2>1, <3>2, <3>3, <3>4 DEF OnTrace
  <2>6. o \in Seq(N)
    <3>1. Len(o) \in Nat /\ DOMAIN o = 1..Len(o) /\ \A k \in 1..Len(o) : o[k] \in ToSet(o)
      BY <2>4 DEF ToSet
    <3>2. \A k \in 1..Len(o) : o[k] \in N
      BY <2>5, <3>1
    <3> QED BY <2>4, <3>2
  <2> QED BY <2>4, <2>6 DEF o
<1>6. ASSUME NEW i \in N
      PROVE  /\ succ[i] \in Seq(N) /\ IsInjective(succ[i])
             /\ ToSet(succ[i]) = ToSet(true(i)) \cup ToSet(order(i))
  <2> DEFINE u == true(i)
             o == order(i)
  <2>1. u \in Seq(N) /\ IsInjective(u) /\ o \in Seq(N) /\ IsInjective(o)
    BY <1>4, <1>5
  <2>2. succ[i] = AddEdges(u, o)
    BY <1>3
  <2> HIDE DEF u, o, true, order
  <2>3. /\ AddEdges(u, o) \in Seq(N) /\ IsInjective(AddEdges(u, o))
        /\ ToSet(AddEdges(u, o)) = ToSet(u) \cup ToSet(o)
    BY <2>1, AddEdgesIs
  <2> QED BY <2>2, <2>3 DEF u, o
<1>7. succ \in [N -> Seq(N)]
  BY <1>3, <1>6
<1>8. \A n \in N : ~IsPHI(f, n)
  BY <1>2 DEF OnTrace
<1>9. ASSUME NEW v \in N, NEW n \in N, ~IsTerminator(f, v), ~IsTerminator(f, n), v \in Operands(f, n)
      PROVE  n \in ToSet(succ[v])
  <2>1. n \in users(v)
    BY <1>9
  <2> HIDE DEF true, order
  <2>2. n \in ToSet(true(v))
    BY <1>4, <1>9, <2>1
  <2> QED BY <1>6, <2>2
<1>10. ASSUME NEW m \in N, NEW n \in N, n \in ToSet(succ[m])
       PROVE  ~IsTerminator(f, m)
  <2>1. CASE n \in ToSet(true(m))
    BY <1>4, <2>1
  <2>2. CASE n \in ToSet(order(m))
    <3> HIDE DEF order
    <3>1. IsOrderedOp(f, m)
      BY <1>5, <2>2
    <3> QED BY <3>1 DEF IsOrderedOp, IsTerminator
  <2> HIDE DEF true, order
  <2> QED BY <1>6, <1>10, <2>1, <2>2
<1>11. TraceDDG(f, trace) = ScheduleInput(f, nodes, succ, trace[1])
  BY DEF TraceDDG, nodes, succ
<1> HIDE DEF N, true, order, users
<1>12. /\ IsDDG(f, ScheduleInput(f, nodes, succ, trace[1]))
       /\ ScheduleInput(f, nodes, succ, trace[1]).nodes = nodes
       /\ ScheduleInput(f, nodes, succ, trace[1]).succ = succ
  BY <1>1, <1>2, <1>6, <1>7, <1>9, ScheduleInputIs DEF N
<1> QED BY <1>8, <1>10, <1>11, <1>12 DEF nodes, succ, N

(* The nodes and edges of a trace are those of any program with the same *)
(* blocks on it.                                                         *)
LEMMA TraceDDGKept ==
    ASSUME NEW f, IsFunction(f), NEW trace \in Seq(Blocks(f)), IsInjective(trace),
           NEW now, IsPlacement(f, now.body), now.op = f.op, now.use = f.use,
           \A b \in ToSet(trace) : now.body[b] = f.body[b]
    PROVE  /\ TraceNodes(now, trace) = TraceNodes(f, trace)
           /\ \A n \in ToSet(TraceNodes(f, trace)) :
                TraceSuccessors(now, trace)[n] = TraceSuccessors(f, trace)[n]
<1> DEFINE N == Len(trace)
<1>1. /\ Instructions(now) = Instructions(f)
      /\ \A i : /\ IsPHI(now, i) <=> IsPHI(f, i)
                /\ IsTerminator(now, i) <=> IsTerminator(f, i)
                /\ IsOrderedOp(now, i) <=> IsOrderedOp(f, i)
                /\ Operands(now, i) = Operands(f, i)
  BY DEF Instructions, IsPHI, IsTerminator, IsOrderedOp, Operands
<1>2. IsPlacement(f, f.body)
  BY DEF IsFunction
<1>3. N \in Nat /\ \A t \in 1..N : trace[t] \in Blocks(f) /\ trace[t] \in ToSet(trace)
  BY DEF ToSet
<1>4. \A t \in 1..N : f.body[trace[t]] \in Seq(Instructions(f)) /\ now.body[trace[t]] = f.body[trace[t]]
  BY <1>2, <1>3 DEF IsPlacement
<1>5. PICK r : ListsNodes(f, trace, r) /\ TraceNodes(f, trace) = r[N]
  BY <1>3, <1>4, TraceNodesListed DEF NodesAreListed
<1>6. PICK q : ListsNodes(now, trace, q) /\ TraceNodes(now, trace) = q[N]
  <2>1. \A t \in 1..N : now.body[trace[t]] \in Seq(Instructions(now))
    BY <1>1, <1>4
  <2> QED BY <1>3, <2>1, TraceNodesListed DEF NodesAreListed
<1>7. {i \in Instructions(now) : ~IsPHI(now, i)} = {i \in Instructions(f) : ~IsPHI(f, i)}
  BY <1>1
<1>8. \A t \in 0..N : q[t] = r[t]
  <2> DEFINE T == {t \in 0..N : q[t] /= r[t]}
             part(t) == Among(f.body[trace[t]], {i \in Instructions(f) : ~IsPHI(f, i)})
  <2> SUFFICES ASSUME T /= {} PROVE FALSE
    OBVIOUS
  <2>1. PICK t \in T : \A u \in T : t <= u
    <3>1. T \subseteq Nat
      BY <1>3
    <3> QED BY <3>1, Least
  <2>2. /\ q[0] = r[0] /\ \A u \in 1..N : r[u] = r[u-1] \o part(u)
        /\ \A u \in 1..N : q[u] = q[u-1] \o part(u)
    BY <1>4, <1>5, <1>6, <1>7 DEF ListsNodes
  <2>3. t \in 1..N /\ ~(t <= t - 1) /\ t - 1 \in 0..N
    BY <1>3, <2>1, <2>2
  <2>4. q[t-1] = r[t-1]
    BY <2>1, <2>3
  <2> QED BY <2>1, <2>2, <2>3, <2>4
<1>9. TraceNodes(now, trace) = TraceNodes(f, trace)
  <2>1. N \in 0..N
    BY <1>3
  <2> QED BY <1>5, <1>6, <1>8, <2>1
<1>10. ASSUME NEW n \in ToSet(TraceNodes(f, trace))
       PROVE  TraceSuccessors(now, trace)[n] = TraceSuccessors(f, trace)[n]
  <2> DEFINE b == BlockOf(f.body, n)
             s == f.body[b]
             nodes == TraceNodes(f, trace)
  <2>1. n \in OnTrace(f, trace)
    BY <1>2, TraceNodesAre
  <2>2. n \in Instructions(f) /\ b \in ToSet(trace) /\ b \in Blocks(f) /\ n \in ToSet(s)
    <3>1. n \in Instructions(f) /\ b \in ToSet(trace)
      BY <2>1 DEF OnTrace
    <3> QED BY <1>2, <3>1, PlacedOnce
  <2>3. BlockOf(now.body, n) = b
    BY <2>2, PlacedOnce
  <2>4. now.body[BlockOf(now.body, n)] = s
    BY <2>2, <2>3
  <2>5. OrderDependents(now, s, n) = OrderDependents(f, s, n)
    <3>1. {m \in ToSet(s) : IsOrderedOp(now, m) /\ \E p, q1 \in DOMAIN s : p < q1 /\ s[p] = n /\ s[q1] = m}
            = {m \in ToSet(s) : IsOrderedOp(f, m) /\ \E p, q1 \in DOMAIN s : p < q1 /\ s[p] = n /\ s[q1] = m}
      BY <1>1
    <3> HIDE DEF s
    <3> QED BY <1>1, <3>1 DEF OrderDependents
  <2>6. {m \in ToSet(nodes) : ~IsTerminator(now, m) /\ n \in Operands(now, m)}
          = {m \in ToSet(nodes) : ~IsTerminator(f, m) /\ n \in Operands(f, m)}
    BY <1>1
  <2> HIDE DEF s, nodes
  <2>7. TraceSuccessors(now, trace)[n] =
          AddEdges(IF IsTerminator(now, n) THEN <<>>
                   ELSE Among(nodes, {m \in ToSet(nodes) : ~IsTerminator(now, m) /\ n \in Operands(now, m)}),
                   OrderDependents(now, now.body[BlockOf(now.body, n)], n))
    BY <1>9 DEF TraceSuccessors, nodes
  <2>8. TraceSuccessors(f, trace)[n] =
          AddEdges(IF IsTerminator(f, n) THEN <<>>
                   ELSE Among(nodes, {m \in ToSet(nodes) : ~IsTerminator(f, m) /\ n \in Operands(f, m)}),
                   OrderDependents(f, s, n))
    BY DEF TraceSuccessors, nodes, s
  <2> QED BY <1>1, <2>4, <2>5, <2>6, <2>7, <2>8
<1> QED BY <1>9, <1>10

-----------------------------------------------------------------------------
(* A function defined by recursion on arguments of lower rank exists.    *)
OfLowerRank(X, E, rank, G) ==
    \A x \in X : \A f, g \in E :
        (\A y \in X : rank[y] < rank[x] => f[y] = g[y]) => G[<<x, f>>] = G[<<x, g>>]

HasFixpoint(X, E, G) == \E f \in E : \A x \in X : f[x] = G[<<x, f>>]

AreFunctions(E, X, D) == E = [X -> D]

LEMMA RankedRecursionExists ==
    ASSUME NEW X, NEW D, NEW d \in D, NEW R \in Nat, NEW rank \in [X -> 0..R],
           NEW E, AreFunctions(E, X, D), NEW G \in [X \X E -> D],
           OfLowerRank(X, E, rank, G)
    PROVE  HasFixpoint(X, E, G)
<1> USE DEF AreFunctions
<1> DEFINE F == [f \in E |-> [x \in X |-> G[<<x, f>>]]]
           M == R + 1
<1>1. F \in [E -> E] /\ [x \in X |-> d] \in E /\ M \in Nat
  OBVIOUS
<1>2. \A f \in E, x \in X : F[f][x] = G[<<x, f>>]
  OBVIOUS
<1> HIDE DEF F, M
<1>3. PICK r \in [0..M -> E] : r[0] = [x \in X |-> d] /\ \A k \in 1..M : r[k] = F[r[k-1]]
  <2>1. IsIterated(M, E, F, [x \in X |-> d])
    BY <1>1, IterationExists
  <2> QED BY <2>1 DEF IsIterated
<1>4. \A k \in 1..M : k \in 0..M /\ k - 1 \in 0..M
  BY <1>1
<1> DEFINE T == {k \in 0..R : \A x \in X : rank[x] < k => r[k+1][x] = r[k][x]}
<1>5. \A k \in 0..R : k \in T
  <2>1. 0 \in T
    OBVIOUS
  <2>2. ASSUME NEW k \in 1..R, k - 1 \in T PROVE k \in T
    <3>1. /\ k \in 1..M /\ k + 1 \in 1..M /\ (k + 1) - 1 = k /\ (k - 1) + 1 = k
          /\ k \in 0..M /\ k - 1 \in 0..M /\ k \in 0..R
      BY DEF M
    <3>2. ASSUME NEW x \in X, rank[x] < k PROVE r[k+1][x] = r[k][x]
      <4>1. r[k] \in E /\ r[k-1] \in E
        BY <1>3, <3>1
      <4>2. r[k+1] = F[r[k]] /\ r[k] = F[r[k-1]]
        BY <1>3, <3>1
      <4>3. r[k+1][x] = G[<<x, r[k]>>] /\ r[k][x] = G[<<x, r[k-1]>>]
        BY <1>2, <4>1, <4>2
      <4>4. ASSUME NEW y \in X, rank[y] < rank[x] PROVE r[k][y] = r[k-1][y]
        <5>1. rank[y] < k - 1
          BY <3>2, <4>4
        <5> QED BY <2>2, <3>1, <5>1
      <4> QED BY <4>1, <4>3, <4>4 DEF OfLowerRank
    <3> QED BY <3>1, <3>2
  <2> HIDE DEF T
  <2> QED BY <2>1, <2>2, UpTo
<1> DEFINE f == r[M]
<1>6. /\ M \in 1..M /\ M - 1 = R /\ M \in 0..M /\ R \in 0..M /\ R \in 0..R /\ R + 1 = M
  BY DEF M
<1>7. f \in E /\ r[R] \in E /\ f = F[r[R]]
  BY <1>3, <1>6
<1>8. ASSUME NEW x \in X PROVE f[x] = G[<<x, f>>]
  <2>1. f[x] = G[<<x, r[R]>>]
    BY <1>2, <1>7
  <2>2. ASSUME NEW y \in X, rank[y] < rank[x] PROVE r[R][y] = f[y]
    <3>1. rank[y] < R
      BY <2>2
    <3> QED BY <1>5, <1>6, <3>1
  <2> QED BY <1>7, <2>1, <2>2 DEF OfLowerRank
<1> QED BY <1>7, <1>8 DEF HasFixpoint
-----------------------------------------------------------------------------
(* topoSortDFS.  The nodes that count as visited while the loop over n's *)
(* successors runs, one step of it, and all of it.                       *)
Met(seen, n, acc) == seen \cup {n} \cup ToSet(acc)

LoopStep(succ, seen, n, P, acc, s) ==
    IF s \in Met(seen, n, acc) THEN acc ELSE acc \o P[Met(seen, n, acc)][s]

IsLoop(N, succ, seen, n, P, v) ==
    /\ v \in [0..Len(succ[n]) -> Seq(N)] /\ v[0] = <<>>
    /\ \A k \in 1..Len(succ[n]) : v[k] = LoopStep(succ, seen, n, P, v[k-1], succ[n][k])

(* What the calls from within the loop return: sequences of nodes.       *)
CallsReturn(N, seen, n, P) ==
    \A now \in SUBSET N : seen \subseteq now /\ n \in now =>
        \A s \in N \ now : P[now][s] \in Seq(N)

SameCalls(N, seen, n, P, Q) ==
    \A now \in SUBSET N : seen \subseteq now /\ n \in now =>
        \A s \in N \ now : P[now][s] = Q[now][s]

LEMMA LoopStepIs ==
    ASSUME NEW N, NEW succ, NEW seen \in SUBSET N, NEW n \in N, NEW P,
           CallsReturn(N, seen, n, P), NEW acc \in Seq(N), NEW s \in N
    PROVE  /\ Met(seen, n, acc) \in SUBSET N /\ seen \subseteq Met(seen, n, acc)
           /\ n \in Met(seen, n, acc)
           /\ LoopStep(succ, seen, n, P, acc, s) \in Seq(N)
<1>1. ToSet(acc) \subseteq N
  BY DEF ToSet
<1>2. Met(seen, n, acc) \in SUBSET N /\ seen \subseteq Met(seen, n, acc) /\ n \in Met(seen, n, acc)
  BY <1>1 DEF Met
<1>3. CASE s \notin Met(seen, n, acc)
  <2>1. P[Met(seen, n, acc)][s] \in Seq(N)
    BY <1>2, <1>3 DEF CallsReturn
  <2>2. acc \o P[Met(seen, n, acc)][s] \in Seq(N)
    BY <2>1
  <2> QED BY <1>2, <1>3, <2>2 DEF LoopStep
<1>4. CASE s \in Met(seen, n, acc)
  BY <1>2, <1>4 DEF LoopStep
<1> QED BY <1>3, <1>4

LEMMA LoopExists ==
    ASSUME NEW N, NEW succ \in [N -> Seq(N)], NEW seen \in SUBSET N, NEW n \in N, NEW P,
           CallsReturn(N, seen, n, P)
    PROVE  \E v : IsLoop(N, succ, seen, n, P, v)
<1> DEFINE M == Len(succ[n])
           D == Seq(N)
           G == [ka \in (1..M) \X D |-> LoopStep(succ, seen, n, P, ka[2], succ[n][ka[1]])]
<1>1. M \in Nat /\ (\A k \in 1..M : succ[n][k] \in N) /\ <<>> \in D
  OBVIOUS
<1>2. \A k \in 1..M, acc \in D : LoopStep(succ, seen, n, P, acc, succ[n][k]) \in D
  BY <1>1, LoopStepIs
<1>3. /\ G \in [(1..M) \X D -> D]
      /\ \A k \in 1..M, acc \in D : G[<<k, acc>>] = LoopStep(succ, seen, n, P, acc, succ[n][k])
  <2> HIDE DEF D
  <2> QED BY <1>2
<1> HIDE DEF G, D
<1>4. PICK v \in [0..M -> D] : v[0] = <<>> /\ \A k \in 1..M : v[k] = G[<<k, v[k-1]>>]
  <2>1. IsRecursive(M, D, G, <<>>)
    BY <1>1, <1>3, RecursionExists
  <2> QED BY <2>1 DEF IsRecursive
<1>5. \A k \in 1..M : v[k] = LoopStep(succ, seen, n, P, v[k-1], succ[n][k])
  <2> TAKE k \in 1..M
  <2>1. k - 1 \in 0..M
    BY <1>1
  <2>2. v[k-1] \in D
    BY <1>4, <2>1
  <2> QED BY <1>3, <1>4, <2>2
<1>6. IsLoop(N, succ, seen, n, P, v)
  BY <1>4, <1>5 DEF IsLoop, D
<1> QED BY <1>6

(* Calls that return the same make the same loop.                        *)
LEMMA LoopsAgree ==
    ASSUME NEW N, NEW succ \in [N -> Seq(N)], NEW seen \in SUBSET N, NEW n \in N, NEW P, NEW Q,
           SameCalls(N, seen, n, P, Q),
           NEW v, IsLoop(N, succ, seen, n, P, v), NEW w, IsLoop(N, succ, seen, n, Q, w)
    PROVE  v = w
<1> DEFINE M == Len(succ[n])
           T == {k \in 0..M : v[k] = w[k]}
<1>1. M \in Nat /\ (\A k \in 1..M : succ[n][k] \in N)
  OBVIOUS
<1>2. 0 \in T
  BY <1>1 DEF IsLoop
<1>3. ASSUME NEW k \in 1..M, k - 1 \in T PROVE k \in T
  <2>1. v[k-1] = w[k-1] /\ v[k-1] \in Seq(N)
    BY <1>1, <1>3 DEF IsLoop
  <2> DEFINE now == Met(seen, n, v[k-1])
             s == succ[n][k]
  <2>2. ToSet(v[k-1]) \subseteq N
    BY <2>1 DEF ToSet
  <2>3. now \in SUBSET N /\ seen \subseteq now /\ n \in now
    BY <2>2 DEF Met
  <2>4. v[k] = IF s \in now THEN v[k-1] ELSE v[k-1] \o P[now][s]
    BY DEF IsLoop, LoopStep
  <2>5. w[k] = IF s \in now THEN v[k-1] ELSE v[k-1] \o Q[now][s]
    BY <2>1 DEF IsLoop, LoopStep
  <2>6. s \notin now => P[now][s] = Q[now][s]
    BY <1>1, <2>3 DEF SameCalls
  <2>7. v[k] = w[k]
    BY <2>4, <2>5, <2>6
  <2> QED BY <2>7
<1>4. \A k \in 0..M : k \in T
  <2> HIDE DEF T
  <2> QED BY <1>1, <1>2, <1>3, UpTo
<1>5. v = [k \in 0..M |-> v[k]] /\ w = [k \in 0..M |-> w[k]]
  BY DEF IsLoop
<1> QED BY <1>4, <1>5

(* The recursive function that stands for the loop.                      *)
LoopOf(succ, seen, n, P) ==
    LET visited[k \in 0..Len(succ[n])] ==
            IF k = 0
            THEN <<>>
            ELSE LET acc == visited[k-1]
                     now == seen \cup {n} \cup ToSet(acc)
                 IN  IF succ[n][k] \in now
                     THEN acc ELSE acc \o P[now][succ[n][k]]
    IN  visited[Len(succ[n])]

(* What the loop has after the last successor.                           *)
AtEnd(succ, n, v) == v[Len(succ[n])]

LEMMA LoopIsLast ==
    ASSUME NEW N, NEW succ \in [N -> Seq(N)], NEW seen \in SUBSET N, NEW n \in N, NEW P,
           NEW v, IsLoop(N, succ, seen, n, P, v)
    PROVE  LoopOf(succ, seen, n, P) = AtEnd(succ, n, v)
<1> DEFINE M == Len(succ[n])
           now(acc) == seen \cup {n} \cup ToSet(acc)
           Eq(h) == h = [k \in 0..M |->
                            IF k = 0 THEN <<>>
                            ELSE IF succ[n][k] \in now(h[k-1])
                                 THEN h[k-1] ELSE h[k-1] \o P[now(h[k-1])][succ[n][k]]]
           g == CHOOSE h : Eq(h)
<1>1. M \in Nat
  OBVIOUS
<1>2. \A k \in 1..M : v[k] = IF succ[n][k] \in now(v[k-1])
                             THEN v[k-1] ELSE v[k-1] \o P[now(v[k-1])][succ[n][k]]
  BY DEF IsLoop, LoopStep, Met
<1>3. Eq(v)
  <2>1. v = [k \in 0..M |-> v[k]] /\ v[0] = <<>>
    BY DEF IsLoop
  <2>2. \A k \in 0..M : k = 0 \/ k \in 1..M
    BY <1>1
  <2> HIDE DEF now
  <2>3. \A k \in 0..M : v[k] = IF k = 0 THEN <<>>
                            ELSE IF succ[n][k] \in now(v[k-1])
                                 THEN v[k-1] ELSE v[k-1] \o P[now(v[k-1])][succ[n][k]]
    BY <1>2, <2>1, <2>2
  <2> QED BY <2>1, <2>3
<1>4. Eq(g)
  <2> HIDE DEF Eq
  <2> QED BY <1>3
<1>5. LoopOf(succ, seen, n, P) = g[M]
  BY DEF LoopOf
<1> HIDE DEF g, now
<1>6. \A k \in 0..M : g[k] = IF k = 0 THEN <<>>
                             ELSE IF succ[n][k] \in now(g[k-1])
                                  THEN g[k-1] ELSE g[k-1] \o P[now(g[k-1])][succ[n][k]]
  BY <1>4
<1> DEFINE T == {k \in 0..M : g[k] = v[k]}
<1>7. 0 \in T
  BY <1>1, <1>6 DEF IsLoop
<1>8. ASSUME NEW k \in 1..M, k - 1 \in T PROVE k \in T
  <2>1. k \in 0..M /\ k /= 0 /\ g[k-1] = v[k-1]
    BY <1>8
  <2>2. g[k] = v[k]
    BY <1>2, <1>6, <2>1
  <2> QED BY <2>1, <2>2
<1>9. \A k \in 0..M : k \in T
  <2> HIDE DEF T
  <2> QED BY <1>1, <1>7, <1>8, UpTo
<1>10. g[M] = v[M]
  BY <1>1, <1>9
<1> QED BY <1>5, <1>10 DEF AtEnd

LEMMA LoopReturns ==
    ASSUME NEW N, NEW succ \in [N -> Seq(N)], NEW seen \in SUBSET N, NEW n \in N, NEW P,
           CallsReturn(N, seen, n, P)
    PROVE  LoopOf(succ, seen, n, P) \in Seq(N)
<1>1. PICK v : IsLoop(N, succ, seen, n, P, v)
  BY LoopExists
<1>2. LoopOf(succ, seen, n, P) = AtEnd(succ, n, v)
  BY <1>1, LoopIsLast
<1>3. Len(succ[n]) \in 0..Len(succ[n])
  <2>1. Len(succ[n]) \in Nat
    OBVIOUS
  <2> QED BY <2>1
<1>4. v \in [0..Len(succ[n]) -> Seq(N)]
  BY <1>1 DEF IsLoop
<1> QED BY <1>2, <1>3, <1>4 DEF AtEnd

LEMMA LoopsReturnTheSame ==
    ASSUME NEW N, NEW succ \in [N -> Seq(N)], NEW seen \in SUBSET N, NEW n \in N, NEW P, NEW Q,
           CallsReturn(N, seen, n, P), SameCalls(N, seen, n, P, Q)
    PROVE  LoopOf(succ, seen, n, P) = LoopOf(succ, seen, n, Q)
<1>1. CallsReturn(N, seen, n, Q)
  BY DEF CallsReturn, SameCalls
<1>2. PICK v : IsLoop(N, succ, seen, n, P, v)
  BY LoopExists
<1>3. PICK w : IsLoop(N, succ, seen, n, Q, w)
  BY <1>1, LoopExists
<1>4. v = w
  BY <1>2, <1>3, LoopsAgree
<1>5. LoopOf(succ, seen, n, P) = AtEnd(succ, n, v)
  BY <1>2, LoopIsLast
<1>6. LoopOf(succ, seen, n, Q) = AtEnd(succ, n, w)
  BY <1>3, LoopIsLast
<1> QED BY <1>4, <1>5, <1>6

(* What topoSortDFS computes: for every set of visited nodes and every   *)
(* other node the result of the loop, and the node itself.               *)
IsSearch(N, succ, P) ==
    \A seen \in SUBSET N : \A n \in N \ seen :
        /\ P[seen][n] \in Seq(N)
        /\ P[seen][n] = Append(LoopOf(succ, seen, n, P), n)

(* The number of nodes a search has still to visit.                      *)
Left(N, seen) == Cardinality(N \ seen)

LEMMA LeftShrinks ==
    ASSUME NEW N, IsFiniteSet(N), NEW seen \in SUBSET N
    PROVE  /\ Left(N, seen) \in 0..Cardinality(N) /\ Cardinality(N) \in Nat
           /\ \A now \in SUBSET N : \A n \in N \ seen :
                 seen \subseteq now /\ n \in now => Left(N, now) < Left(N, seen)
<1>1. /\ IsFiniteSet(N \ seen) /\ Cardinality(N \ seen) <= Cardinality(N)
      /\ Cardinality(N \ seen) \in Nat /\ Cardinality(N) \in Nat
  <2>1. N \ seen \in SUBSET N
    OBVIOUS
  <2>2. IsFiniteSet(N \ seen) /\ Cardinality(N \ seen) <= Cardinality(N)
    BY <2>1, FS_Subset
  <2> QED BY <2>2, FS_CardinalityType
<1>2. ASSUME NEW now \in SUBSET N, NEW n \in N \ seen, seen \subseteq now, n \in now
      PROVE  Left(N, now) < Left(N, seen)
  <2>1. /\ N \ now \in SUBSET (N \ seen) /\ N \ now /= N \ seen
    BY <1>2
  <2>2. /\ IsFiniteSet(N \ now) /\ Cardinality(N \ now) <= Cardinality(N \ seen)
        /\ Cardinality(N \ now) /= Cardinality(N \ seen)
    BY <1>1, <2>1, FS_Subset
  <2>3. Cardinality(N \ now) \in Nat
    BY <2>2, FS_CardinalityType
  <2> QED BY <1>1, <2>2, <2>3 DEF Left
<1> QED BY <1>1, <1>2 DEF Left

Searches(N, succ, seen, P) == [n \in N \ seen |-> Append(LoopOf(succ, seen, n, P), n)]

(* Some function does: it is defined by recursion on what is left.       *)
LEMMA SearchExists ==
    ASSUME NEW N, IsFiniteSet(N), NEW succ \in [N -> Seq(N)]
    PROVE  \E P : P = [seen \in SUBSET N |-> Searches(N, succ, seen, P)]
<1> DEFINE X == SUBSET N
           D == [N -> Seq(N)]
           E == [X -> D]
           R == Cardinality(N)
           rank == [seen \in X |-> Left(N, seen)]
           g(x, P) == [n \in N |-> IF n \in x THEN <<>>
                                   ELSE Append(LoopOf(succ, x, n, P), n)]
           G == [xP \in X \X E |-> g(xP[1], xP[2])]
<1>1. R \in Nat /\ rank \in [X -> 0..R] /\ [n \in N |-> <<>>] \in D
  <2>1. R \in Nat /\ \A seen \in X : Left(N, seen) \in 0..R
    BY LeftShrinks
  <2>2. <<>> \in Seq(N)
    OBVIOUS
  <2> QED BY <2>1, <2>2
<1>2. ASSUME NEW P \in E, NEW seen \in X, NEW n \in N PROVE CallsReturn(N, seen, n, P)
  <2>1. \A now \in SUBSET N : \A s \in N : P[now][s] \in Seq(N)
    OBVIOUS
  <2> QED BY <2>1 DEF CallsReturn
<1>3. ASSUME NEW P \in E, NEW x \in X PROVE g(x, P) \in D
  <2>1. ASSUME NEW n \in N PROVE Append(LoopOf(succ, x, n, P), n) \in Seq(N)
    <3>1. CallsReturn(N, x, n, P)
      BY <1>2
    <3>2. LoopOf(succ, x, n, P) \in Seq(N)
      BY <3>1, LoopReturns
    <3> QED BY <3>2
  <2>2. <<>> \in Seq(N)
    OBVIOUS
  <2> QED BY <2>1, <2>2
<1>4. ASSUME NEW x \in X, NEW P \in E, NEW Q \in E,
             \A y \in X : rank[y] < rank[x] => P[y] = Q[y]
      PROVE  g(x, P) = g(x, Q)
  <2>1. ASSUME NEW n \in N, n \notin x PROVE LoopOf(succ, x, n, P) = LoopOf(succ, x, n, Q)
    <3>1. \A now \in SUBSET N : x \subseteq now /\ n \in now => P[now] = Q[now]
      <4>1. \A now \in SUBSET N : x \subseteq now /\ n \in now => Left(N, now) < Left(N, x)
        BY <2>1, LeftShrinks
      <4> QED BY <1>4, <4>1
    <3>2. CallsReturn(N, x, n, P)
      BY <1>2
    <3>3. SameCalls(N, x, n, P, Q)
      BY <3>1 DEF SameCalls
    <3> HIDE DEF D, E, rank, X
    <3>4. x \in SUBSET N
      BY DEF X
    <3> QED BY <3>2, <3>3, <3>4, LoopsReturnTheSame
  <2>2. \A n \in N : (IF n \in x THEN <<>> ELSE Append(LoopOf(succ, x, n, P), n))
                   = (IF n \in x THEN <<>> ELSE Append(LoopOf(succ, x, n, Q), n))
    BY <2>1
  <2> HIDE DEF X, D, E
  <2> QED BY <2>2
<1>5. \A x \in X, P \in E : g(x, P) \in D
  BY <1>3
<1>6. \A x \in X : \A P, Q \in E :
         (\A y \in X : rank[y] < rank[x] => P[y] = Q[y]) => g(x, P) = g(x, Q)
  BY <1>4
<1> HIDE DEF g, X, D, rank, R
<1>7. /\ G \in [X \X E -> D]
      /\ \A x \in X, P \in E : G[<<x, P>>] = g(x, P)
  BY <1>5
<1>0. AreFunctions(E, X, D)
  BY DEF AreFunctions
<1> HIDE DEF G, E
<1>8. OfLowerRank(X, E, rank, G)
  BY <1>6, <1>7 DEF OfLowerRank
<1>9. PICK Q \in E : \A x \in X : Q[x] = G[<<x, Q>>]
  <2>1. PICK d \in D : TRUE
    BY <1>1
  <2>2. R \in Nat /\ rank \in [X -> 0..R] /\ G \in [X \X E -> D]
    BY <1>1, <1>7
  <2>3. HasFixpoint(X, E, G)
    BY <1>0, <1>8, <2>1, <2>2, RankedRecursionExists
  <2> QED BY <2>3 DEF HasFixpoint
<1>10. Q \in E /\ \A x \in X : Q[x] = g(x, Q)
  BY <1>7, <1>9
<1> DEFINE P == [seen \in X |-> [n \in N \ seen |-> Q[seen][n]]]
<1>11. ASSUME NEW seen \in SUBSET N, NEW n \in N \ seen
      PROVE  P[seen][n] = Append(LoopOf(succ, seen, n, P), n)
  <2>1. n \in N /\ seen \in X
    BY DEF X
  <2>2. P[seen][n] = Append(LoopOf(succ, seen, n, Q), n)
    BY <1>10, <2>1 DEF g
  <2>3. SameCalls(N, seen, n, Q, P)
    BY DEF X, SameCalls
  <2>4. CallsReturn(N, seen, n, Q)
    BY <1>2, <1>10, <2>1
  <2> HIDE DEF P
  <2>5. LoopOf(succ, seen, n, Q) = LoopOf(succ, seen, n, P)
    BY <2>1, <2>3, <2>4, LoopsReturnTheSame
  <2> QED BY <2>2, <2>5
<1>12. P = [seen \in SUBSET N |-> Searches(N, succ, seen, P)]
  <2>1. P = [seen \in SUBSET N |-> [n \in N \ seen |-> P[seen][n]]]
    BY DEF X
  <2> HIDE DEF P
  <2>2. \A seen \in SUBSET N : [n \in N \ seen |-> P[seen][n]] = Searches(N, succ, seen, P)
    BY <1>11 DEF Searches
  <2> QED BY <2>1, <2>2
<1> QED BY <1>12

(* topoSortDFS is one.                                                   *)
LEMMA SearchIs ==
    ASSUME NEW N, IsFiniteSet(N), NEW succ \in [N -> Seq(N)]
    PROVE  IsSearch(N, succ, topoSortDFS(N, succ))
<1> DEFINE Eq(P) == P = [seen \in SUBSET N |-> Searches(N, succ, seen, P)]
           P == topoSortDFS(N, succ)
           R == Cardinality(N)
<1>1. \E Q : Eq(Q)
  BY SearchExists
<1>2. P = CHOOSE Q : Eq(Q)
  BY DEF topoSortDFS, LoopOf, Searches
<1>3. Eq(P)
  <2> HIDE DEF Eq, P
  <2> QED BY <1>1, <1>2
<1> HIDE DEF P
<1>4. \A seen \in SUBSET N : \A n \in N \ seen : P[seen][n] = Append(LoopOf(succ, seen, n, P), n)
  <2>1. \A seen \in SUBSET N : P[seen] = Searches(N, succ, seen, P)
    BY <1>3
  <2> QED BY <2>1 DEF Searches
<1> DEFINE Good(seen) == \A n \in N \ seen : P[seen][n] \in Seq(N)
           T == {k \in 0..R : \A seen \in SUBSET N : Left(N, seen) <= k => Good(seen)}
<1>5. R \in Nat /\ \A seen \in SUBSET N : Left(N, seen) \in 0..R
  BY LeftShrinks
<1>6. ASSUME NEW seen \in SUBSET N,
             \A now \in SUBSET N : Left(N, now) < Left(N, seen) => Good(now)
      PROVE  Good(seen)
  <2> SUFFICES ASSUME NEW n \in N \ seen PROVE P[seen][n] \in Seq(N)
    OBVIOUS
  <2>1. \A now \in SUBSET N : seen \subseteq now /\ n \in now => Left(N, now) < Left(N, seen)
    BY LeftShrinks
  <2>2. CallsReturn(N, seen, n, P)
    BY <1>6, <2>1 DEF CallsReturn
  <2>3. LoopOf(succ, seen, n, P) \in Seq(N)
    <3>1. n \in N
      OBVIOUS
    <3> QED BY <2>2, <3>1, LoopReturns
  <2>4. Append(LoopOf(succ, seen, n, P), n) \in Seq(N)
    BY <2>3
  <2> QED BY <1>4, <2>4
<1> HIDE DEF Good, R
<1>7. ASSUME NEW k \in 0..R, \A now \in SUBSET N : Left(N, now) < k => Good(now)
      PROVE  k \in T
  <2>1. ASSUME NEW seen \in SUBSET N, Left(N, seen) <= k PROVE Good(seen)
    <3>1. \A now \in SUBSET N : Left(N, now) < Left(N, seen) => Left(N, now) < k
      <4>1. Left(N, seen) \in Int /\ k \in Int /\ \A now \in SUBSET N : Left(N, now) \in Int
        BY <1>5
      <4> QED BY <2>1, <4>1
    <3> QED BY <1>6, <1>7, <3>1
  <2> QED BY <2>1
<1>8. 0 \in T
  <2>1. \A now \in SUBSET N : ~(Left(N, now) < 0)
    BY <1>5
  <2>2. 0 \in 0..R
    BY <1>5
  <2> QED BY <1>7, <2>1, <2>2
<1>9. ASSUME NEW k \in 1..R, k - 1 \in T PROVE k \in T
  <2>1. \A now \in SUBSET N : Left(N, now) < k => Left(N, now) <= k - 1
    <3>1. k \in Int /\ \A now \in SUBSET N : Left(N, now) \in Int
      BY <1>5
    <3> QED BY <3>1
  <2>2. \A now \in SUBSET N : Left(N, now) < k => Good(now)
    BY <1>9, <2>1
  <2>3. k \in 0..R
    BY <1>5
  <2> QED BY <1>7, <2>2, <2>3
<1>10. \A k \in 0..R : k \in T
  <2> HIDE DEF T
  <2> QED BY <1>5, <1>8, <1>9, UpTo
<1>11. \A seen \in SUBSET N : Good(seen)
  <2>1. R \in 0..R /\ R \in T
    BY <1>5, <1>10
  <2>2. \A seen \in SUBSET N : Left(N, seen) <= R
    BY <1>5
  <2> QED BY <2>1, <2>2
<1> QED BY <1>4, <1>11 DEF IsSearch, P, Good
-----------------------------------------------------------------------------
(* T is a set of nodes that no edge leaves.                              *)
NoEdgeLeaves(N, succ, T) == T \subseteq N /\ \A m \in T : ToSet(succ[m]) \subseteq T

(* A stretch of the result vector, for the nodes seen before it: each    *)
(* node once, none of those, and before a node outside T every node of T *)
(* that it has an edge to.                                               *)
Precedes(succ, T, seen, r) ==
    \A j \in 1..Len(r) : r[j] \notin T =>
        \A s \in ToSet(succ[r[j]]) \cap T : s \in seen \/ \E i \in 1..(j-1) : r[i] = s

Ordered(succ, T, seen, r) ==
    /\ IsInjective(r) /\ ToSet(r) \cap seen = {}
    /\ Precedes(succ, T, seen, r)

(* r may follow a: everything seen before a, and a itself, was seen      *)
(* before r, and nothing else that r can meet in T.                      *)
MayFollow(T, seen, a, now, r) ==
    /\ seen \cup ToSet(a) \subseteq now
    /\ ToSet(r) \subseteq T \/ now \cap T \subseteq seen \cup ToSet(a)

Joined(N, succ, T, seen, a, r) ==
    LET c == a \o r
    IN  c \in Seq(N) /\ ToSet(c) = ToSet(a) \cup ToSet(r) /\ Ordered(succ, T, seen, c)

LEMMA OrderedConcat ==
    ASSUME NEW N, NEW succ \in [N -> Seq(N)], NEW T, NEW seen, NEW now,
           NEW a \in Seq(N), NEW r \in Seq(N),
           Ordered(succ, T, seen, a), Ordered(succ, T, now, r),
           MayFollow(T, seen, a, now, r)
    PROVE  Joined(N, succ, T, seen, a, r)
<1> DEFINE c == a \o r
<1>1. /\ c \in Seq(N) /\ Len(c) = Len(a) + Len(r) /\ Len(a) \in Nat /\ Len(r) \in Nat
      /\ \A k \in 1..Len(a) : c[k] = a[k]
      /\ \A k \in 1..Len(r) : c[Len(a) + k] = r[k]
  BY ConcatIs
<1>2. ToSet(a) \cap ToSet(r) = {}
  BY DEF Ordered, MayFollow
<1>3. ToSet(c) = ToSet(a) \cup ToSet(r) /\ IsInjective(c)
  BY <1>2, ConcatElements DEF Ordered
<1>4. ToSet(c) \cap seen = {}
  BY <1>3 DEF Ordered, MayFollow
<1>0. DOMAIN a = 1..Len(a) /\ DOMAIN r = 1..Len(r)
  OBVIOUS
<1>5. ASSUME NEW x \in ToSet(a) PROVE \E i \in 1..Len(a) : a[i] = x
  BY <1>0 DEF ToSet
<1> HIDE DEF c
<1>6. Precedes(succ, T, seen, c)
  <2> SUFFICES ASSUME NEW j \in 1..Len(c), c[j] \notin T, NEW s \in ToSet(succ[c[j]]) \cap T,
                      s \notin seen
               PROVE  \E i \in 1..(j-1) : c[i] = s
    BY DEF Precedes
  <2>1. CASE j \in 1..Len(a)
    <3>1. c[j] = a[j]
      BY <1>1, <2>1
    <3>2. PICK i \in 1..(j-1) : a[i] = s
      BY <2>1, <3>1 DEF Ordered, Precedes
    <3>3. i \in 1..Len(a)
      BY <1>1, <2>1
    <3> QED BY <1>1, <3>2, <3>3
  <2>2. CASE j \notin 1..Len(a)
    <3>1. PICK k \in 1..Len(r) : j = Len(a) + k
      <4>1. j - Len(a) \in 1..Len(r) /\ j = Len(a) + (j - Len(a))
        BY <1>1, <2>2
      <4> QED BY <4>1
    <3>2. c[j] = r[k] /\ r[k] \in ToSet(r)
      <4>1. c[j] = r[k]
        BY <1>1, <3>1
      <4>2. r[k] \in ToSet(r)
        BY <1>0 DEF ToSet
      <4> QED BY <4>1, <4>2
    <3>3. s \in now \/ \E i \in 1..(k-1) : r[i] = s
      BY <3>2 DEF Ordered, Precedes
    <3>4. CASE s \in now
      <4>1. s \in ToSet(a)
        BY <3>2, <3>4 DEF MayFollow
      <4>2. PICK i \in 1..Len(a) : a[i] = s
        BY <1>5, <4>1
      <4>3. i \in 1..(j-1)
        BY <1>1, <3>1
      <4> QED BY <1>1, <4>2, <4>3
    <3>5. CASE \E i \in 1..(k-1) : r[i] = s
      <4>1. PICK i \in 1..(k-1) : r[i] = s
        BY <3>5
      <4>2. Len(a) + i \in 1..(j-1) /\ i \in 1..Len(r)
        BY <1>1, <3>1
      <4> QED BY <1>1, <4>1, <4>2
    <3> QED BY <3>3, <3>4, <3>5
  <2> QED BY <2>1, <2>2
<1> QED BY <1>1, <1>3, <1>4, <1>6 DEF Ordered, Joined, c

(* What a call of topoSortDFS returns.                                   *)
Returns(succ, T, seen, n, r) ==
    /\ n \in ToSet(r) /\ Ordered(succ, T, seen, r)
    /\ n \in T => ToSet(r) \subseteq T

CallsFind(N, succ, T, seen, n, P) ==
    \A now \in SUBSET N : seen \subseteq now /\ n \in now =>
        \A s \in N \ now : Returns(succ, T, now, s, P[now][s])

(* What the loop over n's successors has found, the k-th included.       *)
LoopFinds(succ, T, seen, n, k, acc) ==
    /\ Ordered(succ, T, seen, acc) /\ n \notin ToSet(acc)
    /\ n \in T => ToSet(acc) \subseteq T
    /\ \A i \in 1..k : succ[n][i] \in Met(seen, n, acc)

LEMMA LoopStepFinds ==
    ASSUME NEW N, NEW succ \in [N -> Seq(N)], NEW T, NoEdgeLeaves(N, succ, T),
           NEW seen \in SUBSET N, NEW n \in N, n \notin seen, NEW P, CallsReturn(N, seen, n, P),
           CallsFind(N, succ, T, seen, n, P),
           NEW k \in 1..Len(succ[n]), NEW h, h = k - 1, NEW acc \in Seq(N),
           LoopFinds(succ, T, seen, n, h, acc), NEW s, s = succ[n][k]
    PROVE  LoopFinds(succ, T, seen, n, k, LoopStep(succ, seen, n, P, acc, s))
<1> DEFINE now == Met(seen, n, acc)
<1>1. s \in N /\ s \in ToSet(succ[n]) /\ n \in N
  <2>1. succ[n] \in Seq(N)
    OBVIOUS
  <2> QED BY <2>1 DEF ToSet
<1>2. now \in SUBSET N /\ seen \subseteq now /\ n \in now
  BY <1>1, LoopStepIs
<1>3. \A i \in 1..k : i = k \/ i \in 1..(k-1)
  OBVIOUS
<1>4. CASE s \in now
  BY <1>3, <1>4 DEF LoopStep, LoopFinds
<1>5. CASE s \notin now
  <2> DEFINE r == P[now][s]
             c == acc \o r
  <2>1. r \in Seq(N) /\ Returns(succ, T, now, s, r)
    BY <1>1, <1>2, <1>5 DEF CallsReturn, CallsFind
  <2>2. n \in T => s \in T
    BY <1>1 DEF NoEdgeLeaves
  <2>3. n \in T => ToSet(r) \subseteq T
    BY <2>1, <2>2 DEF Returns
  <2>4. n \notin T => now \cap T \subseteq seen \cup ToSet(acc)
    BY DEF Met
  <2>5. seen \cup ToSet(acc) \subseteq now
    BY DEF Met
  <2> HIDE DEF r, now
  <2>6. ToSet(c) = ToSet(acc) \cup ToSet(r) /\ Ordered(succ, T, seen, c)
    <3>1. MayFollow(T, seen, acc, now, r)
      BY <2>3, <2>4, <2>5 DEF MayFollow
    <3>2. Ordered(succ, T, seen, acc) /\ Ordered(succ, T, now, r) /\ r \in Seq(N)
      BY <2>1 DEF Returns, LoopFinds
    <3>3. Joined(N, succ, T, seen, acc, r)
      BY <3>1, <3>2, OrderedConcat
    <3> QED BY <3>3 DEF Joined
  <2>7. n \notin ToSet(c)
    BY <1>2, <2>1, <2>6 DEF Returns, Ordered, LoopFinds
  <2>8. \A i \in 1..k : succ[n][i] \in Met(seen, n, c)
    <3>1. s \in Met(seen, n, c)
      BY <2>1, <2>6 DEF Returns, Met
    <3>2. \A i \in 1..(k-1) : succ[n][i] \in Met(seen, n, c)
      BY <2>6 DEF LoopFinds, Met
    <3> HIDE DEF c
    <3> QED BY <1>3, <3>1, <3>2
  <2>9. LoopStep(succ, seen, n, P, acc, s) = c
    BY <1>5 DEF LoopStep, now, r
  <2>10. n \in T => ToSet(c) \subseteq T
    BY <2>3, <2>6 DEF LoopFinds
  <2> HIDE DEF c
  <2> QED BY <2>6, <2>7, <2>8, <2>9, <2>10 DEF LoopFinds
<1> QED BY <1>4, <1>5

LEMMA CallFinds ==
    ASSUME NEW N, NEW succ \in [N -> Seq(N)], NEW T, NoEdgeLeaves(N, succ, T),
           NEW seen \in SUBSET N, NEW n \in N, n \notin seen, NEW P, CallsReturn(N, seen, n, P),
           CallsFind(N, succ, T, seen, n, P)
    PROVE  Returns(succ, T, seen, n, Append(LoopOf(succ, seen, n, P), n))
<1>1. n \in N
  OBVIOUS
<1>2. PICK v : IsLoop(N, succ, seen, n, P, v)
  BY <1>1, LoopExists
<1> DEFINE M == Len(succ[n])
           U == {k \in 0..M : LoopFinds(succ, T, seen, n, k, v[k])}
<1>3. M \in Nat /\ ToSet(succ[n]) = {succ[n][i] : i \in 1..M}
  <2>1. succ[n] \in Seq(N)
    BY <1>1
  <2> QED BY <2>1 DEF ToSet
<1>4. \A k \in 0..M : v[k] \in Seq(N)
  BY <1>2 DEF IsLoop
<1>5. 0 \in U
  <2>1. v[0] = <<>>
    BY <1>2 DEF IsLoop
  <2>2. LoopFinds(succ, T, seen, n, 0, <<>>)
    BY DEF LoopFinds, Ordered, IsInjective, ToSet, Precedes
  <2> QED BY <1>3, <2>1, <2>2
<1>6. ASSUME NEW k \in 1..M, k - 1 \in U PROVE k \in U
  <2>1. v[k] = LoopStep(succ, seen, n, P, v[k-1], succ[n][k])
    BY <1>2 DEF IsLoop
  <2>2. v[k-1] \in Seq(N) /\ LoopFinds(succ, T, seen, n, k - 1, v[k-1])
    BY <1>4, <1>6
  <2> DEFINE s == succ[n][k]
             h == k - 1
  <2>3. LoopFinds(succ, T, seen, n, k, LoopStep(succ, seen, n, P, v[h], s))
    <3>1. h = k - 1 /\ s = succ[n][k] /\ k \in 1..Len(succ[n]) /\ n \notin seen /\ n \in N
      OBVIOUS
    <3>2. v[h] \in Seq(N) /\ LoopFinds(succ, T, seen, n, h, v[h])
      BY <2>2
    <3> HIDE DEF h, s, M, U
    <3> QED BY <3>1, <3>2, LoopStepFinds
  <2> QED BY <1>3, <2>1, <2>3
<1>7. \A k \in 0..M : k \in U
  <2> HIDE DEF U, M
  <2> QED BY <1>3, <1>5, <1>6, UpTo
<1> DEFINE acc == v[M]
<1>8. acc \in Seq(N) /\ LoopFinds(succ, T, seen, n, M, acc)
  <2>1. M \in 0..M
    BY <1>3
  <2> QED BY <1>4, <1>7, <2>1
<1>9. LoopOf(succ, seen, n, P) = acc
  <2>1. LoopOf(succ, seen, n, P) = AtEnd(succ, n, v)
    BY <1>1, <1>2, LoopIsLast
  <2> QED BY <2>1 DEF AtEnd
<1> HIDE DEF acc
<1> DEFINE now == seen \cup ToSet(acc)
           r == <<n>>
<1>10. Append(acc, n) = acc \o r /\ r \in Seq(N) /\ ToSet(r) = {n} /\ Len(r) = 1 /\ r[1] = n
  BY <1>1, <1>8 DEF ToSet
<1>11. Ordered(succ, T, now, r)
  <2>1. IsInjective(r) /\ ToSet(r) \cap now = {}
    BY <1>8, <1>10 DEF LoopFinds, IsInjective
  <2>2. ASSUME n \notin T, NEW s \in ToSet(succ[n]) \cap T PROVE s \in now
    <3>1. PICK i \in 1..M : s = succ[n][i]
      BY <1>3
    <3> QED BY <1>8, <2>2, <3>1 DEF LoopFinds, Met
  <2> HIDE DEF r
  <2>3. Precedes(succ, T, now, r)
    BY <1>10, <2>2 DEF Precedes
  <2> QED BY <2>1, <2>3 DEF Ordered
<1> HIDE DEF r
<1> DEFINE c == acc \o r
<1>12. ToSet(c) = ToSet(acc) \cup ToSet(r) /\ Ordered(succ, T, seen, c)
  <2>1. Ordered(succ, T, seen, acc) /\ acc \in Seq(N) /\ r \in Seq(N)
    BY <1>8, <1>10 DEF LoopFinds
  <2>2. MayFollow(T, seen, acc, now, r)
    BY DEF MayFollow
  <2> HIDE DEF now
  <2>3. Joined(N, succ, T, seen, acc, r)
    BY <1>11, <2>1, <2>2, OrderedConcat
  <2> QED BY <2>3 DEF Joined
<1>13. n \in T => ToSet(c) \subseteq T
  BY <1>8, <1>10, <1>12 DEF LoopFinds
<1> QED BY <1>9, <1>10, <1>12, <1>13 DEF Returns

LEMMA SearchReturns ==
    ASSUME NEW N, IsFiniteSet(N), NEW succ \in [N -> Seq(N)], NEW T, NoEdgeLeaves(N, succ, T),
           NEW P, IsSearch(N, succ, P), NEW seen \in SUBSET N, NEW n \in N \ seen
    PROVE  Returns(succ, T, seen, n, P[seen][n])
<1> DEFINE R == Cardinality(N)
           Good(x) == \A m \in N \ x : Returns(succ, T, x, m, P[x][m])
           U == {k \in 0..R : \A x \in SUBSET N : Left(N, x) <= k => Good(x)}
<1>1. R \in Nat /\ \A x \in SUBSET N : Left(N, x) \in 0..R
  BY LeftShrinks
<1>2. ASSUME NEW x \in SUBSET N, \A now \in SUBSET N : Left(N, now) < Left(N, x) => Good(now)
      PROVE  Good(x)
  <2> SUFFICES ASSUME NEW m \in N \ x PROVE Returns(succ, T, x, m, P[x][m])
    OBVIOUS
  <2>1. \A now \in SUBSET N : x \subseteq now /\ m \in now => Left(N, now) < Left(N, x)
    BY LeftShrinks
  <2>2. CallsFind(N, succ, T, x, m, P)
    BY <1>2, <2>1 DEF CallsFind
  <2>3. CallsReturn(N, x, m, P)
    BY DEF IsSearch, CallsReturn
  <2>4. P[x][m] = Append(LoopOf(succ, x, m, P), m)
    BY DEF IsSearch
  <2>5. m \in N /\ m \notin x
    OBVIOUS
  <2>6. Returns(succ, T, x, m, Append(LoopOf(succ, x, m, P), m))
    BY <2>2, <2>3, <2>5, CallFinds
  <2> QED BY <2>4, <2>6
<1> HIDE DEF Good, R
<1>3. ASSUME NEW k \in 0..R, \A now \in SUBSET N : Left(N, now) < k => Good(now)
      PROVE  k \in U
  <2>1. ASSUME NEW x \in SUBSET N, Left(N, x) <= k PROVE Good(x)
    <3>1. \A now \in SUBSET N : Left(N, now) < Left(N, x) => Left(N, now) < k
      <4>1. Left(N, x) \in Int /\ k \in Int /\ \A now \in SUBSET N : Left(N, now) \in Int
        BY <1>1
      <4> QED BY <2>1, <4>1
    <3> QED BY <1>2, <1>3, <3>1
  <2> QED BY <2>1
<1>4. 0 \in U
  <2>1. \A now \in SUBSET N : ~(Left(N, now) < 0)
    BY <1>1
  <2>2. 0 \in 0..R
    BY <1>1
  <2> QED BY <1>3, <2>1, <2>2
<1>5. ASSUME NEW k \in 1..R, k - 1 \in U PROVE k \in U
  <2>1. \A now \in SUBSET N : Left(N, now) < k => Left(N, now) <= k - 1
    <3>1. k \in Int /\ \A now \in SUBSET N : Left(N, now) \in Int
      BY <1>1
    <3> QED BY <3>1
  <2>2. \A now \in SUBSET N : Left(N, now) < k => Good(now)
    BY <1>5, <2>1
  <2>3. k \in 0..R
    BY <1>1
  <2> QED BY <1>3, <2>2, <2>3
<1>6. \A k \in 0..R : k \in U
  <2> HIDE DEF U
  <2> QED BY <1>1, <1>4, <1>5, UpTo
<1>7. Good(seen)
  <2>1. R \in 0..R /\ R \in U
    BY <1>1, <1>6
  <2>2. Left(N, seen) <= R
    BY <1>1
  <2> QED BY <2>1, <2>2
<1> QED BY <1>7 DEF Good
-----------------------------------------------------------------------------
(* topologicalSort.  What it makes of the nodes met so far and the next. *)
SortStep(P, acc, n) == IF n \in ToSet(acc) THEN acc ELSE acc \o P[ToSet(acc)][n]

SortOf(nodes, P) ==
    LET sorted[k \in 0..Len(nodes)] ==
            IF k = 0
            THEN <<>>
            ELSE LET acc == sorted[k-1]
                 IN  IF nodes[k] \in ToSet(acc)
                     THEN acc ELSE acc \o P[ToSet(acc)][nodes[k]]
    IN  sorted[Len(nodes)]

IsSort(nodes, P, v) ==
    /\ v \in [0..Len(nodes) -> Seq(ToSet(nodes))] /\ v[0] = <<>>
    /\ \A k \in 1..Len(nodes) : v[k] = SortStep(P, v[k-1], nodes[k])

LEMMA SortExists ==
    ASSUME NEW I, NEW nodes \in Seq(I), NEW P,
           \A seen \in SUBSET ToSet(nodes) : \A n \in ToSet(nodes) \ seen : P[seen][n] \in Seq(ToSet(nodes))
    PROVE  \E v : IsSort(nodes, P, v)
<1> DEFINE M == Len(nodes)
           D == Seq(ToSet(nodes))
           G == [ka \in (1..M) \X D |-> SortStep(P, ka[2], nodes[ka[1]])]
<1>1. M \in Nat /\ (\A k \in 1..M : nodes[k] \in ToSet(nodes)) /\ <<>> \in D
  BY DEF ToSet
<1>2. ASSUME NEW acc \in D, NEW n \in ToSet(nodes) PROVE SortStep(P, acc, n) \in D
  <2>1. ToSet(acc) \in SUBSET ToSet(nodes)
    <3>1. DOMAIN acc = 1..Len(acc) /\ \A i \in 1..Len(acc) : acc[i] \in ToSet(nodes)
      OBVIOUS
    <3> QED BY <3>1 DEF ToSet
  <2>2. CASE n \in ToSet(acc)
    BY <2>2 DEF SortStep
  <2>3. CASE n \notin ToSet(acc)
    <3>1. P[ToSet(acc)][n] \in D
      BY <2>1, <2>3
    <3>2. acc \o P[ToSet(acc)][n] \in D
      BY <3>1
    <3> QED BY <2>3, <3>2 DEF SortStep
  <2> QED BY <2>2, <2>3
<1> HIDE DEF D
<1>3. /\ G \in [(1..M) \X D -> D]
      /\ \A k \in 1..M, acc \in D : G[<<k, acc>>] = SortStep(P, acc, nodes[k])
  BY <1>1, <1>2
<1> HIDE DEF G
<1>4. PICK v \in [0..M -> D] : v[0] = <<>> /\ \A k \in 1..M : v[k] = G[<<k, v[k-1]>>]
  <2>1. IsRecursive(M, D, G, <<>>)
    BY <1>1, <1>3, RecursionExists
  <2> QED BY <2>1 DEF IsRecursive
<1>5. \A k \in 1..M : v[k] = SortStep(P, v[k-1], nodes[k])
  <2> TAKE k \in 1..M
  <2>1. k - 1 \in 0..M
    BY <1>1
  <2>2. v[k-1] \in D
    BY <1>4, <2>1
  <2> QED BY <1>3, <1>4, <2>2
<1>6. IsSort(nodes, P, v)
  BY <1>4, <1>5 DEF IsSort, D
<1> QED BY <1>6

(* The last element of a function on 0..n.                               *)
AtLast(n, v) == v[n]

LEMMA SortIsLast ==
    ASSUME NEW I, NEW nodes \in Seq(I), NEW P, NEW v, IsSort(nodes, P, v)
    PROVE  SortOf(nodes, P) = AtLast(Len(nodes), v)
<1> DEFINE M == Len(nodes)
           step(acc, n) == IF n \in ToSet(acc) THEN acc ELSE acc \o P[ToSet(acc)][n]
           Eq(h) == h = [k \in 0..M |-> IF k = 0 THEN <<>> ELSE step(h[k-1], nodes[k])]
           g == CHOOSE h : Eq(h)
<1>1. M \in Nat
  OBVIOUS
<1>2. \A k \in 1..M : v[k] = step(v[k-1], nodes[k])
  BY DEF IsSort, SortStep
<1>3. Eq(v)
  <2>1. v = [k \in 0..M |-> v[k]] /\ v[0] = <<>>
    BY DEF IsSort
  <2>2. \A k \in 0..M : k = 0 \/ k \in 1..M
    BY <1>1
  <2> HIDE DEF step
  <2>3. \A k \in 0..M : v[k] = IF k = 0 THEN <<>> ELSE step(v[k-1], nodes[k])
    BY <1>2, <2>1, <2>2
  <2> QED BY <2>1, <2>3
<1>4. Eq(g)
  <2> HIDE DEF Eq
  <2> QED BY <1>3
<1>5. SortOf(nodes, P) = g[M]
  BY DEF SortOf
<1> HIDE DEF g, step
<1>6. \A k \in 0..M : g[k] = IF k = 0 THEN <<>> ELSE step(g[k-1], nodes[k])
  BY <1>4
<1> DEFINE U == {k \in 0..M : g[k] = v[k]}
<1>7. 0 \in U
  BY <1>1, <1>6 DEF IsSort
<1>8. ASSUME NEW k \in 1..M, k - 1 \in U PROVE k \in U
  <2>1. k \in 0..M /\ k /= 0 /\ g[k-1] = v[k-1]
    BY <1>8
  <2>2. g[k] = v[k]
    BY <1>2, <1>6, <2>1
  <2> QED BY <2>1, <2>2
<1>9. \A k \in 0..M : k \in U
  <2> HIDE DEF U
  <2> QED BY <1>1, <1>7, <1>8, UpTo
<1>10. g[M] = v[M]
  BY <1>1, <1>9
<1> QED BY <1>5, <1>10 DEF AtLast

(* The order computeCriticalPath takes the nodes in: each node once, and *)
(* before a node outside T every node of T that it has an edge to.       *)
IsSinksFirst(nodes, succ, T, order) ==
    /\ order \in Seq(ToSet(nodes)) /\ ToSet(order) = ToSet(nodes)
    /\ Ordered(succ, T, {}, order)

LEMMA PostOrderIs ==
    ASSUME NEW I, NEW nodes \in Seq(I), NEW succ \in [ToSet(nodes) -> Seq(ToSet(nodes))],
           NEW T, NoEdgeLeaves(ToSet(nodes), succ, T)
    PROVE  IsSinksFirst(nodes, succ, T, PostOrder(nodes, succ))
<1> DEFINE N == ToSet(nodes)
           P == topoSortDFS(N, succ)
           M == Len(nodes)
<1>1. IsFiniteSet(N) /\ M \in Nat /\ N = {nodes[k] : k \in 1..M}
  <2>1. DOMAIN nodes = 1..M /\ M \in Nat
    OBVIOUS
  <2>2. N = {nodes[k] : k \in 1..M}
    BY <2>1 DEF ToSet
  <2>3. IsFiniteSet(N)
    BY ListFinite
  <2> QED BY <2>1, <2>2, <2>3
<1>2. PostOrder(nodes, succ) = SortOf(nodes, P)
  BY DEF PostOrder, SortOf
<1> HIDE DEF N, P
<1>3. IsSearch(N, succ, P)
  BY <1>1, SearchIs DEF N, P
<1>4. PICK v : IsSort(nodes, P, v)
  <2>1. \A seen \in SUBSET N : \A n \in N \ seen : P[seen][n] \in Seq(N)
    BY <1>3 DEF IsSearch
  <2> QED BY <2>1, SortExists DEF N
<1>5. /\ v \in [0..M -> Seq(N)] /\ v[0] = <<>>
      /\ \A k \in 1..M : v[k] = SortStep(P, v[k-1], nodes[k])
  BY <1>4 DEF IsSort, N
<1> DEFINE U == {k \in 0..M : Ordered(succ, T, {}, v[k]) /\ \A i \in 1..k : nodes[i] \in ToSet(v[k])}
<1>6. 0 \in U
  <2>1. Ordered(succ, T, {}, <<>>)
    BY DEF Ordered, IsInjective, ToSet, Precedes
  <2> QED BY <1>1, <1>5, <2>1
<1>7. ASSUME NEW k \in 1..M, k - 1 \in U PROVE k \in U
  <2> DEFINE acc == v[k-1]
             seen == ToSet(acc)
             n == nodes[k]
  <2>1. /\ acc \in Seq(N) /\ Ordered(succ, T, {}, acc)
        /\ \A i \in 1..(k-1) : nodes[i] \in seen
        /\ n \in N /\ v[k] = SortStep(P, acc, n)
    BY <1>1, <1>5, <1>7
  <2>2. seen \in SUBSET N
    <3>1. DOMAIN acc = 1..Len(acc) /\ \A i \in 1..Len(acc) : acc[i] \in N
      BY <2>1
    <3> QED BY <3>1 DEF ToSet
  <2>3. \A i \in 1..k : i = k \/ i \in 1..(k-1)
    BY <1>1
  <2> HIDE DEF acc, n
  <2>4. CASE n \in seen
    <3>1. v[k] = acc
      BY <2>1, <2>4 DEF SortStep
    <3>2. \A i \in 1..k : nodes[i] \in ToSet(v[k])
      BY <2>1, <2>3, <2>4, <3>1 DEF n
    <3> QED BY <1>1, <2>1, <3>1, <3>2
  <2>5. CASE n \notin seen
    <3> DEFINE r == P[seen][n]
               c == acc \o r
    <3>1. v[k] = c
      BY <2>1, <2>5 DEF SortStep
    <3>2. r \in Seq(N) /\ Returns(succ, T, seen, n, r)
      <4>1. n \in N \ seen
        BY <2>1, <2>5
      <4>2. r \in Seq(N)
        BY <1>3, <2>2, <4>1 DEF IsSearch
      <4>3. succ \in [N -> Seq(N)] /\ NoEdgeLeaves(N, succ, T)
        BY DEF N
      <4> HIDE DEF seen
      <4>4. Returns(succ, T, seen, n, P[seen][n])
        BY <1>1, <1>3, <2>2, <4>1, <4>3, SearchReturns
      <4> QED BY <4>2, <4>4
    <3> HIDE DEF r
    <3>3. MayFollow(T, {}, acc, seen, r)
      BY DEF MayFollow
    <3>4. Joined(N, succ, T, {}, acc, r)
      <4>1. succ \in [N -> Seq(N)] /\ Ordered(succ, T, seen, r) /\ Ordered(succ, T, {}, acc)
            /\ acc \in Seq(N) /\ r \in Seq(N)
        BY <2>1, <3>2 DEF N, Returns
      <4> HIDE DEF seen
      <4> QED BY <3>3, <4>1, OrderedConcat
    <3>5. ToSet(c) = seen \cup ToSet(r) /\ Ordered(succ, T, {}, c) /\ n \in ToSet(r)
      BY <3>2, <3>4 DEF Joined, Returns
    <3> HIDE DEF c
    <3>6. \A i \in 1..k : nodes[i] \in ToSet(c)
      BY <2>1, <2>3, <3>5 DEF n
    <3> QED BY <1>1, <3>1, <3>5, <3>6
  <2> QED BY <2>4, <2>5
<1>8. \A k \in 0..M : k \in U
  <2> HIDE DEF U, M
  <2> QED BY <1>1, <1>6, <1>7, UpTo
<1>9. SortOf(nodes, P) = v[M]
  <2>1. SortOf(nodes, P) = AtLast(M, v)
    BY <1>4, SortIsLast
  <2> QED BY <2>1 DEF AtLast
<1>10. v[M] \in Seq(N) /\ Ordered(succ, T, {}, v[M]) /\ N \subseteq ToSet(v[M])
  <2>1. M \in 0..M
    BY <1>1
  <2> QED BY <1>1, <1>5, <1>8, <2>1
<1>11. ToSet(v[M]) \subseteq N
  <2> DEFINE w == v[M]
  <2>1. DOMAIN w = 1..Len(w) /\ \A i \in 1..Len(w) : w[i] \in N
    BY <1>10
  <2> HIDE DEF w
  <2>2. ToSet(w) \subseteq N
    BY <2>1 DEF ToSet
  <2> QED BY <2>2 DEF w
<1> QED BY <1>2, <1>9, <1>10, <1>11 DEF IsSinksFirst, N
-----------------------------------------------------------------------------
(* computeCriticalPath.  The greatest of the critical paths looked at.   *)
LEMMA Greatest ==
    ASSUME NEW N, NEW cp \in [N -> Nat], NEW q \in Seq(N)
    PROVE  /\ Max({0} \cup {cp[s] : s \in ToSet(q)}) \in Nat
           /\ \A t \in ToSet(q) : cp[t] <= Max({0} \cup {cp[s] : s \in ToSet(q)})
<1> DEFINE S == {0} \cup {cp[s] : s \in ToSet(q)}
           M == Len(q)
           U == {k \in 0..M : \E m \in S : \A i \in 1..k : cp[q[i]] <= m}
<1>1. M \in Nat /\ (\A i \in 1..M : q[i] \in N) /\ ToSet(q) = {q[i] : i \in 1..M}
  <2>1. DOMAIN q = 1..M
    OBVIOUS
  <2>2. M \in Nat /\ (\A i \in 1..M : q[i] \in N)
    OBVIOUS
  <2> QED BY <2>1, <2>2 DEF ToSet
<1>2. S \subseteq Nat /\ 0 \in S
  BY <1>1
<1>3. \A i \in 1..M : cp[q[i]] \in S
  BY <1>1
<1>4. \A s \in ToSet(q) : \E i \in 1..M : s = q[i]
  BY <1>1
<1> HIDE DEF S
<1>5. 0 \in U
  BY <1>1, <1>2
<1>6. ASSUME NEW k \in 1..M, k - 1 \in U PROVE k \in U
  <2>1. PICK m \in S : \A i \in 1..(k-1) : cp[q[i]] <= m
    BY <1>6
  <2>2. \A i \in 1..k : i = k \/ i \in 1..(k-1)
    BY <1>1
  <2>3. m \in Nat /\ cp[q[k]] \in Nat /\ cp[q[k]] \in S /\ \A i \in 1..(k-1) : cp[q[i]] \in Nat
    BY <1>1, <1>2, <1>3
  <2>4. CASE cp[q[k]] <= m
    <3>1. \A i \in 1..k : cp[q[i]] <= m
      BY <2>1, <2>2, <2>4
    <3> QED BY <1>1, <3>1
  <2>5. CASE ~(cp[q[k]] <= m)
    <3>1. \A i \in 1..k : cp[q[i]] <= cp[q[k]]
      BY <2>1, <2>2, <2>3, <2>5
    <3> QED BY <1>1, <2>3, <3>1
  <2> QED BY <2>4, <2>5
<1>7. \A k \in 0..M : k \in U
  <2> HIDE DEF U, M
  <2> QED BY <1>1, <1>5, <1>6, UpTo
<1>8. PICK m \in S : \A i \in 1..M : cp[q[i]] <= m
  <2>1. M \in U
    BY <1>1, <1>7
  <2> QED BY <2>1
<1>9. \A y \in S : m >= y
  <2>1. \A y \in S : y = 0 \/ \E i \in 1..M : y = cp[q[i]]
    BY <1>4 DEF S
  <2> QED BY <1>2, <1>8, <2>1
<1>10. Max(S) \in S /\ \A y \in S : Max(S) >= y
  BY <1>9 DEF Max
<1>11. Max(S) \in Nat /\ \A i \in 1..M : cp[q[i]] <= Max(S)
  BY <1>2, <1>3, <1>10
<1>12. \A s \in ToSet(q) : cp[s] <= Max(S)
  BY <1>4, <1>11
<1> QED BY <1>11, <1>12 DEF S

(* What a node's critical path becomes when the node is processed, and   *)
(* how the loop goes on.                                                 *)
PathFrom(fn, succ, cp, n) == getDelay(fn, n) + Max({0} \cup {cp[s] : s \in ToSet(succ[n])})

LEMMA PathFromIs ==
    ASSUME NEW fn, NEW N, NEW succ \in [N -> Seq(N)], NEW cp \in [N -> Nat], NEW n \in N
    PROVE  /\ PathFrom(fn, succ, cp, n) \in Nat
           /\ \A s \in ToSet(succ[n]) : cp[s] < PathFrom(fn, succ, cp, n)
<1> DEFINE m == Max({0} \cup {cp[s] : s \in ToSet(succ[n])})
           d == getDelay(fn, n)
<1>1. succ[n] \in Seq(N)
  OBVIOUS
<1>2. m \in Nat /\ \A s \in ToSet(succ[n]) : cp[s] <= m
  BY <1>1, Greatest
<1>3. d \in 1..10
  BY DEF getDelay
<1>4. \A s \in ToSet(succ[n]) : s \in N
  <2>1. \A i \in DOMAIN succ[n] : succ[n][i] \in N
    BY <1>1
  <2> QED BY <2>1 DEF ToSet
<1> HIDE DEF m, d
<1>5. d + m \in Nat /\ \A s \in ToSet(succ[n]) : cp[s] < d + m
  BY <1>2, <1>3, <1>4
<1> QED BY <1>5 DEF PathFrom, m, d

IsRelaxation(fn, N, succ, order, v) ==
    /\ v \in [0..Len(order) -> [N -> Nat]] /\ v[0] = [n \in N |-> 0]
    /\ \A k \in 1..Len(order) :
          v[k] = [v[k-1] EXCEPT ![order[k]] = PathFrom(fn, succ, v[k-1], order[k])]

LEMMA RelaxationExists ==
    ASSUME NEW fn, NEW N, NEW succ \in [N -> Seq(N)], NEW order \in Seq(N)
    PROVE  \E v : IsRelaxation(fn, N, succ, order, v)
<1> DEFINE M == Len(order)
           D == [N -> Nat]
           step(cp, n) == [cp EXCEPT ![n] = PathFrom(fn, succ, cp, n)]
           G == [kc \in (1..M) \X D |-> step(kc[2], order[kc[1]])]
<1>1. M \in Nat /\ (\A k \in 1..M : order[k] \in N) /\ [n \in N |-> 0] \in D
  OBVIOUS
<1>2. ASSUME NEW cp \in D, NEW n \in N PROVE step(cp, n) \in D
  <2>1. PathFrom(fn, succ, cp, n) \in Nat
    BY PathFromIs
  <2> QED BY <2>1
<1> HIDE DEF D, step
<1>3. /\ G \in [(1..M) \X D -> D]
      /\ \A k \in 1..M, cp \in D : G[<<k, cp>>] = step(cp, order[k])
  BY <1>1, <1>2
<1> HIDE DEF G
<1>4. PICK v \in [0..M -> D] : v[0] = [n \in N |-> 0] /\ \A k \in 1..M : v[k] = G[<<k, v[k-1]>>]
  <2>1. IsRecursive(M, D, G, [n \in N |-> 0])
    BY <1>1, <1>3, RecursionExists
  <2> QED BY <2>1 DEF IsRecursive
<1>5. \A k \in 1..M : v[k] = step(v[k-1], order[k])
  <2> TAKE k \in 1..M
  <2>1. k - 1 \in 0..M
    BY <1>1
  <2>2. v[k-1] \in D
    BY <1>4, <2>1
  <2> QED BY <1>3, <1>4, <2>2
<1>6. IsRelaxation(fn, N, succ, order, v)
  BY <1>4, <1>5 DEF IsRelaxation, D, step
<1> QED BY <1>6

LEMMA RelaxedIsLast ==
    ASSUME NEW fn, NEW nodes, NEW succ, NEW order, Len(order) \in Nat,
           NEW v, IsRelaxation(fn, ToSet(nodes), succ, order, v)
    PROVE  Relaxed(fn, nodes, succ, order) = AtLast(Len(order), v)
<1> DEFINE M == Len(order)
           zero == [n \in ToSet(nodes) |-> 0]
           step(cp, n) ==
               [cp EXCEPT ![n] = getDelay(fn, n) + Max({0} \cup {cp[s] : s \in ToSet(succ[n])})]
           Eq(h) == h = [k \in 0..M |-> IF k = 0 THEN zero ELSE step(h[k-1], order[k])]
           g == CHOOSE h : Eq(h)
<1>1. M \in Nat
  OBVIOUS
<1>2. \A k \in 1..M : v[k] = step(v[k-1], order[k])
  BY DEF IsRelaxation, PathFrom
<1>3. Eq(v)
  <2>1. v = [k \in 0..M |-> v[k]] /\ v[0] = zero
    BY DEF IsRelaxation
  <2>2. \A k \in 0..M : k = 0 \/ k \in 1..M
    BY <1>1
  <2> HIDE DEF step, zero
  <2>3. \A k \in 0..M : v[k] = IF k = 0 THEN zero ELSE step(v[k-1], order[k])
    BY <1>2, <2>1, <2>2
  <2> QED BY <2>1, <2>3
<1>4. Eq(g)
  <2> HIDE DEF Eq
  <2> QED BY <1>3
<1>5. Relaxed(fn, nodes, succ, order) = g[M]
  BY DEF Relaxed
<1>6. v[0] = zero
  BY DEF IsRelaxation
<1> HIDE DEF g, step, zero
<1>7. \A k \in 0..M : g[k] = IF k = 0 THEN zero ELSE step(g[k-1], order[k])
  BY <1>4
<1> DEFINE U == {k \in 0..M : g[k] = v[k]}
<1>8. 0 \in U
  BY <1>1, <1>6, <1>7
<1>9. ASSUME NEW k \in 1..M, k - 1 \in U PROVE k \in U
  <2>1. k \in 0..M /\ k /= 0 /\ g[k-1] = v[k-1]
    BY <1>9
  <2>2. g[k] = v[k]
    BY <1>2, <1>7, <2>1
  <2> QED BY <2>1, <2>2
<1>10. \A k \in 0..M : k \in U
  <2> HIDE DEF U
  <2> QED BY <1>1, <1>8, <1>9, UpTo
<1>11. g[M] = v[M]
  BY <1>1, <1>10
<1> QED BY <1>5, <1>11 DEF AtLast

(* A node's critical path does not change before and after the node is   *)
(* processed.                                                            *)
Keeps(order, v, i) == \A k \in i..Len(order) : v[k][order[i]] = v[i][order[i]]

LEMMA RelaxationKeeps ==
    ASSUME NEW fn, NEW N, NEW succ \in [N -> Seq(N)], NEW order \in Seq(N), IsInjective(order),
           NEW v, IsRelaxation(fn, N, succ, order, v), NEW i \in 1..Len(order)
    PROVE  Keeps(order, v, i)
<1> DEFINE M == Len(order)
           U == {k \in 0..M : i <= k => v[k][order[i]] = v[i][order[i]]}
<1>1. M \in Nat /\ i \in 1..M /\ DOMAIN order = 1..M /\ \A k \in 1..M : order[k] \in N
  OBVIOUS
<1>2. \A k \in 0..M : v[k] \in [N -> Nat]
  BY DEF IsRelaxation
<1>3. 0 \in U
  BY <1>1
<1>4. ASSUME NEW k \in 1..M, k - 1 \in U PROVE k \in U
  <2>1. CASE i <= k - 1
    <3>1. v[k-1][order[i]] = v[i][order[i]]
      BY <1>4, <2>1
    <3>2. order[k] /= order[i]
      <4>1. k /= i
        BY <1>1, <2>1
      <4> QED BY <1>1, <4>1 DEF IsInjective
    <3>3. v[k] = [v[k-1] EXCEPT ![order[k]] = PathFrom(fn, succ, v[k-1], order[k])]
      BY DEF IsRelaxation
    <3>4. v[k-1] \in [N -> Nat] /\ order[i] \in N
      <4>1. k - 1 \in 0..M
        BY <1>1
      <4> QED BY <1>1, <1>2, <4>1
    <3>5. v[k][order[i]] = v[k-1][order[i]]
      BY <3>2, <3>3, <3>4
    <3> QED BY <1>1, <3>1, <3>5
  <2>2. CASE ~(i <= k - 1)
    <3>1. i <= k => k = i
      BY <1>1, <2>2
    <3> QED BY <1>1, <3>1
  <2> QED BY <2>1, <2>2
<1>5. \A k \in 0..M : k \in U
  <2> HIDE DEF U, M
  <2> QED BY <1>1, <1>3, <1>4, UpTo
<1> QED BY <1>1, <1>5 DEF Keeps

(* Over an order with the sinks first the critical paths descend along   *)
(* every edge into T.                                                    *)
LEMMA RelaxedDescends ==
    ASSUME NEW fn, NEW nodes, NEW succ \in [ToSet(nodes) -> Seq(ToSet(nodes))], NEW T,
           NEW order, IsSinksFirst(nodes, succ, T, order)
    PROVE  /\ Relaxed(fn, nodes, succ, order) \in [ToSet(nodes) -> Nat]
           /\ \A n \in ToSet(nodes) \ T : \A s \in ToSet(succ[n]) \cap T :
                 Relaxed(fn, nodes, succ, order)[s] < Relaxed(fn, nodes, succ, order)[n]
<1> DEFINE N == ToSet(nodes)
           M == Len(order)
           cp == Relaxed(fn, nodes, succ, order)
<1>1. order \in Seq(N) /\ ToSet(order) = N /\ Ordered(succ, T, {}, order)
  BY DEF IsSinksFirst
<1> HIDE DEF N, cp
<1>2. succ \in [N -> Seq(N)]
  BY DEF N
<1>3. PICK v : IsRelaxation(fn, N, succ, order, v)
  BY <1>1, <1>2, RelaxationExists
<1>4. M \in Nat /\ DOMAIN order = 1..M /\ (\A k \in 1..M : order[k] \in N) /\ N = {order[k] : k \in 1..M}
  <2>1. M \in Nat /\ DOMAIN order = 1..M /\ \A k \in 1..M : order[k] \in N
    BY <1>1
  <2> QED BY <1>1, <2>1 DEF ToSet
<1>5. cp = v[M]
  <2>1. cp = AtLast(M, v)
    <3>1. IsRelaxation(fn, ToSet(nodes), succ, order, v) /\ Len(order) \in Nat
      BY <1>3, <1>4 DEF N
    <3> QED BY <3>1, RelaxedIsLast DEF cp
  <2> QED BY <2>1 DEF AtLast
<1>6. \A k \in 0..M : v[k] \in [N -> Nat]
  BY <1>3 DEF IsRelaxation
<1>7. cp \in [N -> Nat]
  <2>1. M \in 0..M
    BY <1>4
  <2> HIDE DEF M
  <2> QED BY <1>5, <1>6, <2>1
<1>8. ASSUME NEW n \in N, n \notin T, NEW s \in ToSet(succ[n]) \cap T PROVE cp[s] < cp[n]
  <2>1. PICK k \in 1..M : order[k] = n
    BY <1>4
  <2>2. PICK i \in 1..(k-1) : order[i] = s
    BY <1>1, <1>8, <2>1 DEF Ordered, Precedes
  <2>3. /\ i \in 1..M /\ k - 1 \in i..M /\ k - 1 \in 0..M /\ M \in i..M /\ M \in k..M
    <3>1. M \in Nat
      BY <1>4
    <3> HIDE DEF M
    <3> QED BY <3>1
  <2>4. v[k-1][s] = v[i][s] /\ v[M][s] = v[i][s] /\ v[M][n] = v[k][n]
    <3>1. IsInjective(order)
      BY <1>1 DEF Ordered
    <3>2. \A j \in 1..M : Keeps(order, v, j)
      BY <1>1, <1>2, <1>3, <3>1, RelaxationKeeps
    <3>3. Keeps(order, v, i) /\ Keeps(order, v, k)
      BY <2>3, <3>2
    <3>4. /\ \A h \in i..M : v[h][order[i]] = v[i][order[i]]
          /\ \A h \in k..M : v[h][order[k]] = v[k][order[k]]
      BY <3>3 DEF Keeps
    <3> QED BY <2>1, <2>2, <2>3, <3>4
  <2>5. v[k-1] \in [N -> Nat]
    BY <1>6, <2>3
  <2>6. v[k] = [v[k-1] EXCEPT ![n] = PathFrom(fn, succ, v[k-1], n)]
    BY <1>3, <2>1 DEF IsRelaxation
  <2>7. v[k][n] = PathFrom(fn, succ, v[k-1], n)
    BY <2>5, <2>6
  <2>8. v[k-1][s] < PathFrom(fn, succ, v[k-1], n)
    BY <1>2, <2>5, PathFromIs
  <2> QED BY <1>5, <2>4, <2>7, <2>8
<1> QED BY <1>7, <1>8 DEF N, cp

(* computeCriticalPath (critical.hpp:58-96), for any graph: wherever an  *)
(* edge enters a set of nodes that no edge leaves, the critical path of  *)
(* the successor is the smaller one.                                     *)
THEOREM CriticalPathDescends ==
    ASSUME NEW fn, NEW I, NEW nodes \in Seq(I),
           NEW succ \in [ToSet(nodes) -> Seq(ToSet(nodes))],
           NEW T, NoEdgeLeaves(ToSet(nodes), succ, T)
    PROVE  /\ CriticalPath(fn, nodes, succ) \in [ToSet(nodes) -> Nat]
           /\ \A n \in ToSet(nodes) \ T : \A s \in ToSet(succ[n]) \cap T :
                 CriticalPath(fn, nodes, succ)[s] < CriticalPath(fn, nodes, succ)[n]
<1>1. IsSinksFirst(nodes, succ, T, PostOrder(nodes, succ))
  BY PostOrderIs
<1> QED BY <1>1, RelaxedDescends DEF CriticalPath

-----------------------------------------------------------------------------
(* BreadthFirst.  One step of entering a vector's blocks into the list.  *)
EnterStep(now, b) == IF b \in ToSet(now) THEN now ELSE Append(now, b)

IsEntering(B, order, vector, v) ==
    /\ v \in [0..Len(vector) -> Seq(B)] /\ v[0] = order
    /\ \A k \in 1..Len(vector) : v[k] = EnterStep(v[k-1], vector[k])

LEMMA EnteringExists ==
    ASSUME NEW B, NEW order \in Seq(B), NEW vector \in Seq(B)
    PROVE  \E v : IsEntering(B, order, vector, v)
<1> DEFINE M == Len(vector)
           D == Seq(B)
           G == [kn \in (1..M) \X D |-> EnterStep(kn[2], vector[kn[1]])]
<1>1. M \in Nat /\ (\A k \in 1..M : vector[k] \in B) /\ order \in D
  OBVIOUS
<1>2. ASSUME NEW now \in D, NEW b \in B PROVE EnterStep(now, b) \in D
  <2>1. Append(now, b) \in D
    OBVIOUS
  <2> QED BY <2>1 DEF EnterStep
<1> HIDE DEF D
<1>3. /\ G \in [(1..M) \X D -> D]
      /\ \A k \in 1..M, now \in D : G[<<k, now>>] = EnterStep(now, vector[k])
  BY <1>1, <1>2
<1> HIDE DEF G
<1>4. PICK v \in [0..M -> D] : v[0] = order /\ \A k \in 1..M : v[k] = G[<<k, v[k-1]>>]
  <2>1. IsRecursive(M, D, G, order)
    BY <1>1, <1>3, RecursionExists
  <2> QED BY <2>1 DEF IsRecursive
<1>5. \A k \in 1..M : v[k] = EnterStep(v[k-1], vector[k])
  <2> TAKE k \in 1..M
  <2>1. k - 1 \in 0..M
    BY <1>1
  <2>2. v[k-1] \in D
    BY <1>4, <2>1
  <2> QED BY <1>3, <1>4, <2>2
<1>6. IsEntering(B, order, vector, v)
  BY <1>4, <1>5 DEF IsEntering, D
<1> QED BY <1>6

LEMMA EnteredIsLast ==
    ASSUME NEW B, NEW order, NEW vector \in Seq(B), NEW v, IsEntering(B, order, vector, v)
    PROVE  Entered(order, vector) = AtLast(Len(vector), v)
<1> DEFINE M == Len(vector)
           step(now, b) == IF b \in ToSet(now) THEN now ELSE Append(now, b)
           Eq(h) == h = [k \in 0..M |-> IF k = 0 THEN order ELSE step(h[k-1], vector[k])]
           g == CHOOSE h : Eq(h)
<1>1. M \in Nat
  OBVIOUS
<1>2. \A k \in 1..M : v[k] = step(v[k-1], vector[k])
  BY DEF IsEntering, EnterStep
<1>3. Eq(v)
  <2>1. v = [k \in 0..M |-> v[k]] /\ v[0] = order
    BY DEF IsEntering
  <2>2. \A k \in 0..M : k = 0 \/ k \in 1..M
    BY <1>1
  <2> HIDE DEF step
  <2>3. \A k \in 0..M : v[k] = IF k = 0 THEN order ELSE step(v[k-1], vector[k])
    BY <1>2, <2>1, <2>2
  <2> QED BY <2>1, <2>3
<1>4. Eq(g)
  <2> HIDE DEF Eq
  <2> QED BY <1>3
<1>5. Entered(order, vector) = g[M]
  BY DEF Entered
<1> HIDE DEF g, step
<1>6. \A k \in 0..M : g[k] = IF k = 0 THEN order ELSE step(g[k-1], vector[k])
  BY <1>4
<1> DEFINE U == {k \in 0..M : g[k] = v[k]}
<1>7. 0 \in U
  BY <1>1, <1>6 DEF IsEntering
<1>8. ASSUME NEW k \in 1..M, k - 1 \in U PROVE k \in U
  <2>1. k \in 0..M /\ k /= 0 /\ g[k-1] = v[k-1]
    BY <1>8
  <2>2. g[k] = v[k]
    BY <1>2, <1>6, <2>1
  <2> QED BY <2>1, <2>2
<1>9. \A k \in 0..M : k \in U
  <2> HIDE DEF U
  <2> QED BY <1>1, <1>7, <1>8, UpTo
<1>10. g[M] = v[M]
  BY <1>1, <1>9
<1> QED BY <1>5, <1>10 DEF AtLast

(* A list that another one continues, with elements of `new`.            *)
Continues(B, order, new, longer) ==
    /\ longer \in Seq(B) /\ IsInjective(longer)
    /\ Len(order) <= Len(longer) /\ \A k \in 1..Len(order) : longer[k] = order[k]
    /\ \A k \in (Len(order) + 1)..Len(longer) : longer[k] \in new

LEMMA EnterContinues ==
    ASSUME NEW B, NEW order \in Seq(B), NEW new, NEW now, Continues(B, order, new, now),
           NEW b \in B, b \in new
    PROVE  /\ Continues(B, order, new, EnterStep(now, b))
           /\ ToSet(EnterStep(now, b)) = ToSet(now) \cup {b}
<1>1. now \in Seq(B) /\ IsInjective(now) /\ Len(order) \in Nat /\ Len(now) \in Nat
      /\ Len(order) <= Len(now)
  BY DEF Continues
<1>2. CASE b \in ToSet(now)
  BY <1>2 DEF EnterStep
<1>3. CASE b \notin ToSet(now)
  <2> DEFINE t == <<b>>
             c == now \o t
  <2>1. Append(now, b) = c /\ t \in Seq(B) /\ Len(t) = 1 /\ t[1] = b /\ ToSet(t) = {b} /\ IsInjective(t)
    BY <1>1 DEF ToSet, IsInjective
  <2> HIDE DEF t
  <2>2. /\ c \in Seq(B) /\ Len(c) = Len(now) + 1
        /\ \A k \in 1..Len(now) : c[k] = now[k]
        /\ c[Len(now) + 1] = b
    <3>1. 1 \in 1..Len(t)
      BY <2>1
    <3> QED BY <1>1, <2>1, <3>1, ConcatIs
  <2>3. ToSet(c) = ToSet(now) \cup {b} /\ IsInjective(c)
    BY <1>1, <1>3, <2>1, ConcatElements
  <2>4. EnterStep(now, b) = c
    BY <1>3, <2>1 DEF EnterStep
  <2> HIDE DEF c
  <2>5. \A k \in 1..Len(order) : c[k] = order[k]
    <3>1. \A k \in 1..Len(order) : k \in 1..Len(now) /\ now[k] = order[k]
      BY <1>1 DEF Continues
    <3> QED BY <2>2, <3>1
  <2>6. \A k \in (Len(order) + 1)..Len(c) : c[k] \in new
    <3>1. \A k \in (Len(order) + 1)..Len(c) :
             k = Len(now) + 1 \/ (k \in (Len(order) + 1)..Len(now) /\ k \in 1..Len(now))
      BY <1>1, <2>2
    <3>2. \A k \in (Len(order) + 1)..Len(now) : now[k] \in new
      BY DEF Continues
    <3> QED BY <2>2, <3>1, <3>2
  <2> QED BY <1>1, <2>2, <2>3, <2>4, <2>5, <2>6 DEF Continues
<1> QED BY <1>2, <1>3

LEMMA EnteredIs ==
    ASSUME NEW B, NEW order \in Seq(B), IsInjective(order), NEW vector \in Seq(B)
    PROVE  /\ Continues(B, order, ToSet(vector), Entered(order, vector))
           /\ ToSet(Entered(order, vector)) = ToSet(order) \cup ToSet(vector)
<1>1. PICK v : IsEntering(B, order, vector, v)
  BY EnteringExists
<1> DEFINE M == Len(vector)
           new == ToSet(vector)
           U == {k \in 0..M : /\ Continues(B, order, new, v[k])
                              /\ ToSet(v[k]) = ToSet(order) \cup {vector[i] : i \in 1..k}}
<1>2. /\ M \in Nat /\ new = {vector[i] : i \in 1..M} /\ (\A k \in 1..M : vector[k] \in B)
      /\ \A k \in 1..M : vector[k] \in new
  <2>1. DOMAIN vector = 1..M /\ M \in Nat /\ \A k \in 1..M : vector[k] \in B
    OBVIOUS
  <2> QED BY <2>1 DEF ToSet
<1>3. v[0] = order /\ \A k \in 1..M : v[k] = EnterStep(v[k-1], vector[k])
  BY <1>1 DEF IsEntering
<1> HIDE DEF M, new
<1>4. 0 \in U
  <2>1. Len(order) \in Nat
    OBVIOUS
  <2>2. Continues(B, order, new, order)
    BY <2>1 DEF Continues
  <2> QED BY <1>2, <1>3, <2>2
<1>5. ASSUME NEW k \in 1..M, k - 1 \in U PROVE k \in U
  <2> DEFINE now == v[k-1]
             b == vector[k]
             done(j) == {vector[i] : i \in 1..j}
  <2>1. Continues(B, order, new, now) /\ ToSet(now) = ToSet(order) \cup done(k - 1)
    BY <1>5
  <2>2. v[k] = EnterStep(now, b) /\ b \in B /\ b \in new
    BY <1>2, <1>3
  <2>3. done(k) = done(k - 1) \cup {b}
    <3>1. \A i \in 1..k : i = k \/ i \in 1..(k-1)
      BY <1>2
    <3>2. \A i \in 1..(k-1) : i \in 1..k
      BY <1>2
    <3>3. k \in 1..k
      BY <1>2
    <3> QED BY <3>1, <3>2, <3>3
  <2> HIDE DEF now, b, done
  <2>4. Continues(B, order, new, v[k]) /\ ToSet(v[k]) = ToSet(now) \cup {b}
    BY <2>1, <2>2, EnterContinues
  <2>5. ToSet(v[k]) = ToSet(order) \cup done(k)
    BY <2>1, <2>3, <2>4
  <2> QED BY <1>2, <2>4, <2>5 DEF done
<1>6. \A k \in 0..M : k \in U
  <2> HIDE DEF U
  <2> QED BY <1>2, <1>4, <1>5, UpTo
<1>7. Entered(order, vector) = v[M]
  <2>1. Entered(order, vector) = AtLast(M, v)
    BY <1>1, EnteredIsLast DEF M
  <2> QED BY <2>1 DEF AtLast
<1>8. M \in U
  <2>1. M \in 0..M
    BY <1>2
  <2> HIDE DEF U
  <2> QED BY <1>6, <2>1
<1> QED BY <1>2, <1>7, <1>8 DEF new

(* One step of the search: the k-th block of the list is visited.        *)
SearchStep(f, order, k) == IF k <= Len(order) THEN Entered(order, f.succ[order[k]]) ELSE order

(* The list after k blocks have been visited: it begins with the entry,  *)
(* each other block comes after one that leads to it, and the successors *)
(* of the first k are in it.                                             *)
IsSearchOrder(f, k, order) ==
    /\ order \in Seq(Blocks(f)) /\ IsInjective(order)
    /\ Len(order) \in Nat \ {0} /\ order[1] = f.entry
    /\ \A j \in 2..Len(order) : \E i \in 1..(j-1) : order[j] \in Succs(f, order[i])
    /\ \A i \in 1..k : i <= Len(order) => Succs(f, order[i]) \subseteq ToSet(order)

LEMMA SearchContinues ==
    ASSUME NEW f, IsFlowGraph(f), NEW k \in Nat \ {0}, NEW h, h = k - 1,
           NEW order, IsSearchOrder(f, h, order)
    PROVE  IsSearchOrder(f, k, SearchStep(f, order, k))
<1> DEFINE B == Blocks(f)
<1>1. order \in Seq(B) /\ IsInjective(order) /\ Len(order) \in Nat \ {0} /\ DOMAIN order = 1..Len(order)
  BY DEF IsSearchOrder
<1>2. \A i \in 1..k : i = k \/ i \in 1..(k-1)
  OBVIOUS
<1>3. CASE ~(k <= Len(order))
  <2>1. SearchStep(f, order, k) = order
    BY <1>3 DEF SearchStep
  <2>2. \A i \in 1..k : i <= Len(order) => Succs(f, order[i]) \subseteq ToSet(order)
    BY <1>2, <1>3 DEF IsSearchOrder
  <2> QED BY <2>1, <2>2 DEF IsSearchOrder
<1>4. CASE k <= Len(order)
  <2> DEFINE vector == f.succ[order[k]]
             longer == Entered(order, vector)
  <2>1. k \in 1..Len(order) /\ order[k] \in B
    BY <1>1, <1>4
  <2>2. vector \in Seq(B) /\ ToSet(vector) = Succs(f, order[k])
    BY <2>1 DEF IsFlowGraph, Succs
  <2> HIDE DEF vector
  <2>3. Continues(B, order, ToSet(vector), longer) /\ ToSet(longer) = ToSet(order) \cup ToSet(vector)
    BY <1>1, <2>2, EnteredIs
  <2>4. SearchStep(f, order, k) = longer
    BY <1>4 DEF SearchStep, vector
  <2> HIDE DEF longer
  <2>5. /\ longer \in Seq(B) /\ IsInjective(longer) /\ Len(longer) \in Nat
        /\ Len(order) <= Len(longer)
        /\ \A i \in 1..Len(order) : longer[i] = order[i]
        /\ \A i \in (Len(order) + 1)..Len(longer) : longer[i] \in Succs(f, order[k])
    BY <2>2, <2>3 DEF Continues
  <2>6. Len(longer) \in Nat \ {0} /\ longer[1] = f.entry
    <3>1. 1 \in 1..Len(order) /\ order[1] = f.entry
      BY <1>1 DEF IsSearchOrder
    <3> QED BY <1>1, <2>5, <3>1
  <2>7. ASSUME NEW j \in 2..Len(longer)
        PROVE  \E i \in 1..(j-1) : longer[j] \in Succs(f, longer[i])
    <3>1. CASE j <= Len(order)
      <4>1. j \in 2..Len(order) /\ longer[j] = order[j]
        BY <1>1, <2>5, <3>1
      <4>2. PICK i \in 1..(j-1) : order[j] \in Succs(f, order[i])
        BY <4>1 DEF IsSearchOrder
      <4>3. longer[i] = order[i]
        <5>1. i \in 1..Len(order)
          BY <1>1, <3>1, <4>1
        <5> QED BY <2>5, <5>1
      <4> QED BY <4>1, <4>2, <4>3
    <3>2. CASE ~(j <= Len(order))
      <4>1. j \in (Len(order) + 1)..Len(longer) /\ k \in 1..(j-1)
        BY <1>1, <2>1, <2>5, <3>2
      <4>2. longer[j] \in Succs(f, order[k]) /\ longer[k] = order[k]
        BY <2>1, <2>5, <4>1
      <4> QED BY <4>1, <4>2
    <3> QED BY <3>1, <3>2
  <2>8. ASSUME NEW i \in 1..k PROVE Succs(f, longer[i]) \subseteq ToSet(longer)
    <3>1. i \in 1..Len(order) /\ longer[i] = order[i]
      BY <1>1, <1>4, <2>5
    <3>2. CASE i = k
      BY <2>2, <2>3, <3>1, <3>2
    <3>3. CASE i \in 1..(k-1)
      <4>1. Succs(f, order[i]) \subseteq ToSet(order)
        BY <1>1, <3>1, <3>3 DEF IsSearchOrder
      <4> QED BY <2>3, <3>1, <4>1
    <3> QED BY <1>2, <3>2, <3>3
  <2>9. IsSearchOrder(f, k, longer)
    BY <2>5, <2>6, <2>7, <2>8 DEF IsSearchOrder
  <2> QED BY <2>4, <2>9
<1> QED BY <1>3, <1>4

IsVisiting(f, v) ==
    /\ v \in [0..Len(f.layout) -> Seq(Blocks(f))] /\ v[0] = <<f.entry>>
    /\ \A k \in 1..Len(f.layout) : v[k] = SearchStep(f, v[k-1], k)

LEMMA VisitingExists ==
    ASSUME NEW f, IsFlowGraph(f)
    PROVE  \E v : IsVisiting(f, v)
<1> DEFINE M == Len(f.layout)
           D == {o \in Seq(Blocks(f)) : IsInjective(o)}
           G == [ko \in (1..M) \X D |-> SearchStep(f, ko[2], ko[1])]
<1>1. M \in Nat /\ <<f.entry>> \in D
  BY DEF IsFlowGraph, IsInjective
<1>2. ASSUME NEW o \in D, NEW k \in 1..M PROVE SearchStep(f, o, k) \in D
  <2>1. CASE ~(k <= Len(o))
    BY <2>1 DEF SearchStep
  <2>2. CASE k <= Len(o)
    <3>1. o \in Seq(Blocks(f)) /\ IsInjective(o) /\ o[k] \in Blocks(f)
      BY <2>2
    <3> DEFINE vector == f.succ[o[k]]
    <3>2. vector \in Seq(Blocks(f))
      BY <3>1 DEF IsFlowGraph
    <3> HIDE DEF vector
    <3>3. Continues(Blocks(f), o, ToSet(vector), Entered(o, vector))
      BY <3>1, <3>2, EnteredIs
    <3>4. Entered(o, vector) \in D
      BY <3>3 DEF Continues
    <3>5. SearchStep(f, o, k) = Entered(o, vector)
      BY <2>2 DEF SearchStep, vector
    <3> HIDE DEF D
    <3> QED BY <3>4, <3>5
  <2> QED BY <2>1, <2>2
<1>3. D \subseteq Seq(Blocks(f))
  OBVIOUS
<1> HIDE DEF D
<1>4. /\ G \in [(1..M) \X D -> D]
      /\ \A k \in 1..M, o \in D : G[<<k, o>>] = SearchStep(f, o, k)
  BY <1>1, <1>2
<1> HIDE DEF G
<1>5. PICK v \in [0..M -> D] : v[0] = <<f.entry>> /\ \A k \in 1..M : v[k] = G[<<k, v[k-1]>>]
  <2>1. IsRecursive(M, D, G, <<f.entry>>)
    BY <1>1, <1>4, RecursionExists
  <2> QED BY <2>1 DEF IsRecursive
<1>6. \A k \in 1..M : v[k] = SearchStep(f, v[k-1], k)
  <2> TAKE k \in 1..M
  <2>1. k - 1 \in 0..M
    BY <1>1
  <2>2. v[k-1] \in D
    BY <1>5, <2>1
  <2> QED BY <1>4, <1>5, <2>2
<1>7. v \in [0..M -> Seq(Blocks(f))]
  BY <1>3, <1>5
<1>8. IsVisiting(f, v)
  BY <1>5, <1>6, <1>7 DEF IsVisiting
<1> QED BY <1>8

LEMMA BreadthFirstIsLast ==
    ASSUME NEW f, Len(f.layout) \in Nat, NEW v, IsVisiting(f, v)
    PROVE  BreadthFirst(f) = AtLast(Len(f.layout), v)
<1> DEFINE M == Len(f.layout)
           step(order, k) == IF k <= Len(order) THEN Entered(order, f.succ[order[k]]) ELSE order
           Eq(h) == h = [k \in 0..M |-> IF k = 0 THEN <<f.entry>> ELSE step(h[k-1], k)]
           g == CHOOSE h : Eq(h)
<1>1. M \in Nat
  OBVIOUS
<1>2. \A k \in 1..M : v[k] = step(v[k-1], k)
  BY DEF IsVisiting, SearchStep
<1>3. Eq(v)
  <2>1. v = [k \in 0..M |-> v[k]] /\ v[0] = <<f.entry>>
    BY DEF IsVisiting
  <2>2. \A k \in 0..M : k = 0 \/ k \in 1..M
    BY <1>1
  <2> HIDE DEF step
  <2>3. \A k \in 0..M : v[k] = IF k = 0 THEN <<f.entry>> ELSE step(v[k-1], k)
    BY <1>2, <2>1, <2>2
  <2> QED BY <2>1, <2>3
<1>4. Eq(g)
  <2> HIDE DEF Eq
  <2> QED BY <1>3
<1>5. BreadthFirst(f) = g[M]
  BY DEF BreadthFirst
<1> HIDE DEF g, step
<1>6. \A k \in 0..M : g[k] = IF k = 0 THEN <<f.entry>> ELSE step(g[k-1], k)
  BY <1>4
<1> DEFINE U == {k \in 0..M : g[k] = v[k]}
<1>7. 0 \in U
  BY <1>1, <1>6 DEF IsVisiting
<1>8. ASSUME NEW k \in 1..M, k - 1 \in U PROVE k \in U
  <2>1. k \in 0..M /\ k /= 0 /\ g[k-1] = v[k-1]
    BY <1>8
  <2>2. g[k] = v[k]
    BY <1>2, <1>6, <2>1
  <2> QED BY <2>1, <2>2
<1>9. \A k \in 0..M : k \in U
  <2> HIDE DEF U
  <2> QED BY <1>1, <1>7, <1>8, UpTo
<1>10. g[M] = v[M]
  BY <1>1, <1>9
<1> QED BY <1>5, <1>10 DEF AtLast

(* The breadth-first search (traceIdentification.hpp:165-186) lists each *)
(* block at most once and the entry first, each other block after one    *)
(* that leads to it, and with a block its successors.                    *)
THEOREM BreadthFirstIs ==
    ASSUME NEW f, IsFlowGraph(f)
    PROVE  /\ IsSearchOrder(f, Len(f.layout), BreadthFirst(f))
           /\ \A b \in ToSet(BreadthFirst(f)) : Succs(f, b) \subseteq ToSet(BreadthFirst(f))
<1> DEFINE M == Len(f.layout)
           B == Blocks(f)
           order == BreadthFirst(f)
<1>1. IsCFG(f) /\ M \in Nat /\ IsFiniteSet(B) /\ Cardinality(B) <= M /\ Cardinality(B) \in Nat
  <2>1. IsCFG(f)
    BY FlowGraphIsCFG
  <2>2. M \in Nat /\ IsFiniteSet(B) /\ Cardinality(B) <= M
    BY <2>1, BlocksFinite
  <2> QED BY <2>1, <2>2, FS_CardinalityType
<1>2. PICK v : IsVisiting(f, v)
  BY VisitingExists
<1> HIDE DEF M, B, order
<1> DEFINE U == {k \in 0..M : IsSearchOrder(f, k, v[k])}
<1>3. 0 \in U
  <2> DEFINE o == <<f.entry>>
  <2>1. /\ o \in Seq(Blocks(f)) /\ IsInjective(o) /\ Len(o) \in Nat \ {0} /\ o[1] = f.entry
        /\ Len(o) = 1
    BY DEF IsFlowGraph, IsInjective
  <2> HIDE DEF o
  <2>2. IsSearchOrder(f, 0, o)
    BY <2>1 DEF IsSearchOrder
  <2>3. v[0] = o
    BY <1>2 DEF IsVisiting, o
  <2> QED BY <1>1, <2>2, <2>3
<1>4. ASSUME NEW k \in 1..M, k - 1 \in U PROVE k \in U
  <2> DEFINE h == k - 1
  <2>1. /\ k \in Nat \ {0} /\ h = k - 1 /\ IsSearchOrder(f, h, v[h])
        /\ v[k] = SearchStep(f, v[h], k)
    BY <1>1, <1>2, <1>4 DEF IsVisiting, M
  <2> HIDE DEF h
  <2>2. IsSearchOrder(f, k, SearchStep(f, v[h], k))
    BY <2>1, SearchContinues
  <2> QED BY <1>1, <2>1, <2>2
<1>5. \A k \in 0..M : k \in U
  <2> HIDE DEF U
  <2> QED BY <1>1, <1>3, <1>4, UpTo
<1>6. order = v[M]
  <2>1. order = AtLast(M, v)
    BY <1>1, <1>2, BreadthFirstIsLast DEF M, order
  <2> QED BY <2>1 DEF AtLast
<1>7. IsSearchOrder(f, M, order)
  <2>1. M \in 0..M
    BY <1>1
  <2>2. M \in U
    BY <1>5, <2>1
  <2> QED BY <1>6, <2>2
<1>8. order \in Seq(B) /\ IsInjective(order) /\ Len(order) \in Nat /\ DOMAIN order = 1..Len(order)
  BY <1>7 DEF IsSearchOrder, B
<1>9. Len(order) <= M
  <2> DEFINE n == Len(order)
  <2>1. order \in Injection(1..n, B)
    BY <1>8 DEF Injection, IsInjective
  <2>2. n \in Nat
    BY <1>8
  <2> HIDE DEF n
  <2>3. Cardinality(1..n) = n
    <3>1. Cardinality(1..n) = IF 1 <= n THEN n - 1 + 1 ELSE 0
      BY <2>2, FS_Interval
    <3> QED BY <2>2, <3>1
  <2>4. IsFiniteSet(1..n) /\ Cardinality(1..n) <= Cardinality(B)
    BY <1>1, <2>1, FS_Injection
  <2>5. n <= M
    BY <1>1, <2>2, <2>3, <2>4
  <2> QED BY <2>5 DEF n
<1>10. ASSUME NEW b \in ToSet(order) PROVE Succs(f, b) \subseteq ToSet(order)
  <2>1. PICK i \in 1..Len(order) : order[i] = b
    BY <1>8 DEF ToSet
  <2>2. i \in 1..M /\ i <= Len(order)
    BY <1>1, <1>8, <1>9
  <2> QED BY <1>7, <2>1, <2>2 DEF IsSearchOrder
<1> QED BY <1>7, <1>10 DEF order, M

-----------------------------------------------------------------------------
(* A path to the k-th block of the search order over blocks before it.   *)
Climbs(f, order, k, p) ==
    /\ IsPath(f, p) /\ p[1] = f.entry /\ p[Len(p)] = order[k] /\ Len(p) <= k
    /\ \A i \in 1..(Len(p) - 1) : \E m \in 1..(k-1) : p[i] = order[m]

LEMMA SearchClimbs ==
    ASSUME NEW f, IsFlowGraph(f), NEW M, NEW order, IsSearchOrder(f, M, order)
    PROVE  \A k \in 1..Len(order) : \E p : Climbs(f, order, k, p)
<1> DEFINE T == {k \in 1..Len(order) : ~\E p : Climbs(f, order, k, p)}
<1> SUFFICES ASSUME T /= {} PROVE FALSE
  OBVIOUS
<1>1. /\ order \in Seq(Blocks(f)) /\ Len(order) \in Nat \ {0} /\ order[1] = f.entry
      /\ \A j \in 2..Len(order) : \E i \in 1..(j-1) : order[j] \in Succs(f, order[i])
  BY DEF IsSearchOrder
<1>2. PICK k \in T : \A i \in T : k <= i
  <2>1. T \subseteq Nat
    BY <1>1
  <2> HIDE DEF T
  <2> QED BY <2>1, Least
<1>3. k \in 1..Len(order) /\ order[k] \in Blocks(f) /\ f.entry \in Blocks(f)
  BY <1>1, <1>2 DEF IsFlowGraph
<1>4. CASE k = 1
  <2> DEFINE p == <<f.entry>>
  <2>1. IsPath(f, p) /\ Len(p) = 1 /\ p[1] = f.entry
    BY <1>3, ShortestPath
  <2> HIDE DEF p
  <2>2. Climbs(f, order, k, p)
    BY <1>1, <1>4, <2>1 DEF Climbs
  <2> QED BY <1>2, <2>2
<1>5. CASE k /= 1
  <2>1. k \in 2..Len(order)
    BY <1>1, <1>3, <1>5
  <2>2. PICK j \in 1..(k-1) : order[k] \in Succs(f, order[j])
    BY <1>1, <2>1
  <2>3. j \in 1..Len(order) /\ ~(k <= j)
    BY <1>1, <2>1, <2>2
  <2>4. j \notin T
    <3> HIDE DEF T
    <3> QED BY <1>2, <2>3
  <2>5. PICK p : Climbs(f, order, j, p)
    BY <2>3, <2>4
  <2> DEFINE q == Append(p, order[k])
             n == Len(p)
  <2>6. IsPath(f, p) /\ p[1] = f.entry /\ p[n] = order[j] /\ n \in Nat \ {0} /\ n <= j
    BY <2>5 DEF Climbs, IsPath
  <2>7. IsPath(f, q) /\ Len(q) = n + 1 /\ q[n + 1] = order[k] /\ \A i \in 1..n : q[i] = p[i]
    BY <1>3, <2>2, <2>6, LongerBehind
  <2> HIDE DEF q, n
  <2>8. q[1] = f.entry /\ q[Len(q)] = order[k] /\ Len(q) <= k
    BY <1>1, <2>1, <2>2, <2>6, <2>7
  <2>9. ASSUME NEW i \in 1..(Len(q) - 1) PROVE \E m \in 1..(k-1) : q[i] = order[m]
    <3>1. i \in 1..n /\ q[i] = p[i]
      BY <2>6, <2>7
    <3>2. CASE i = n
      BY <2>2, <2>6, <3>1, <3>2
    <3>3. CASE i /= n
      <4>1. i \in 1..(n - 1)
        BY <2>6, <3>1, <3>3
      <4>2. PICK m \in 1..(j-1) : p[i] = order[m]
        BY <2>5, <4>1 DEF Climbs, n
      <4>3. m \in 1..(k-1)
        BY <1>1, <2>1, <2>2
      <4> QED BY <3>1, <4>2, <4>3
    <3> QED BY <3>2, <3>3
  <2>10. Climbs(f, order, k, q)
    BY <2>7, <2>8, <2>9 DEF Climbs
  <2> QED BY <1>2, <2>10
<1> QED BY <1>4, <1>5

(* The search order of a graph, as the proofs use it.                    *)
Searched(f, order) ==
    /\ order \in Seq(Reachable(f)) /\ ToSet(order) = Reachable(f) /\ IsInjective(order)
    /\ Len(order) \in 1..Len(f.layout) /\ order[1] = f.entry
    /\ Reachable(f) \subseteq Blocks(f)
    /\ \A b \in Reachable(f) : Succs(f, b) \subseteq Reachable(f)
    /\ \A k \in 1..Len(order) : \E p : Climbs(f, order, k, p)

LEMMA ClosedOnPath ==
    ASSUME NEW f, NEW S, \A b \in S : Succs(f, b) \subseteq S,
           NEW p, IsPath(f, p), p[1] \in S
    PROVE  \A k \in 1..Len(p) : p[k] \in S
<1> DEFINE T == {k \in 1..Len(p) : p[k] \notin S}
<1> SUFFICES ASSUME T /= {} PROVE FALSE
  OBVIOUS
<1>1. Len(p) \in Nat \ {0} /\ \A k \in 1..(Len(p) - 1) : p[k+1] \in Succs(f, p[k])
  BY DEF IsPath
<1>2. PICK k \in T : \A i \in T : k <= i
  <2>1. T \subseteq Nat
    BY <1>1
  <2> HIDE DEF T
  <2> QED BY <2>1, Least
<1>3. k \in 1..Len(p) /\ p[k] \notin S
  BY <1>2
<1>4. k - 1 \in 1..(Len(p) - 1) /\ (k - 1) + 1 = k /\ k - 1 \in 1..Len(p) /\ ~(k <= k - 1)
  BY <1>1, <1>3
<1>5. k - 1 \notin T
  <2> HIDE DEF T
  <2> QED BY <1>2, <1>4
<1>6. p[k-1] \in S
  BY <1>4, <1>5
<1> QED BY <1>1, <1>3, <1>4, <1>6

THEOREM BreadthFirstSearches ==
    ASSUME NEW f, IsFlowGraph(f)
    PROVE  Searched(f, BreadthFirst(f))
<1> DEFINE order == BreadthFirst(f)
           M == Len(f.layout)
           R == Reachable(f)
           from == {f.entry}
<1>1. /\ IsSearchOrder(f, M, order)
      /\ \A b \in ToSet(order) : Succs(f, b) \subseteq ToSet(order)
  BY BreadthFirstIs
<1> HIDE DEF order
<1>2. /\ order \in Seq(Blocks(f)) /\ IsInjective(order) /\ Len(order) \in Nat \ {0}
      /\ order[1] = f.entry /\ DOMAIN order = 1..Len(order)
  BY <1>1 DEF IsSearchOrder
<1>3. \A k \in 1..Len(order) : \E p : Climbs(f, order, k, p)
  BY <1>1, SearchClimbs
<1>4. IsCFG(f) /\ f.entry \in Blocks(f) /\ from \subseteq Blocks(f)
  BY FlowGraphIsCFG DEF IsFlowGraph
<1>5. /\ R \subseteq Blocks(f)
      /\ \A b : b \in R <=> \E p : IsPath(f, p) /\ p[1] = f.entry /\ p[Len(p)] = b
  <2>1. /\ ReachableFrom(f, from, {}) \subseteq Blocks(f)
        /\ \A b : b \in ReachableFrom(f, from, {}) <=> PathTo(f, from, {}, b)
    BY <1>4, ReachableIsPathTo
  <2>2. R = ReachableFrom(f, from, {})
    BY DEF Reachable
  <2> QED BY <2>1, <2>2 DEF PathTo
<1> HIDE DEF R, M, from
<1>6. ToSet(order) \subseteq R
  <2> SUFFICES ASSUME NEW b \in ToSet(order) PROVE b \in R
    OBVIOUS
  <2>1. PICK k \in 1..Len(order) : order[k] = b
    BY <1>2 DEF ToSet
  <2>2. PICK p : Climbs(f, order, k, p)
    BY <1>3
  <2> QED BY <1>5, <2>1, <2>2 DEF Climbs
<1>7. R \subseteq ToSet(order)
  <2> SUFFICES ASSUME NEW b \in R PROVE b \in ToSet(order)
    OBVIOUS
  <2>1. PICK p : IsPath(f, p) /\ p[1] = f.entry /\ p[Len(p)] = b
    BY <1>5
  <2>2. p[1] \in ToSet(order)
    <3>1. 1 \in 1..Len(order)
      BY <1>2
    <3> QED BY <1>2, <2>1, <3>1 DEF ToSet
  <2>3. Len(p) \in 1..Len(p)
    BY <2>1 DEF IsPath
  <2> QED BY <1>1, <2>1, <2>2, <2>3, ClosedOnPath
<1>8. ToSet(order) = R
  BY <1>6, <1>7
<1>9. order \in Seq(R)
  BY <1>2, <1>8, ListFinite
<1>10. Len(order) \in 1..M
  <2>1. IsFiniteSet(Blocks(f)) /\ M \in Nat /\ Cardinality(Blocks(f)) <= M
    BY <1>4, BlocksFinite DEF M
  <2> DEFINE n == Len(order)
  <2>2. n \in Nat \ {0} /\ order \in Injection(1..n, Blocks(f))
    BY <1>2 DEF Injection, IsInjective
  <2> HIDE DEF n
  <2>3. Cardinality(1..n) = n
    <3>1. Cardinality(1..n) = IF 1 <= n THEN n - 1 + 1 ELSE 0
      BY <2>2, FS_Interval
    <3> QED BY <2>2, <3>1
  <2>4. Cardinality(1..n) <= Cardinality(Blocks(f)) /\ Cardinality(Blocks(f)) \in Nat
    BY <2>1, <2>2, FS_Injection, FS_CardinalityType
  <2>5. n \in 1..M
    BY <2>1, <2>2, <2>3, <2>4
  <2> QED BY <2>5 DEF n
<1> QED BY <1>1, <1>2, <1>3, <1>5, <1>8, <1>9, <1>10 DEF Searched, order, R, M

(* A block on every path to another one is listed before it.             *)
LEMMA MustPassIsEarlier ==
    ASSUME NEW f, NEW order, Searched(f, order), NEW k \in 1..Len(order), NEW a,
           MustPass(f, a, order[k]), a /= order[k]
    PROVE  \E m \in 1..(k-1) : order[m] = a
<1>1. PICK p : Climbs(f, order, k, p)
  BY DEF Searched
<1>2. IsPath(f, p) /\ p[1] = f.entry /\ p[Len(p)] = order[k] /\ Len(p) \in Nat \ {0}
  BY <1>1 DEF Climbs, IsPath
<1>3. PICK i \in 1..Len(p) : p[i] = a
  BY <1>2 DEF MustPass
<1>4. i \in 1..(Len(p) - 1)
  <2>1. i /= Len(p)
    BY <1>2, <1>3
  <2> QED BY <1>2, <2>1
<1>5. PICK m \in 1..(k-1) : p[i] = order[m]
  BY <1>1, <1>4 DEF Climbs
<1> QED BY <1>3, <1>5
-----------------------------------------------------------------------------
(* Every edge leads to a node that is later, first by one count and then *)
(* by another.                                                           *)
EdgesClimb(N, succ, major, minor) ==
    /\ major \in [N -> Nat] /\ minor \in [N -> Nat]
    /\ \A n \in N : \A s \in ToSet(succ[n]) :
          major[n] < major[s] \/ (major[n] = major[s] /\ minor[n] < minor[s])

(* Then the critical path descends along every edge.                     *)
LEMMA ClimbingEdgesDescend ==
    ASSUME NEW fn, NEW I, NEW nodes \in Seq(I),
           NEW succ \in [ToSet(nodes) -> Seq(ToSet(nodes))],
           NEW major, NEW minor, EdgesClimb(ToSet(nodes), succ, major, minor)
    PROVE  /\ CriticalPath(fn, nodes, succ) \in [ToSet(nodes) -> Nat]
           /\ \A n \in ToSet(nodes) : \A s \in ToSet(succ[n]) :
                 CriticalPath(fn, nodes, succ)[s] < CriticalPath(fn, nodes, succ)[n]
<1> DEFINE N == ToSet(nodes)
           cp == CriticalPath(fn, nodes, succ)
<1>1. /\ \A n \in N : major[n] \in Nat /\ minor[n] \in Nat
      /\ \A n \in N : \A s \in ToSet(succ[n]) :
            major[n] < major[s] \/ (major[n] = major[s] /\ minor[n] < minor[s])
  BY DEF EdgesClimb
<1>2. \A n \in N : ToSet(succ[n]) \subseteq N
  BY ListFinite
<1> HIDE DEF N, cp
<1>3. NoEdgeLeaves(N, succ, {})
  BY DEF NoEdgeLeaves
<1>4. cp \in [N -> Nat]
  BY <1>3, CriticalPathDescends DEF N, cp
<1>5. ASSUME NEW n \in N, NEW s \in ToSet(succ[n]) PROVE cp[s] < cp[n]
  <2> DEFINE T == {m \in N : major[s] < major[m] \/ (major[s] = major[m] /\ minor[s] <= minor[m])}
  <2>1. s \in T /\ n \notin T /\ T \subseteq N
    <3>1. s \in N /\ major[s] \in Nat /\ minor[s] \in Nat /\ major[n] \in Nat /\ minor[n] \in Nat
      BY <1>1, <1>2
    <3>2. major[n] < major[s] \/ (major[n] = major[s] /\ minor[n] < minor[s])
      BY <1>1
    <3> QED BY <3>1, <3>2
  <2>2. ASSUME NEW m \in T, NEW k \in ToSet(succ[m]) PROVE k \in T
    <3>1. /\ k \in N /\ m \in N /\ s \in N
          /\ major[s] < major[m] \/ (major[s] = major[m] /\ minor[s] <= minor[m])
      BY <1>2, <2>1
    <3>2. major[m] < major[k] \/ (major[m] = major[k] /\ minor[m] < minor[k])
      BY <1>1, <3>1
    <3>3. major[s] \in Nat /\ minor[s] \in Nat /\ major[m] \in Nat /\ minor[m] \in Nat
          /\ major[k] \in Nat /\ minor[k] \in Nat
      BY <1>1, <3>1
    <3> QED BY <3>1, <3>2, <3>3
  <2>3. NoEdgeLeaves(N, succ, T)
    BY <2>1, <2>2 DEF NoEdgeLeaves
  <2> HIDE DEF T
  <2>4. n \in N \ T /\ s \in ToSet(succ[n]) \cap T
    BY <2>1
  <2>5. \A x \in N \ T : \A y \in ToSet(succ[x]) \cap T : cp[y] < cp[x]
    BY <2>3, CriticalPathDescends DEF N, cp
  <2> QED BY <2>4, <2>5
<1> QED BY <1>4, <1>5 DEF N, cp

(* A forward trace has no block twice.                                   *)
LEMMA ForwardIsInjective ==
    ASSUME NEW f, IsFunction(f), NEW trace, IsForward(f, trace)
    PROVE  IsInjective(trace)
<1> DEFINE order == BreadthFirst(f)
<1>1. IsInjective(order) /\ DOMAIN order = 1..Len(order)
  <2>1. Searched(f, order)
    BY FunctionGraph, BreadthFirstSearches
  <2> HIDE DEF order
  <2> QED BY <2>1 DEF Searched
<1>2. PICK pos \in [1..Len(trace) -> 1..Len(order)] :
        /\ \A a \in 1..Len(trace) : order[pos[a]] = trace[a]
        /\ \A a, b \in 1..Len(trace) : a < b => pos[a] < pos[b]
  BY DEF IsForward
<1>3. DOMAIN trace = 1..Len(trace) /\ Len(trace) \in Nat
  BY DEF IsForward
<1> HIDE DEF order
<1>4. ASSUME NEW a \in 1..Len(trace), NEW b \in 1..Len(trace), trace[a] = trace[b] PROVE a = b
  <2>1. pos[a] = pos[b]
    BY <1>1, <1>2, <1>4 DEF IsInjective
  <2>2. ~(a < b) /\ ~(b < a)
    <3>1. \A k \in 1..Len(order) : ~(k < k)
      OBVIOUS
    <3> QED BY <1>2, <2>1, <3>1
  <2> QED BY <1>3, <2>2
<1> QED BY <1>3, <1>4 DEF IsInjective

(* What leads to an edge in the graph of a trace.                        *)
LEMMA TraceEdgesAre ==
    ASSUME NEW f, IsFunction(f), NEW trace \in Seq(Blocks(f)), IsInjective(trace),
           NEW v \in ToSet(TraceNodes(f, trace)), NEW n \in ToSet(TraceSuccessors(f, trace)[v])
    PROVE  /\ n \in ToSet(TraceNodes(f, trace))
           /\ v \in Operands(f, n) \/ Before(f.body, v, n)
<1> DEFINE nodes == TraceNodes(f, trace)
           N == ToSet(nodes)
           users == {m \in N : ~IsTerminator(f, m) /\ v \in Operands(f, m)}
           true == IF IsTerminator(f, v) THEN <<>> ELSE Among(nodes, users)
           s == f.body[BlockOf(f.body, v)]
           order == OrderDependents(f, s, v)
<1>1. IsPlacement(f, f.body)
  BY DEF IsFunction
<1>2. nodes \in Seq(Instructions(f)) /\ IsInjective(nodes) /\ N = OnTrace(f, trace)
  BY <1>1, TraceNodesAre
<1>3. v \in Instructions(f) /\ BlockOf(f.body, v) \in Blocks(f)
      /\ s \in Seq(Instructions(f)) /\ IsInjective(s)
  <2>1. v \in Instructions(f)
    BY <1>2 DEF OnTrace
  <2>2. BlockOf(f.body, v) \in Blocks(f)
    BY <1>1, <2>1, PlacedOnce
  <2> QED BY <1>1, <2>1, <2>2 DEF IsPlacement
<1>4. TraceSuccessors(f, trace)[v] = AddEdges(true, order)
  BY DEF TraceSuccessors
<1> HIDE DEF nodes, s
<1>5. true \in Seq(Instructions(f)) /\ IsInjective(true) /\ ToSet(true) \subseteq users
  <2>1. CASE IsTerminator(f, v)
    <3>1. <<>> \in Seq(Instructions(f)) /\ IsInjective(<<>>) /\ ToSet(<<>>) = {}
      BY DEF IsInjective, ToSet
    <3> QED BY <2>1, <3>1
  <2>2. CASE ~IsTerminator(f, v)
    <3>1. true = Among(nodes, users)
      BY <2>2
    <3> HIDE DEF users, true
    <3>2. /\ Among(nodes, users) \in Seq(N \cap users) /\ IsInjective(Among(nodes, users))
          /\ ToSet(Among(nodes, users)) = N \cap users
      BY <1>2, AmongElements
    <3>3. N \cap users \subseteq Instructions(f)
      BY <1>2 DEF OnTrace
    <3>4. Among(nodes, users) \in Seq(Instructions(f))
      BY <3>2, <3>3
    <3> QED BY <3>1, <3>2, <3>4
  <2> QED BY <2>1, <2>2
<1>6. /\ order \in Seq(ToSet(s)) /\ IsInjective(order)
      /\ \A m \in ToSet(order) : /\ m \in ToSet(s) /\ IsOrderedOp(f, m)
                                 /\ \E p, q \in 1..Len(s) : p < q /\ s[p] = v /\ s[q] = m
  BY <1>3, OrderDependentsAre
<1>7. order \in Seq(Instructions(f))
  <2>1. ToSet(s) \subseteq Instructions(f)
    BY <1>3, ListFinite
  <2> HIDE DEF order
  <2> QED BY <1>6, <2>1
<1>8. n \in users \/ n \in ToSet(order)
  <2> HIDE DEF true, order, users
  <2>1. ToSet(AddEdges(true, order)) = ToSet(true) \cup ToSet(order)
    BY <1>5, <1>6, <1>7, AddEdgesIs
  <2> QED BY <1>4, <1>5, <2>1
<1>9. CASE n \in users
  BY <1>9 DEF nodes
<1>10. CASE n \in ToSet(order)
  <2>1. n \in ToSet(s) /\ IsOrderedOp(f, n) /\ n \in Instructions(f)
    BY <1>3, <1>6, <1>10, ListFinite
  <2>2. BlockOf(f.body, n) = BlockOf(f.body, v)
    BY <1>1, <1>3, <2>1, PlacedOnce DEF s
  <2>3. PICK p \in 1..Len(s), q \in 1..Len(s) : p < q /\ s[p] = v /\ s[q] = n
    BY <1>6, <1>10
  <2>4. DOMAIN s = 1..Len(s) /\ Len(s) \in Nat
    BY <1>3
  <2>5. /\ PosOf(f.body, v) \in 1..Len(s) /\ s[PosOf(f.body, v)] = v
        /\ PosOf(f.body, n) \in 1..Len(s) /\ s[PosOf(f.body, n)] = n
    BY <1>1, <1>3, <2>1, <2>2, PlacedOnce DEF s
  <2>6. PosOf(f.body, v) = p /\ PosOf(f.body, n) = q
    BY <1>3, <2>3, <2>4, <2>5 DEF IsInjective
  <2>7. Before(f.body, v, n)
    BY <2>2, <2>3, <2>6 DEF Before
  <2>8. n \in N
    <3>1. ~IsPHI(f, n)
      BY <2>1 DEF IsOrderedOp, IsPHI
    <3>2. BlockOf(f.body, v) \in ToSet(trace)
      BY <1>2 DEF OnTrace, nodes
    <3> QED BY <1>2, <2>1, <2>2, <3>1, <3>2 DEF OnTrace
  <2> QED BY <2>7, <2>8 DEF nodes
<1> QED BY <1>8, <1>9, <1>10

(* Where a trace has the block of an instruction, and where that has it. *)
TraceAt(f, trace, i) == CHOOSE a \in DOMAIN trace : trace[a] = BlockOf(f.body, i)

(* On the way the search took to a block, whatever an instruction there  *)
(* needs has been computed.                                              *)
LEMMA OperandIsEarlier ==
    ASSUME NEW f, IsFunction(f), NEW order, Searched(f, order),
           NEW n \in Instructions(f), ~IsPHI(f, n),
           NEW v \in Operands(f, n) \cap Instructions(f),
           NEW q \in 1..Len(order), order[q] = BlockOf(f.body, n)
    PROVE  \/ Before(f.body, v, n)
           \/ \E m \in 1..(q-1) : order[m] = BlockOf(f.body, v)
<1>1. PICK p : Climbs(f, order, q, p)
  BY DEF Searched
<1>2. /\ IsPath(f, p) /\ p[1] = f.entry /\ p[Len(p)] = order[q] /\ Len(p) <= q
      /\ \A i \in 1..(Len(p) - 1) : \E m \in 1..(q-1) : p[i] = order[m]
  BY <1>1 DEF Climbs
<1>3. p \in f.paths
  <2>1. f.paths = PathsUpTo(f, f.entry, Len(f.layout)) /\ Len(f.layout) \in Nat
    BY FunctionGraph
  <2>2. p \in Seq(Blocks(f)) /\ Len(p) \in Nat
    BY <1>2 DEF IsPath
  <2>3. Len(order) \in 1..Len(f.layout)
    BY DEF Searched
  <2>4. Len(p) <= Len(f.layout)
    BY <1>2, <2>1, <2>2, <2>3
  <2> QED BY <1>2, <2>1, <2>2, <2>4 DEF PathsUpTo
<1>4. PICK k \in DOMAIN f.use[n] : f.use[n][k] = v
  BY DEF Operands, ToSet
<1>5. OperandReady(f, f.body, p, n, k)
  <2>1. IsPlacement(f, f.body) /\ OperandsComputed(f, f.body)
    BY DEF IsFunction
  <2>2. OperandsReady(f, f.body)
    BY <2>1, ComputedIsReady
  <2> QED BY <1>2, <1>3, <1>4, <2>2 DEF OperandsReady
<1>6. \/ \E m \in 1..(Len(p) - 1) : p[m] = BlockOf(f.body, v)
      \/ Before(f.body, v, n)
  BY <1>4, <1>5 DEF OperandReady
<1> QED BY <1>2, <1>6

(* So every edge of its graph leads to a later block of the trace, or to *)
(* a later place of the same.                                            *)
LEMMA TraceEdgesClimb ==
    ASSUME NEW f, IsFunction(f), NEW trace, IsForward(f, trace)
    PROVE  EdgesClimb(ToSet(TraceNodes(f, trace)), TraceSuccessors(f, trace),
                      [i \in ToSet(TraceNodes(f, trace)) |-> TraceAt(f, trace, i)],
                      [i \in ToSet(TraceNodes(f, trace)) |-> PosOf(f.body, i)])
<1> DEFINE N == ToSet(TraceNodes(f, trace))
           at == [i \in N |-> TraceAt(f, trace, i)]
           pos == [i \in N |-> PosOf(f.body, i)]
           order == BreadthFirst(f)
           succ == TraceSuccessors(f, trace)
<1>1. /\ IsPlacement(f, f.body) /\ trace \in Seq(Blocks(f)) /\ IsInjective(trace)
      /\ DOMAIN trace = 1..Len(trace) /\ Len(trace) \in Nat
  <2>1. IsInjective(trace) /\ IsPlacement(f, f.body)
    BY ForwardIsInjective DEF IsFunction
  <2>2. trace \in Seq(Blocks(f))
    BY DEF IsForward
  <2> QED BY <2>1, <2>2
<1>2. N = OnTrace(f, trace)
  BY <1>1, TraceNodesAre
<1>3. Searched(f, order)
  BY FunctionGraph, BreadthFirstSearches
<1>4. ASSUME NEW i \in N
      PROVE  /\ i \in Instructions(f) /\ ~IsPHI(f, i)
             /\ at[i] \in 1..Len(trace) /\ trace[at[i]] = BlockOf(f.body, i) /\ pos[i] \in Nat
             /\ BlockOf(f.body, i) \in Blocks(f)
  <2>1. i \in Instructions(f) /\ ~IsPHI(f, i) /\ BlockOf(f.body, i) \in ToSet(trace)
    BY <1>2 DEF OnTrace
  <2>2. \E a \in DOMAIN trace : trace[a] = BlockOf(f.body, i)
    BY <2>1 DEF ToSet
  <2>3. at[i] \in 1..Len(trace) /\ trace[at[i]] = BlockOf(f.body, i)
    BY <1>1, <2>2 DEF TraceAt
  <2>4. BlockOf(f.body, i) \in Blocks(f) /\ pos[i] \in Nat
    <3>1. /\ BlockOf(f.body, i) \in Blocks(f) /\ PosOf(f.body, i) \in 1..Len(f.body[BlockOf(f.body, i)])
      BY <1>1, <2>1, PlacedOnce
    <3> QED BY <3>1
  <2> QED BY <2>1, <2>3, <2>4
<1>5. PICK rank \in [1..Len(trace) -> 1..Len(order)] :
        /\ \A a \in 1..Len(trace) : order[rank[a]] = trace[a]
        /\ \A a, b \in 1..Len(trace) : a < b => rank[a] < rank[b]
  BY DEF IsForward
<1>6. at \in [N -> Nat] /\ pos \in [N -> Nat]
  <2>1. at = [i \in N |-> at[i]] /\ pos = [i \in N |-> pos[i]]
    OBVIOUS
  <2>2. \A i \in N : at[i] \in Nat /\ pos[i] \in Nat
    BY <1>1, <1>4
  <2> HIDE DEF N, at, pos
  <2> QED BY <2>1, <2>2
<1>7. ASSUME NEW n \in N, NEW s \in ToSet(succ[n])
      PROVE  at[n] < at[s] \/ (at[n] = at[s] /\ pos[n] < pos[s])
  <2>1. s \in N /\ (n \in Operands(f, s) \/ Before(f.body, n, s))
    BY <1>1, TraceEdgesAre
  <2>2. /\ at[n] \in 1..Len(trace) /\ trace[at[n]] = BlockOf(f.body, n)
        /\ at[s] \in 1..Len(trace) /\ trace[at[s]] = BlockOf(f.body, s)
        /\ n \in Instructions(f) /\ s \in Instructions(f) /\ ~IsPHI(f, s)
    BY <1>4, <2>1
  <2>3. (at[n] = at[s] /\ pos[n] < pos[s]) \/ ~Before(f.body, n, s)
    <3> SUFFICES ASSUME Before(f.body, n, s) PROVE at[n] = at[s] /\ pos[n] < pos[s]
      OBVIOUS
    <3>1. trace[at[n]] = trace[at[s]] /\ PosOf(f.body, n) < PosOf(f.body, s)
      BY <2>2 DEF Before
    <3>2. at[n] = at[s]
      <4> HIDE DEF at
      <4> QED BY <1>1, <2>2, <3>1 DEF IsInjective
    <3> QED BY <2>1, <3>1, <3>2
  <2>4. CASE ~Before(f.body, n, s)
    <3> DEFINE x == at[n]
               y == at[s]
               q == rank[y]
    <3>1. x \in 1..Len(trace) /\ y \in 1..Len(trace) /\ q \in 1..Len(order)
          /\ order[q] = BlockOf(f.body, s) /\ order[rank[x]] = BlockOf(f.body, n)
          /\ rank[x] \in 1..Len(order)
      <4>1. x \in 1..Len(trace) /\ y \in 1..Len(trace)
        BY <2>2
      <4> HIDE DEF x, y, order
      <4> QED BY <1>5, <2>2, <4>1 DEF x, y
    <3> HIDE DEF order, q
    <3>2. \E m \in 1..(q-1) : order[m] = BlockOf(f.body, n)
      BY <1>3, <2>1, <2>2, <2>4, <3>1, OperandIsEarlier
    <3>3. PICK m \in 1..(q-1) : order[m] = BlockOf(f.body, n)
      BY <3>2
    <3>4. IsInjective(order) /\ DOMAIN order = 1..Len(order) /\ Len(order) \in Nat
      BY <1>3 DEF Searched
    <3>5. m \in 1..Len(order)
      BY <3>1, <3>3, <3>4
    <3>6. m = rank[x]
      BY <3>1, <3>3, <3>4, <3>5 DEF IsInjective
    <3> HIDE DEF x, y
    <3>7. rank[x] < rank[y] /\ rank[x] \in Nat /\ rank[y] \in Nat
      BY <3>1, <3>3, <3>4, <3>6 DEF q
    <3>8. x < y
      <4>1. ~(y < x)
        <5>1. y < x => rank[y] < rank[x]
          BY <1>5, <3>1
        <5> QED BY <3>7, <5>1
      <4>2. y /= x
        BY <3>7
      <4> QED BY <1>1, <3>1, <4>1, <4>2
    <3> QED BY <3>8 DEF x, y
  <2> QED BY <2>3, <2>4
<1> HIDE DEF N, at, pos, succ
<1>8. EdgesClimb(N, succ, at, pos)
  BY <1>6, <1>7 DEF EdgesClimb
<1> QED BY <1>8 DEF N, at, pos, succ

(* The graph of such a trace has the critical paths it should have.      *)
THEOREM TraceCriticalPaths ==
    ASSUME NEW f, IsFunction(f), NEW trace, IsForward(f, trace)
    PROVE  LET g == TraceDDG(f, trace)
           IN  /\ g.cp \in [ToSet(g.nodes) -> Nat]
               /\ \A n \in ToSet(g.nodes) : \A s \in ToSet(g.succ[n]) : g.cp[s] < g.cp[n]
<1> DEFINE g == TraceDDG(f, trace)
           nodes == TraceNodes(f, trace)
           succ == TraceSuccessors(f, trace)
           at == [i \in ToSet(nodes) |-> TraceAt(f, trace, i)]
           pos == [i \in ToSet(nodes) |-> PosOf(f.body, i)]
<1>1. trace \in Seq(Blocks(f)) /\ trace /= <<>> /\ IsInjective(trace) /\ IsPlacement(f, f.body)
  BY ForwardIsInjective DEF IsForward, IsFunction
<1>2. IsDDG(f, g) /\ g.nodes = nodes /\ g.succ = succ
  BY <1>1, TraceDDGIs
<1>3. g.cp = CriticalPath(f, nodes, succ)
  BY DEF TraceDDG, ScheduleInput
<1>4. nodes \in Seq(Instructions(f))
  BY <1>1, TraceNodesAre
<1>5. EdgesClimb(ToSet(nodes), succ, at, pos)
  BY TraceEdgesClimb
<1> HIDE DEF g, nodes, succ, at, pos
<1>6. succ \in [ToSet(nodes) -> Seq(ToSet(nodes))]
  BY <1>2 DEF IsDDG
<1>7. /\ CriticalPath(f, nodes, succ) \in [ToSet(nodes) -> Nat]
      /\ \A n \in ToSet(nodes) : \A s \in ToSet(succ[n]) :
            CriticalPath(f, nodes, succ)[s] < CriticalPath(f, nodes, succ)[n]
  BY <1>4, <1>5, <1>6, ClimbingEdgesDescend
<1> QED BY <1>2, <1>3, <1>7 DEF g
=============================================================================
