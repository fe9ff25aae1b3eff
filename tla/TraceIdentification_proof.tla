--------------------- MODULE TraceIdentification_proof ---------------------
(*************************************************************************)
(* Proofs about identifyTraces, for every set of profiles.               *)
(*************************************************************************)
EXTENDS TraceIdentification, IR_proof, SequenceTheorems

(* The blocks the sort puts before the k-th, and how many they are.      *)
Ahead(order, freq, k) ==
    {j \in DOMAIN order : \/ freq[order[j]] > freq[order[k]]
                          \/ freq[order[j]] = freq[order[k]] /\ j < k}

Rank(order, freq, k) == Cardinality(Ahead(order, freq, k))

(* No two blocks have the same rank, and there is one of each.           *)
LEMMA RanksAre ==
    ASSUME NEW R, NEW order \in Seq(R), NEW freq, \A b \in R : freq[b] \in Nat
    PROVE  /\ \A k \in 1..Len(order) : Rank(order, freq, k) \in 0..(Len(order) - 1)
           /\ \A j, k \in 1..Len(order) : j \in Ahead(order, freq, k) =>
                 Rank(order, freq, j) < Rank(order, freq, k)
           /\ \A j, k \in 1..Len(order) : j /= k =>
                 Rank(order, freq, j) /= Rank(order, freq, k)
           /\ \A r \in 0..(Len(order) - 1) :
                 \E k \in 1..Len(order) : Rank(order, freq, k) = r
<1> DEFINE n == Len(order)
           D == 1..n
           A(k) == Ahead(order, freq, k)
           rank(k) == Rank(order, freq, k)
           hot(k) == freq[order[k]]
<1>1. n \in Nat /\ DOMAIN order = D /\ \A k \in D : hot(k) \in Nat
  BY DEF hot
<1>2. IsFiniteSet(D) /\ Cardinality(D) = n
  <2>1. 1 \in Int /\ n \in Int /\ Cardinality(1..n) = (IF 1 > n THEN 0 ELSE n - 1 + 1)
        /\ IsFiniteSet(1..n)
    BY <1>1, FS_Interval
  <2> QED BY <1>1, <2>1
<1>3. \A k \in D : A(k) = {j \in D : hot(j) > hot(k) \/ (hot(j) = hot(k) /\ j < k)}
  BY <1>1 DEF Ahead
<1> HIDE DEF D, hot, A
<1>4. ASSUME NEW k \in D PROVE rank(k) \in 0..(n-1) /\ IsFiniteSet(A(k)) /\ k \notin A(k)
  <2>1. A(k) \subseteq D /\ k \notin A(k) /\ A(k) /= D
    <3>1. k \in Int /\ hot(k) \in Nat
      BY <1>1 DEF D
    <3> QED BY <1>3, <3>1
  <2>2. IsFiniteSet(A(k)) /\ Cardinality(A(k)) <= n /\ Cardinality(A(k)) /= n
    BY <1>2, <2>1, FS_Subset
  <2>3. Cardinality(A(k)) \in Nat
    BY <2>2, FS_CardinalityType
  <2> QED BY <1>1, <2>1, <2>2, <2>3 DEF Rank, A
<1>5. ASSUME NEW j \in D, NEW k \in D, j \in A(k) PROVE rank(j) < rank(k)
  <2>1. A(j) \subseteq A(k)
    <3> SUFFICES ASSUME NEW i \in A(j) PROVE i \in A(k)
      OBVIOUS
    <3>1. i \in D /\ (hot(i) > hot(j) \/ (hot(i) = hot(j) /\ i < j))
      BY <1>3
    <3>2. hot(j) > hot(k) \/ (hot(j) = hot(k) /\ j < k)
      BY <1>3, <1>5
    <3>3. i \in Int /\ j \in Int /\ k \in Int /\ hot(i) \in Nat /\ hot(j) \in Nat /\ hot(k) \in Nat
      BY <1>1, <3>1 DEF D
    <3>4. hot(i) > hot(k) \/ (hot(i) = hot(k) /\ i < k)
      BY <3>1, <3>2, <3>3
    <3> QED BY <1>3, <3>1, <3>4
  <2>2. A(j) /= A(k) /\ IsFiniteSet(A(k)) /\ IsFiniteSet(A(j))
    BY <1>4, <1>5
  <2>3. Cardinality(A(j)) <= Cardinality(A(k)) /\ Cardinality(A(j)) /= Cardinality(A(k))
    BY <2>1, <2>2, FS_Subset
  <2>4. Cardinality(A(j)) \in Nat /\ Cardinality(A(k)) \in Nat
    BY <2>2, FS_CardinalityType
  <2> QED BY <2>3, <2>4 DEF Rank, A
<1>6. ASSUME NEW j \in D, NEW k \in D, j /= k PROVE rank(j) /= rank(k)
  <2>1. j \in Int /\ k \in Int /\ hot(j) \in Nat /\ hot(k) \in Nat
    BY <1>1 DEF D
  <2>2. j \in A(k) \/ k \in A(j)
    BY <1>3, <1>6, <2>1
  <2>3. rank(j) \in Nat /\ rank(k) \in Nat
    BY <1>4
  <2> HIDE DEF rank
  <2> QED BY <1>5, <2>2, <2>3
<1>7. ASSUME NEW r \in 0..(n-1) PROVE \E k \in D : rank(k) = r
  <2> DEFINE M == 0..(n-1)
             o == [k \in D |-> rank(k)]
  <2>1. IsFiniteSet(M) /\ Cardinality(M) = n
    <3>1. n - 1 \in Int /\ 0 \in Int
      BY <1>1
    <3>2. IsFiniteSet(0..(n-1)) /\ Cardinality(0..(n-1)) = (IF 0 > n - 1 THEN 0 ELSE (n - 1) - 0 + 1)
      BY <3>1, FS_Interval
    <3> QED BY <1>1, <3>2
  <2>2. \A k \in 1..n : o[k] \in M
    BY <1>4 DEF D
  <2>3. \A j, k \in 1..n : j < k => o[j] /= o[k]
    <3> HIDE DEF rank
    <3> QED BY <1>1, <1>6 DEF D
  <2> HIDE DEF M, o, n, rank
  <2>4. \A m \in M : \E k \in 1..n : o[k] = m
    BY <1>1, <2>1, <2>2, <2>3, EnoughAreAll
  <2> QED BY <2>4 DEF M, o, n, rank, D
<1> QED BY <1>4, <1>5, <1>6, <1>7 DEF D, A

(* The sort permutes the blocks and puts the hotter ones first.          *)
LEMMA HottestFirstIs ==
    ASSUME NEW R, NEW order \in Seq(R), NEW freq, \A b \in R : freq[b] \in Nat
    PROVE  /\ HottestFirst(order, freq) \in Seq(R)
           /\ ToSet(HottestFirst(order, freq)) = ToSet(order)
           /\ \A j, k \in DOMAIN HottestFirst(order, freq) :
                 j < k => freq[HottestFirst(order, freq)[k]] <= freq[HottestFirst(order, freq)[j]]
<1> DEFINE n == Len(order)
           D == 1..n
           at(p) == CHOOSE k \in D : Rank(order, freq, k) = p - 1
           sorted == HottestFirst(order, freq)
<1>1. n \in Nat /\ DOMAIN order = D /\ \A k \in D : order[k] \in R
  OBVIOUS
<1>2. sorted = [p \in D |-> order[at(p)]]
  BY <1>1 DEF HottestFirst, Rank, Ahead
<1>3. /\ \A k \in D : Rank(order, freq, k) \in 0..(n-1)
      /\ \A j, k \in D : j \in Ahead(order, freq, k) => Rank(order, freq, j) < Rank(order, freq, k)
      /\ \A j, k \in D : j /= k => Rank(order, freq, j) /= Rank(order, freq, k)
      /\ \A r \in 0..(n-1) : \E k \in D : Rank(order, freq, k) = r
  BY RanksAre
<1>4. ASSUME NEW p \in D PROVE at(p) \in D /\ Rank(order, freq, at(p)) = p - 1
  <2>1. p - 1 \in 0..(n-1)
    BY <1>1
  <2>2. \E k \in D : Rank(order, freq, k) = p - 1
    BY <1>3, <2>1
  <2> HIDE DEF D
  <2> QED BY <2>2
<1>5. ASSUME NEW k \in D PROVE \E p \in D : at(p) = k
  <2> DEFINE r == Rank(order, freq, k)
             p == r + 1
  <2>1. r \in 0..(n-1)
    BY <1>3
  <2> HIDE DEF r
  <2>2. p \in D /\ p - 1 = r
    BY <1>1, <2>1
  <2> HIDE DEF p, D
  <2>3. at(p) \in D /\ Rank(order, freq, at(p)) = r
    BY <1>4, <2>2
  <2> HIDE DEF at
  <2>4. at(p) = k
    BY <1>3, <2>3 DEF r
  <2> QED BY <2>2, <2>4
<1> HIDE DEF sorted, at
<1>6. sorted \in Seq(R) /\ DOMAIN sorted = D /\ Len(sorted) = n
  BY <1>1, <1>2, <1>4
<1>7. ToSet(sorted) = ToSet(order)
  <2>1. ToSet(sorted) = {sorted[p] : p \in D} /\ ToSet(order) = {order[k] : k \in D}
    BY <1>1, <1>6 DEF ToSet
  <2>2. \A p \in D : sorted[p] = order[at(p)]
    BY <1>2
  <2> HIDE DEF D
  <2> QED BY <1>4, <1>5, <2>1, <2>2
<1>8. ASSUME NEW j \in D, NEW k \in D, j < k PROVE freq[sorted[k]] <= freq[sorted[j]]
  <2>1. at(j) \in D /\ at(k) \in D /\ Rank(order, freq, at(j)) < Rank(order, freq, at(k))
    <3>1. j - 1 < k - 1
      BY <1>1, <1>8
    <3> QED BY <1>4, <3>1
  <2>2. Rank(order, freq, at(j)) \in Int /\ Rank(order, freq, at(k)) \in Int
    BY <1>3, <2>1
  <2>3. at(k) \notin Ahead(order, freq, at(j))
    BY <1>3, <2>1, <2>2
  <2>4. freq[order[at(k)]] \in Nat /\ freq[order[at(j)]] \in Nat
    BY <1>1, <2>1
  <2>5. ~(freq[order[at(k)]] > freq[order[at(j)]])
    BY <1>1, <2>1, <2>3 DEF Ahead
  <2>6. sorted[k] = order[at(k)] /\ sorted[j] = order[at(j)]
    BY <1>2
  <2> QED BY <2>4, <2>5, <2>6
<1> QED BY <1>6, <1>7, <1>8 DEF sorted

(* What the code is given to work on, and makes of it.                   *)
LEMMA ProfileIs ==
    ASSUME NEW p, IsProfile(p)
    PROVE  /\ IsFlowGraph(p) /\ Searched(p, BreadthFirst(p))
           /\ HottestFirst(BreadthFirst(p), p.freq) \in Seq(Reachable(p))
           /\ ToSet(HottestFirst(BreadthFirst(p), p.freq)) = Reachable(p)
           /\ \A j, k \in DOMAIN HottestFirst(BreadthFirst(p), p.freq) :
                 j < k => p.freq[HottestFirst(BreadthFirst(p), p.freq)[k]]
                            <= p.freq[HottestFirst(BreadthFirst(p), p.freq)[j]]
<1>1. IsFlowGraph(p)
  BY DEF IsProfile, IsFlowGraph
<1>2. Searched(p, BreadthFirst(p))
  BY <1>1, BreadthFirstSearches
<1>3. BreadthFirst(p) \in Seq(Reachable(p)) /\ ToSet(BreadthFirst(p)) = Reachable(p)
  BY <1>2 DEF Searched
<1>4. \A b \in Reachable(p) : p.freq[b] \in Nat
  BY DEF IsProfile
<1> QED BY <1>1, <1>2, <1>3, <1>4, HottestFirstIs

(* The assumption on profiles, in terms of the state.                    *)
LEMMA ProfileFacts ==
    ASSUME InputInv
    PROVE  /\ Reachable(profile) \subseteq Blocks(profile) /\ IsFiniteSet(Blocks(profile))
           /\ bfsOrder \in Seq(Reachable(profile)) /\ ToSet(bfsOrder) = Reachable(profile)
           /\ byFreqDesc \in Seq(Reachable(profile)) /\ ToSet(byFreqDesc) = Reachable(profile)
           /\ \A j, k \in DOMAIN byFreqDesc :
                 j < k => profile.freq[byFreqDesc[k]] <= profile.freq[byFreqDesc[j]]
           /\ \A b \in Reachable(profile) :
                 profile.freq[b] \in Nat \ {0} /\ Succs(profile, b) \subseteq Reachable(profile)
           /\ \A b \in Blocks(profile) : profile.succ[b] \in Seq(Blocks(profile))
           /\ \A b \in Blocks(profile) : \A s \in Succs(profile, b) :
                 profile.prob[b][s] \in 0..100
<1>1. IsProfile(profile) /\ bfsOrder = BreadthFirst(profile)
      /\ byFreqDesc = HottestFirst(bfsOrder, profile.freq)
  BY ProfilesAssumption DEF InputInv, SeedOrder
<1>2. IsFlowGraph(profile) /\ Searched(profile, bfsOrder)
  BY <1>1, ProfileIs
<1>3. IsFiniteSet(Blocks(profile))
  BY <1>2, FlowGraphIsCFG, BlocksFinite
<1>4. /\ Reachable(profile) \subseteq Blocks(profile)
      /\ bfsOrder \in Seq(Reachable(profile)) /\ ToSet(bfsOrder) = Reachable(profile)
      /\ \A b \in Reachable(profile) : Succs(profile, b) \subseteq Reachable(profile)
  BY <1>2 DEF Searched
<1>5. /\ byFreqDesc \in Seq(Reachable(profile)) /\ ToSet(byFreqDesc) = Reachable(profile)
      /\ \A j, k \in DOMAIN byFreqDesc :
            j < k => profile.freq[byFreqDesc[k]] <= profile.freq[byFreqDesc[j]]
  BY <1>1, ProfileIs
<1> QED BY <1>1, <1>3, <1>4, <1>5 DEF IsProfile

(* The ends and the probability of an edge that is tested.               *)
LEMMA EdgeFacts ==
    ASSUME InputInv, NEW b \in Blocks(profile)
    PROVE  /\ IsFiniteSet(OutEdges(b)) /\ IsFiniteSet(InEdges(b))
           /\ \A e \in OutEdges(b) \cup InEdges(b) :
                 /\ e = <<e[1], e[2]>> /\ e[1] \in Blocks(profile) /\ e[2] \in Blocks(profile)
                 /\ e[2] \in Succs(profile, e[1]) /\ Prob(e) \in 0..100
           /\ \A e \in OutEdges(b) : e[1] = b /\ e[2] \in Succs(profile, b)
           /\ \A e \in InEdges(b) : e[2] = b /\ e[1] \in Preds(profile, b)
<1>1. Succs(profile, b) \subseteq Blocks(profile)
  BY ProfileFacts DEF Succs, ToSet
<1>2. Preds(profile, b) \subseteq Blocks(profile)
  BY DEF Preds
<1>3. IsFiniteSet(Succs(profile, b)) /\ IsFiniteSet(Preds(profile, b))
  BY <1>1, <1>2, ProfileFacts, FS_Subset
<1>4. IsFiniteSet(OutEdges(b))
  <2> DEFINE f == [s \in Succs(profile, b) |-> <<b, s>>]
  <2>1. f \in Surjection(Succs(profile, b), OutEdges(b))
    BY DEF Surjection, OutEdges
  <2> HIDE DEF f
  <2> QED BY <1>3, <2>1, FS_Surjection
<1>5. IsFiniteSet(InEdges(b))
  <2> DEFINE f == [p \in Preds(profile, b) |-> <<p, b>>]
  <2>1. f \in Surjection(Preds(profile, b), InEdges(b))
    BY DEF Surjection, InEdges
  <2> HIDE DEF f
  <2> QED BY <1>3, <2>1, FS_Surjection
<1>6. ASSUME NEW e \in OutEdges(b)
      PROVE  /\ e = <<e[1], e[2]>> /\ e[1] = b /\ e[2] \in Succs(profile, b)
             /\ e[2] \in Blocks(profile) /\ Prob(e) \in 0..100
  <2>1. PICK s \in Succs(profile, b) : e = <<b, s>>
    BY DEF OutEdges
  <2> QED BY <2>1, <1>1, ProfileFacts DEF Prob
<1>7. ASSUME NEW e \in InEdges(b)
      PROVE  /\ e = <<e[1], e[2]>> /\ e[2] = b /\ e[1] \in Preds(profile, b)
             /\ e[1] \in Blocks(profile) /\ b \in Succs(profile, e[1]) /\ Prob(e) \in 0..100
  <2>1. PICK p \in Preds(profile, b) : e = <<p, b>>
    BY DEF InEdges
  <2> QED BY <2>1, ProfileFacts DEF Prob, Preds
<1> QED BY <1>4, <1>5, <1>6, <1>7

(* Where a block stands in breadth-first order.                          *)
LEMMA Positions ==
    ASSUME InputInv
    PROVE  /\ Len(bfsOrder) \in Nat
           /\ \A b \in Reachable(profile) : bfsPos(b) \in 1..Len(bfsOrder) /\ bfsOrder[bfsPos(b)] = b
           /\ \A b : b \notin Reachable(profile) => bfsPos(b) = Len(bfsOrder) + 1
<1>1. Len(bfsOrder) \in Nat /\ DOMAIN bfsOrder = 1..Len(bfsOrder)
      /\ ToSet(bfsOrder) = Reachable(profile)
  BY ProfileFacts
<1>2. \A b \in Reachable(profile) : \E k \in DOMAIN bfsOrder : bfsOrder[k] = b
  BY <1>1 DEF ToSet
<1> QED BY <1>1, <1>2 DEF bfsPos

(* What GrowForward and StopForward choose between: unless every edge is *)
(* rejected one of the hot forward edges is best.                        *)
LEMMA BestSuccessorExists ==
    ASSUME InputInv, NEW b \in Blocks(profile), BestSuccessors(b) = {}
    PROVE  Eligible(OutEdges(b), 2) = {}
<1> DEFINE E == Eligible(OutEdges(b), 2)
           Pos(e) == CHOOSE k \in DOMAIN profile.succ[b] : profile.succ[b][k] = e[2]
<1> SUFFICES ASSUME E /= {} PROVE FALSE
  OBVIOUS
<1>1. \A e \in E : Prob(e) \in 0..100 /\ Pos(e) \in Nat
  <2>1. \A e \in E : e \in OutEdges(b)
    BY DEF Eligible, Hot, Untaken
  <2>2. \A e \in E : Prob(e) \in 0..100 /\ e[2] \in Succs(profile, b)
    BY <2>1, EdgeFacts
  <2>3. profile.succ[b] \in Seq(Blocks(profile))
    BY ProfileFacts
  <2>4. \A e \in E : \E k \in DOMAIN profile.succ[b] : profile.succ[b][k] = e[2]
    BY <2>2 DEF Succs, ToSet
  <2>5. \A e \in E : Pos(e) \in DOMAIN profile.succ[b]
    BY <2>4
  <2>6. DOMAIN profile.succ[b] \subseteq Nat
    BY <2>3
  <2> QED BY <2>2, <2>5, <2>6
<1> HIDE DEF E, Pos
<1>2. PICK e \in E : \A f \in E : Prob(f) <= Prob(e)
  <2> DEFINE T == {100 - Prob(f) : f \in E}
  <2>1. T \subseteq Nat /\ T /= {}
    BY <1>1
  <2>2. PICK x \in T : \A y \in T : x <= y
    BY <2>1, Least
  <2>3. PICK g \in E : x = 100 - Prob(g)
    BY <2>2
  <2>4. \A f \in E : 100 - Prob(g) <= 100 - Prob(f)
    BY <2>2, <2>3
  <2> QED BY <2>3, <2>4, <1>1
<1>3. PICK g \in E : Prob(g) = Prob(e) /\ \A f \in E : Prob(f) = Prob(e) => Pos(g) <= Pos(f)
  <2> DEFINE T == {Pos(f) : f \in {h \in E : Prob(h) = Prob(e)}}
  <2>1. T \subseteq Nat /\ T /= {}
    BY <1>1, <1>2
  <2>2. PICK x \in T : \A y \in T : x <= y
    BY <2>1, Least
  <2>3. PICK g \in E : Prob(g) = Prob(e) /\ x = Pos(g)
    BY <2>2
  <2> QED BY <2>2, <2>3
<1>4. \A f \in E : Prob(f) < Prob(g) \/ (Prob(f) = Prob(g) /\ Pos(g) <= Pos(f))
  BY <1>1, <1>2, <1>3
<1>5. g \in BestSuccessors(b)
  BY <1>3, <1>4 DEF BestSuccessors, E, Pos
<1> QED BY <1>5

(* The same for GrowBackward and StopBackward.                           *)
LEMMA BestPredecessorExists ==
    ASSUME InputInv, NEW b \in Blocks(profile), BestPredecessors(b) = {}
    PROVE  Eligible(InEdges(b), 1) = {}
<1> DEFINE E == Eligible(InEdges(b), 1)
           T == {100 - Prob(f) : f \in E}
<1> SUFFICES ASSUME E /= {} PROVE FALSE
  OBVIOUS
<1>1. \A e \in E : Prob(e) \in 0..100
  BY EdgeFacts DEF Eligible, Hot, Untaken
<1> HIDE DEF E
<1>2. T \subseteq Nat /\ T /= {}
  BY <1>1
<1>3. PICK x \in T : \A y \in T : x <= y
  BY <1>2, Least
<1>4. PICK g \in E : x = 100 - Prob(g)
  BY <1>3
<1>5. \A f \in E : 100 - Prob(g) <= 100 - Prob(f)
  BY <1>3, <1>4
<1>6. \A f \in E : Prob(f) <= Prob(g)
  BY <1>1, <1>4, <1>5
<1> QED BY <1>4, <1>6 DEF BestPredecessors, E
-----------------------------------------------------------------------------
(* One block more at the end, or at the front, of a trace.               *)
LEMMA Appended ==
    ASSUME NEW S, NEW s \in Seq(S), NEW x \in S
    PROVE  /\ Append(s, x) \in Seq(S) /\ Append(s, x) /= <<>>
           /\ Len(Append(s, x)) = Len(s) + 1 /\ Append(s, x)[Len(s) + 1] = x
           /\ \A i \in 1..Len(s) : Append(s, x)[i] = s[i]
           /\ ToSet(Append(s, x)) = ToSet(s) \cup {x}
           /\ IsInjective(s) /\ x \notin ToSet(s) => IsInjective(Append(s, x))
<1>1. /\ Append(s, x) \in Seq(S) /\ Append(s, x) /= <<>>
      /\ Len(Append(s, x)) = Len(s) + 1 /\ Append(s, x)[Len(s) + 1] = x
      /\ \A i \in 1..Len(s) : Append(s, x)[i] = s[i]
  OBVIOUS
<1>2. DOMAIN Append(s, x) = 1..(Len(s) + 1) /\ DOMAIN s = 1..Len(s)
  OBVIOUS
<1>3. ToSet(Append(s, x)) = ToSet(s) \cup {x}
  BY <1>1, <1>2 DEF ToSet
<1>4. IsInjective(s) /\ x \notin ToSet(s) => IsInjective(Append(s, x))
  BY <1>1, <1>2 DEF ToSet, IsInjective
<1> QED BY <1>1, <1>3, <1>4

(* A trace with one block more at the front.                             *)
LEMMA Prepended ==
    ASSUME NEW S, NEW s \in Seq(S), NEW x \in S
    PROVE  /\ <<x>> \o s \in Seq(S) /\ <<x>> \o s /= <<>>
           /\ Len(<<x>> \o s) = Len(s) + 1 /\ (<<x>> \o s)[1] = x
           /\ \A i \in 1..Len(s) : (<<x>> \o s)[i + 1] = s[i]
           /\ ToSet(<<x>> \o s) = ToSet(s) \cup {x}
           /\ IsInjective(s) /\ x \notin ToSet(s) => IsInjective(<<x>> \o s)
<1> DEFINE r == <<x>> \o s
<1>1. /\ r \in Seq(S) /\ Len(r) = Len(s) + 1 /\ Len(s) \in Nat /\ r[1] = x
      /\ \A i \in 1..Len(s) : r[i + 1] = s[i]
  OBVIOUS
<1> HIDE DEF r
<1>2. DOMAIN r = 1..(Len(s) + 1) /\ DOMAIN s = 1..Len(s) /\ r /= <<>>
  BY <1>1
<1>3. \A j \in DOMAIN r : j /= 1 => j - 1 \in DOMAIN s /\ r[j] = s[j - 1]
  BY <1>1, <1>2
<1>4. \A i \in DOMAIN s : i + 1 \in DOMAIN r /\ r[i + 1] = s[i] /\ 1 \in DOMAIN r
  BY <1>1, <1>2
<1>5. ToSet(r) = ToSet(s) \cup {x}
  <2>1. \A y \in ToSet(r) : y \in ToSet(s) \cup {x}
    BY <1>1, <1>3 DEF ToSet
  <2>2. \A y \in ToSet(s) \cup {x} : y \in ToSet(r)
    BY <1>1, <1>2, <1>4 DEF ToSet
  <2> QED BY <2>1, <2>2
<1>6. IsInjective(s) /\ x \notin ToSet(s) => IsInjective(r)
  <2> SUFFICES ASSUME IsInjective(s), x \notin ToSet(s),
                      NEW j \in DOMAIN r, NEW k \in DOMAIN r, r[j] = r[k]
               PROVE  j = k
    BY DEF IsInjective
  <2>1. j \in Int /\ k \in Int
    BY <1>1, <1>2
  <2>2. CASE j = 1 \/ k = 1
    BY <2>2, <1>1, <1>3 DEF ToSet
  <2>3. CASE j /= 1 /\ k /= 1
    BY <2>1, <2>3, <1>3 DEF IsInjective
  <2> QED BY <2>2, <2>3
<1> QED BY <1>1, <1>2, <1>5, <1>6 DEF r

(* A block that is taken, forward or backward.                           *)
LEMMA GrownForward ==
    ASSUME InputInv, visited \subseteq Reachable(profile), current \in visited,
           NEW e \in BestSuccessors(current)
    PROVE  e = <<current, e[2]>> /\ e[2] \in Reachable(profile) \ visited /\ e \in HotForward
<1>1. e \in OutEdges(current) /\ e[2] \notin visited /\ Prob(e) > Threshold
      /\ ~(bfsPos(e[2]) < bfsPos(e[1]))
  BY DEF BestSuccessors, Eligible, Hot, Untaken, Backward
<1>2. current \in Blocks(profile)
  BY ProfileFacts
<1>3. e = <<current, e[2]>> /\ e[2] \in Reachable(profile) /\ e[2] /= current
  BY <1>1, <1>2, EdgeFacts, ProfileFacts
<1>4. /\ bfsPos(current) \in 1..Len(bfsOrder) /\ bfsPos(e[2]) \in 1..Len(bfsOrder)
      /\ bfsPos(current) /= bfsPos(e[2]) /\ Len(bfsOrder) \in Nat
  BY <1>3, Positions
<1>5. bfsPos(e[1]) < bfsPos(e[2])
  BY <1>1, <1>3, <1>4
<1> QED BY <1>1, <1>2, <1>3, <1>5 DEF HotForward, Edges

(* A block that GrowBackward takes.                                      *)
LEMMA GrownBackward ==
    ASSUME InputInv, visited \subseteq Reachable(profile), current \in visited,
           NEW e \in BestPredecessors(current)
    PROVE  e = <<e[1], current>> /\ e[1] \in Reachable(profile) \ visited /\ e \in HotForward
<1>1. e \in InEdges(current) /\ e[1] \notin visited /\ Prob(e) > Threshold
      /\ ~(bfsPos(e[2]) < bfsPos(e[1]))
  BY DEF BestPredecessors, Eligible, Hot, Untaken, Backward
<1>2. current \in Blocks(profile)
  BY ProfileFacts
<1>3. e = <<e[1], current>> /\ e[1] \in Blocks(profile) /\ e[2] \in Succs(profile, e[1])
      /\ e[1] /= current
  BY <1>1, <1>2, EdgeFacts
<1>4. bfsPos(current) \in 1..Len(bfsOrder) /\ Len(bfsOrder) \in Nat
  BY Positions
<1>5. e[1] \in Reachable(profile)
  BY <1>1, <1>3, <1>4, Positions
<1>6. bfsPos(e[1]) \in 1..Len(bfsOrder) /\ bfsPos(e[1]) /= bfsPos(current)
  BY <1>3, <1>5, Positions
<1>7. bfsPos(e[1]) < bfsPos(e[2])
  BY <1>1, <1>3, <1>4, <1>6
<1>8. e \in OutEdges(e[1])
  BY <1>3 DEF OutEdges
<1> QED BY <1>1, <1>3, <1>5, <1>7, <1>8 DEF HotForward, Edges

(* Where growth stops, every edge to or from a block that is left is     *)
(* rejected.                                                             *)
LEMMA StoppedForward ==
    ASSUME InputInv, current \in Blocks(profile), BestSuccessors(current) = {},
           NEW c \in Succs(profile, current), c \notin visited
    PROVE  <<current, c>> \in Rejected
<1> DEFINE e == <<current, c>>
<1>1. e \in Untaken(OutEdges(current), 2) /\ e \in Edges
  BY DEF OutEdges, Untaken, Edges
<1>2. e \notin Eligible(OutEdges(current), 2)
  BY BestSuccessorExists
<1>3. Prob(e) \in 0..100 /\ Threshold \in 1..100
  BY <1>1, EdgeFacts, ThresholdAssumption DEF Untaken
<1> QED BY <1>1, <1>2, <1>3 DEF Eligible, Hot, Rejected, Backward, Untaken

(* The same where backward growth stops.                                 *)
LEMMA StoppedBackward ==
    ASSUME InputInv, current \in Blocks(profile), BestPredecessors(current) = {},
           NEW c \in Preds(profile, current), c \notin visited
    PROVE  <<c, current>> \in Rejected
<1> DEFINE e == <<c, current>>
<1>1. e \in Untaken(InEdges(current), 1)
  BY DEF InEdges, Untaken
<1>2. e \in Edges
  BY DEF OutEdges, Edges, Preds
<1>3. e \notin Eligible(InEdges(current), 1)
  BY BestPredecessorExists
<1>4. Prob(e) \in 0..100 /\ Threshold \in 1..100
  BY <1>1, EdgeFacts, ThresholdAssumption DEF Untaken
<1> QED BY <1>1, <1>2, <1>3, <1>4 DEF Eligible, Hot, Rejected, Backward, Untaken

(* The function and what was computed of it up front never change.       *)
LEMMA InputUnchanged ==
    ASSUME [Next]_vars
    PROVE  /\ profile' = profile /\ bfsOrder' = bfsOrder /\ byFreqDesc' = byFreqDesc
           /\ HotForward' = HotForward /\ Rejected' = Rejected
<1>1. profile' = profile /\ bfsOrder' = bfsOrder /\ byFreqDesc' = byFreqDesc
  BY DEF Next, vars, PickSeed, GrowForward, StopForward, GrowBackward, StopBackward, Return
<1>2. HotForward' = HotForward
  BY <1>1 DEF HotForward, Edges, OutEdges, Prob, bfsPos
<1>3. Rejected' = Rejected
  BY <1>1 DEF Rejected, Edges, OutEdges, Prob, bfsPos
<1> QED BY <1>1, <1>2, <1>3
-----------------------------------------------------------------------------
(* The seed that is picked: the first block of byFreqDesc that is left.  *)
LEMMA Picked ==
    ASSUME IInv, PickSeed
    PROVE  /\ seedCursor' \in DOMAIN byFreqDesc /\ current' = byFreqDesc[seedCursor']
           /\ current' \in Reachable(profile) \ visited
           /\ trace' = <<current'>> /\ visited' = visited \cup {current'}
           /\ \A k \in 1..(seedCursor' - 1) : byFreqDesc[k] \in visited
           /\ \A c \in Reachable(profile) \ visited : profile.freq[c] <= profile.freq[current']
<1>1. /\ byFreqDesc \in Seq(Reachable(profile)) /\ ToSet(byFreqDesc) = Reachable(profile)
      /\ DOMAIN byFreqDesc = 1..Len(byFreqDesc) /\ Len(byFreqDesc) \in Nat
      /\ \A b \in Reachable(profile) : profile.freq[b] \in Nat
      /\ \A j, k \in DOMAIN byFreqDesc :
            j < k => profile.freq[byFreqDesc[k]] <= profile.freq[byFreqDesc[j]]
  BY ProfileFacts DEF IInv
<1>2. seedCursor \in Nat \ {0} /\ \A k \in 1..(seedCursor - 1) : byFreqDesc[k] \in visited
  BY <1>1 DEF IInv, TypeOK, VisitedInv
<1>3. PICK k \in Unvisited : HasSeed(k) /\ seedCursor' = k /\ trace' = <<byFreqDesc[k]>>
                             /\ visited' = visited \cup {byFreqDesc[k]}
                             /\ current' = byFreqDesc[k]
  BY DEF PickSeed
<1>4. k \in seedCursor..Len(byFreqDesc) /\ byFreqDesc[k] \notin visited
      /\ \A j \in Unvisited : k <= j
  BY <1>3 DEF Unvisited, HasSeed
<1>5. k \in DOMAIN byFreqDesc /\ byFreqDesc[k] \in Reachable(profile)
  BY <1>1, <1>2, <1>4
<1>6. \A j \in DOMAIN byFreqDesc : byFreqDesc[j] \notin visited => k <= j
  BY <1>1, <1>2, <1>4 DEF Unvisited
<1>7. \A j \in 1..(k - 1) : byFreqDesc[j] \in visited
  BY <1>1, <1>5, <1>6
<1>8. ASSUME NEW c \in Reachable(profile) \ visited
      PROVE  profile.freq[c] <= profile.freq[byFreqDesc[k]]
  <2>1. PICK j \in DOMAIN byFreqDesc : byFreqDesc[j] = c
    BY <1>1 DEF ToSet
  <2>2. k <= j
    BY <1>6, <2>1
  <2> QED BY <1>1, <1>5, <2>1, <2>2
<1> QED BY <1>3, <1>4, <1>5, <1>7, <1>8

(* Growing, the block grown from is in the trace.                        *)
LEMMA CurrentPlaced ==
    ASSUME IInv, Growing
    PROVE  /\ current \in ToSet(trace) /\ current \in visited /\ current \in Reachable(profile)
           /\ current \in Blocks(profile) /\ trace \in Seq(Blocks(profile)) /\ Len(trace) \in Nat \ {0}
           /\ DOMAIN trace = 1..Len(trace) /\ visited = Placed(Len(traces)) \cup ToSet(trace)
<1>1. trace \in Seq(Blocks(profile)) /\ trace /= <<>>
  BY DEF IInv, TypeOK, GrowthInv
<1>2. Len(trace) \in Nat \ {0} /\ DOMAIN trace = 1..Len(trace)
  BY <1>1
<1>3. current = trace[Len(trace)] \/ current = trace[1]
  BY DEF IInv, GrowthInv, Growing
<1>4. current \in ToSet(trace)
  BY <1>2, <1>3 DEF ToSet
<1>5. visited = Placed(Len(traces)) \cup ToSet(trace) /\ visited \subseteq Reachable(profile)
  BY DEF IInv, VisitedInv
<1>6. Reachable(profile) \subseteq Blocks(profile)
  BY ProfileFacts DEF IInv
<1> QED BY <1>1, <1>2, <1>4, <1>5, <1>6

(* Edges are listed finitely often, and more edges more often.           *)
LEMMA ListedFacts ==
    ASSUME InputInv, NEW b \in Blocks(profile), NEW edges,
           edges \in {OutEdges(b), InEdges(b)}, NEW some \in SUBSET edges
    PROVE  /\ IsFiniteSet(Listed(some)) /\ Times(some) \in Nat
           /\ \A fewer \in SUBSET some :
                 /\ Times(fewer) <= Times(some)
                 /\ fewer /= some => Times(fewer) < Times(some)
<1> DEFINE at(e) == {k \in DOMAIN profile.succ[e[1]] : profile.succ[e[1]][k] = e[2]}
           f == [e \in some |-> {e} \X at(e)]
           parts == {{e} \X at(e) : e \in some}
<1>1. ASSUME NEW e \in some
      PROVE  IsFiniteSet(at(e)) /\ at(e) /= {}
  <2>1. e[1] \in Blocks(profile) /\ e[2] \in Succs(profile, e[1])
    BY EdgeFacts
  <2>2. profile.succ[e[1]] \in Seq(Blocks(profile))
    BY <2>1, ProfileFacts
  <2>3. Len(profile.succ[e[1]]) \in Nat /\ at(e) \subseteq 1..Len(profile.succ[e[1]])
    BY <2>2
  <2>4. IsFiniteSet(1..Len(profile.succ[e[1]]))
    BY <2>3, FS_Interval
  <2>5. at(e) /= {}
    BY <2>1 DEF Succs, ToSet
  <2> HIDE DEF at
  <2> QED BY <2>3, <2>4, <2>5, FS_Subset
<1>2. IsFiniteSet(some)
  BY EdgeFacts, FS_Subset
<1> HIDE DEF at
<1>3. IsFiniteSet(parts)
  <2>1. f \in Surjection(some, parts)
    BY DEF Surjection
  <2> HIDE DEF f, parts
  <2> QED BY <1>2, <2>1, FS_Surjection
<1>4. \A T \in parts : IsFiniteSet(T)
  <2> SUFFICES ASSUME NEW e \in some PROVE IsFiniteSet({e} \X at(e))
    OBVIOUS
  <2> QED BY <1>1, FS_Singleton, FS_Product
<1>5. Listed(some) = UNION parts
  BY DEF Listed, at
<1>6. IsFiniteSet(Listed(some)) /\ Times(some) \in Nat
  <2> HIDE DEF parts
  <2> QED BY <1>3, <1>4, <1>5, FS_UNION, FS_CardinalityType DEF Times
<1>7. ASSUME NEW fewer \in SUBSET some
      PROVE  Times(fewer) <= Times(some) /\ (fewer /= some => Times(fewer) < Times(some))
  <2>1. Listed(fewer) \subseteq Listed(some)
    BY DEF Listed
  <2>2. ASSUME fewer /= some PROVE Listed(fewer) /= Listed(some)
    <3>1. PICK e \in some : e \notin fewer
      BY <2>2
    <3>2. PICK k \in at(e) : TRUE
      BY <1>1, <3>1
    <3>3. <<e, k>> \in Listed(some) /\ <<e, k>> \notin Listed(fewer)
      BY <3>1, <3>2 DEF Listed, at
    <3> QED BY <3>3
  <2> QED BY <1>6, <2>1, <2>2, FS_Subset, FS_CardinalityType DEF Times
<1> QED BY <1>6, <1>7

(* The statistics stay numbers.                                          *)
LEMMA CountedType ==
    ASSUME TypeOK, InputInv, NEW b \in Blocks(profile), NEW edges, NEW far,
           edges \in {OutEdges(b), InEdges(b)}
    PROVE  Counted(edges, far) \in [{"above", "below", "backedge"} -> Nat]
<1> DEFINE tested == Untaken(edges, far)
<1>1. tested \subseteq edges /\ Hot(tested) \subseteq tested
  BY DEF Untaken, Hot
<1>2. /\ Times(Hot(tested)) \in Nat /\ Times(tested \ Hot(tested)) \in Nat
      /\ Times(Hot(tested) \cap Backward(edges)) \in Nat
  <2> HIDE DEF tested
  <2> QED BY <1>1, ListedFacts
<1>3. stats \in [{"above", "below", "backedge"} -> Nat]
  BY DEF TypeOK
<1>4. Counted(edges, far) = [above |-> stats.above + Times(Hot(tested)),
         below |-> stats.below + Times(tested \ Hot(tested)),
         backedge |-> stats.backedge + Times(Hot(tested) \cap Backward(edges))]
  BY DEF Counted
<1> HIDE DEF tested
<1> QED BY <1>2, <1>3, <1>4

(* Every step keeps the types.                                           *)
LEMMA TypeStep == IInv /\ [Next]_vars => TypeOK'
<1> SUFFICES ASSUME IInv, [Next]_vars PROVE TypeOK'
  OBVIOUS
<1>1. /\ TypeOK /\ InputInv /\ profile' = profile /\ byFreqDesc' = byFreqDesc
      /\ Reachable(profile) \subseteq Blocks(profile) /\ Len(byFreqDesc) \in Nat
      /\ DOMAIN byFreqDesc = 1..Len(byFreqDesc) /\ byFreqDesc \in Seq(Reachable(profile))
  BY ProfileFacts, InputUnchanged DEF IInv
<1>2. CASE PickSeed
  <2>1. /\ seedCursor' \in 1..Len(byFreqDesc) /\ current' \in Blocks(profile)
        /\ trace' = <<current'>> /\ visited' = visited \cup {current'}
    BY <1>1, <1>2, Picked
  <2>2. trace' \in Seq(Blocks(profile))
    BY <2>1
  <2> QED BY <1>1, <1>2, <2>1, <2>2 DEF PickSeed, TypeOK
<1>3. CASE GrowForward
  <2>1. Growing /\ current \in Blocks(profile) /\ trace \in Seq(Blocks(profile))
    BY <1>3, CurrentPlaced DEF GrowForward, Growing
  <2>2. PICK e \in BestSuccessors(current) :
          /\ trace' = Append(trace, e[2]) /\ current' = e[2]
          /\ visited' = visited \cup {e[2]}
    BY <1>3 DEF GrowForward
  <2>3. e[2] \in Blocks(profile)
    BY <1>1, <2>1, EdgeFacts DEF BestSuccessors, Eligible, Hot, Untaken
  <2>4. trace' \in Seq(Blocks(profile))
    BY <2>1, <2>2, <2>3
  <2>5. stats' \in [{"above", "below", "backedge"} -> Nat]
    BY <1>1, <1>3, <2>1, CountedType DEF GrowForward
  <2> QED BY <1>1, <1>3, <2>2, <2>3, <2>4, <2>5 DEF GrowForward, TypeOK
<1>4. CASE StopForward
  <2>1. /\ Growing /\ current \in Blocks(profile) /\ seedCursor \in DOMAIN byFreqDesc
    BY <1>4, CurrentPlaced DEF StopForward, Growing, IInv, GrowthInv
  <2>2. byFreqDesc[seedCursor] \in Blocks(profile)
    BY <1>1, <2>1
  <2>3. stats' \in [{"above", "below", "backedge"} -> Nat]
    BY <1>1, <1>4, <2>1, CountedType DEF StopForward
  <2> QED BY <1>1, <1>4, <2>2, <2>3 DEF StopForward, TypeOK
<1>5. CASE GrowBackward
  <2>1. Growing /\ current \in Blocks(profile) /\ trace \in Seq(Blocks(profile))
    BY <1>5, CurrentPlaced DEF GrowBackward, Growing
  <2>2. PICK e \in BestPredecessors(current) :
          /\ trace' = <<e[1]>> \o trace /\ current' = e[1]
          /\ visited' = visited \cup {e[1]}
    BY <1>5 DEF GrowBackward
  <2>3. e[1] \in Blocks(profile)
    BY <1>1, <2>1, EdgeFacts DEF BestPredecessors, Eligible, Hot, Untaken
  <2>4. trace' \in Seq(Blocks(profile))
    BY <2>1, <2>2, <2>3
  <2>5. stats' \in [{"above", "below", "backedge"} -> Nat]
    BY <1>1, <1>5, <2>1, CountedType DEF GrowBackward
  <2> QED BY <1>1, <1>5, <2>2, <2>3, <2>4, <2>5 DEF GrowBackward, TypeOK
<1>6. CASE StopBackward
  <2>1. Growing /\ current \in Blocks(profile) /\ trace \in Seq(Blocks(profile))
    BY <1>6, CurrentPlaced DEF StopBackward, Growing
  <2>2. traces' \in Seq(Seq(Blocks(profile)))
    BY <1>1, <1>6, <2>1 DEF StopBackward, TypeOK
  <2>3. stats' \in [{"above", "below", "backedge"} -> Nat]
    BY <1>1, <1>6, <2>1, CountedType DEF StopBackward
  <2> QED BY <1>1, <1>6, <2>2, <2>3 DEF StopBackward, TypeOK
<1>7. CASE Return
  BY <1>1, <1>7 DEF Return, TypeOK
<1>8. CASE UNCHANGED vars
  BY <1>1, <1>8 DEF vars, TypeOK
<1> QED BY <1>2, <1>3, <1>4, <1>5, <1>6, <1>7, <1>8 DEF Next
-----------------------------------------------------------------------------
(* When no block can be a seed any more, every block reached is visited. *)
LEMMA NothingLeft ==
    ASSUME IInv, Return
    PROVE  Reachable(profile) \subseteq visited
<1>1. /\ byFreqDesc \in Seq(Reachable(profile)) /\ ToSet(byFreqDesc) = Reachable(profile)
      /\ DOMAIN byFreqDesc = 1..Len(byFreqDesc) /\ Len(byFreqDesc) \in Nat
      /\ \A b \in Reachable(profile) : profile.freq[b] \in Nat \ {0}
  BY ProfileFacts DEF IInv
<1>2. seedCursor \in Nat \ {0} /\ \A k \in 1..(seedCursor - 1) : byFreqDesc[k] \in visited
  BY <1>1 DEF IInv, TypeOK, VisitedInv
<1>3. Unvisited \subseteq DOMAIN byFreqDesc /\ Unvisited \subseteq Nat
  BY <1>1, <1>2 DEF Unvisited
<1>4. Unvisited = {}
  <2> SUFFICES ASSUME Unvisited /= {} PROVE FALSE
    OBVIOUS
  <2>1. PICK k \in Unvisited : \A j \in Unvisited : k <= j
    BY <1>3, Least
  <2>2. byFreqDesc[k] \in Reachable(profile)
    BY <1>1, <1>3
  <2>3. HasSeed(k)
    BY <1>1, <2>1, <2>2 DEF HasSeed
  <2> QED BY <2>3 DEF Return
<1>5. \A k \in DOMAIN byFreqDesc : byFreqDesc[k] \in visited
  BY <1>1, <1>2, <1>4 DEF Unvisited
<1> QED BY <1>1, <1>5 DEF ToSet

(* The blocks of finished traces do not change while a trace grows.      *)
LEMMA PlacedUnchanged ==
    ASSUME profile' = profile, traces' = traces
    PROVE  Placed(Len(traces))' = Placed(Len(traces))
  BY DEF Placed

(* A trace that is finished: the others, and the blocks they hold, stay. *)
LEMMA PlacedMore ==
    ASSUME TypeOK, profile' = profile, traces' = Append(traces, trace)
    PROVE  /\ Len(traces) \in Nat /\ Len(traces') = Len(traces) + 1
           /\ DOMAIN traces = 1..Len(traces) /\ DOMAIN traces' = 1..(Len(traces) + 1)
           /\ \A t \in 1..Len(traces) : traces'[t] = traces[t]
           /\ traces'[Len(traces) + 1] = trace
           /\ Placed(Len(traces))' = Placed(Len(traces)) \cup ToSet(trace)
<1>1. traces \in Seq(Seq(Blocks(profile))) /\ trace \in Seq(Blocks(profile))
  BY DEF TypeOK
<1>2. /\ Len(traces) \in Nat /\ Len(traces') = Len(traces) + 1
      /\ DOMAIN traces = 1..Len(traces) /\ DOMAIN traces' = 1..(Len(traces) + 1)
      /\ \A t \in 1..Len(traces) : traces'[t] = traces[t]
      /\ traces'[Len(traces) + 1] = trace
  BY <1>1
<1>3. ToSet(trace) \subseteq Blocks(profile)
  BY <1>1 DEF ToSet
<1>4. Placed(Len(traces))' =
        {b \in Blocks(profile) : \E u \in 1..(Len(traces) + 1) : b \in ToSet(traces'[u])}
  BY <1>2 DEF Placed
<1>5. \A b : (\E u \in 1..(Len(traces) + 1) : b \in ToSet(traces'[u]))
             <=> b \in ToSet(trace) \/ \E u \in 1..Len(traces) : b \in ToSet(traces[u])
  <2>1. \A u \in 1..(Len(traces) + 1) : u = Len(traces) + 1 \/ u \in 1..Len(traces)
    BY <1>2
  <2>2. Len(traces) + 1 \in 1..(Len(traces) + 1)
        /\ \A u \in 1..Len(traces) : u \in 1..(Len(traces) + 1)
    BY <1>2
  <2> QED BY <1>2, <2>1, <2>2
<1> QED BY <1>2, <1>3, <1>4, <1>5 DEF Placed

(* Every step keeps the visited blocks those of the traces.              *)
LEMMA VisitedStep == IInv /\ [Next]_vars => VisitedInv'
<1> SUFFICES ASSUME IInv, [Next]_vars PROVE VisitedInv'
  OBVIOUS
<1>1. /\ VisitedInv /\ profile' = profile /\ byFreqDesc' = byFreqDesc
      /\ InputInv /\ Reachable(profile) \subseteq Blocks(profile)
  BY ProfileFacts, InputUnchanged DEF IInv
<1>2. CASE PickSeed
  <2>1. /\ pc' = "forward" /\ ~Growing /\ traces' = traces
    BY <1>2 DEF PickSeed, Growing
  <2>2. Placed(Len(traces))' = Placed(Len(traces))
    BY <1>1, <2>1, PlacedUnchanged
  <2>3. /\ current' \in Reachable(profile) /\ visited' = visited \cup {current'}
        /\ trace' = <<current'>> /\ \A k \in 1..(seedCursor' - 1) : byFreqDesc[k] \in visited
    BY <1>2, Picked
  <2>4. ToSet(trace') = {current'}
    BY <2>3 DEF ToSet
  <2> QED BY <1>1, <2>1, <2>2, <2>3, <2>4 DEF VisitedInv, Growing
<1>3. CASE GrowForward
  <2>1. Growing /\ current \in visited /\ trace \in Seq(Blocks(profile))
    BY <1>3, CurrentPlaced DEF GrowForward, Growing
  <2>2. PICK e \in BestSuccessors(current) :
          /\ trace' = Append(trace, e[2]) /\ visited' = visited \cup {e[2]}
    BY <1>3 DEF GrowForward
  <2>3. e[2] \in Reachable(profile)
    BY <1>1, <2>1, <2>2, GrownForward DEF VisitedInv
  <2>4. ToSet(trace') = ToSet(trace) \cup {e[2]}
    BY <1>1, <2>1, <2>2, <2>3, Appended
  <2>5. pc' = "forward" /\ pc = "forward" /\ traces' = traces /\ seedCursor' = seedCursor
    BY <1>3 DEF GrowForward
  <2>6. Placed(Len(traces))' = Placed(Len(traces))
    BY <1>1, <2>5, PlacedUnchanged
  <2> QED BY <1>1, <2>2, <2>3, <2>4, <2>5, <2>6 DEF VisitedInv, Growing
<1>4. CASE StopForward
  <2>1. Placed(Len(traces))' = Placed(Len(traces))
    BY <1>1, <1>4, PlacedUnchanged DEF StopForward
  <2> QED BY <1>1, <1>4, <2>1 DEF VisitedInv, Growing, StopForward
<1>5. CASE GrowBackward
  <2>1. Growing /\ current \in visited /\ trace \in Seq(Blocks(profile))
    BY <1>5, CurrentPlaced DEF GrowBackward, Growing
  <2>2. PICK e \in BestPredecessors(current) :
          /\ trace' = <<e[1]>> \o trace /\ visited' = visited \cup {e[1]}
    BY <1>5 DEF GrowBackward
  <2>3. e[1] \in Reachable(profile)
    BY <1>1, <2>1, <2>2, GrownBackward DEF VisitedInv
  <2>4. ToSet(trace') = ToSet(trace) \cup {e[1]}
    BY <1>1, <2>1, <2>2, <2>3, Prepended
  <2>5. pc' = "backward" /\ pc = "backward" /\ traces' = traces /\ seedCursor' = seedCursor
    BY <1>5 DEF GrowBackward
  <2>6. Placed(Len(traces))' = Placed(Len(traces))
    BY <1>1, <2>5, PlacedUnchanged
  <2> QED BY <1>1, <2>2, <2>3, <2>4, <2>5, <2>6 DEF VisitedInv, Growing
<1>6. CASE StopBackward
  <2>1. Growing /\ pc' = "seed" /\ visited' = visited /\ traces' = Append(traces, trace)
        /\ seedCursor' = seedCursor
    BY <1>6 DEF StopBackward, Growing
  <2>2. Placed(Len(traces))' = Placed(Len(traces)) \cup ToSet(trace)
    BY <1>1, <2>1, PlacedMore DEF IInv
  <2> QED BY <1>1, <2>1, <2>2 DEF VisitedInv, Growing
<1>7. CASE Return
  <2>1. Placed(Len(traces))' = Placed(Len(traces))
    BY <1>1, <1>7, PlacedUnchanged DEF Return
  <2> QED BY <1>1, <1>7, <2>1, NothingLeft DEF VisitedInv, Growing, Return
<1>8. CASE UNCHANGED vars
  <2>1. Placed(Len(traces))' = Placed(Len(traces))
    BY <1>1, <1>8, PlacedUnchanged DEF vars
  <2> QED BY <1>1, <1>8, <2>1 DEF VisitedInv, Growing, vars
<1> QED BY <1>2, <1>3, <1>4, <1>5, <1>6, <1>7, <1>8 DEF Next

(* Every step keeps the growing trace a hot path around its seed.        *)
LEMMA GrowthStep == IInv /\ [Next]_vars => GrowthInv'
<1> SUFFICES ASSUME IInv, [Next]_vars PROVE GrowthInv'
  OBVIOUS
<1>1. /\ profile' = profile /\ byFreqDesc' = byFreqDesc
      /\ InputInv /\ Reachable(profile) \subseteq Blocks(profile)
      /\ HotForward' = HotForward /\ Rejected' = Rejected
      /\ visited \subseteq Reachable(profile)
      /\ \A b \in Reachable(profile) : profile.freq[b] \in Nat
  BY ProfileFacts, InputUnchanged DEF IInv, VisitedInv
<1>2. CASE PickSeed
  <2>1. pc' = "forward" /\ ~Growing /\ traces' = traces
    BY <1>2 DEF PickSeed, Growing
  <2>2. Placed(Len(traces))' = Placed(Len(traces)) /\ visited = Placed(Len(traces))
    BY <1>1, <2>1, PlacedUnchanged DEF IInv, VisitedInv
  <2>3. /\ seedCursor' \in DOMAIN byFreqDesc /\ current' = byFreqDesc[seedCursor']
        /\ current' \in Reachable(profile) \ visited /\ trace' = <<current'>>
        /\ \A c \in Reachable(profile) \ visited : profile.freq[c] <= profile.freq[current']
    BY <1>2, Picked
  <2>4. /\ ToSet(trace') = {current'} /\ trace' /= <<>> /\ IsInjective(trace')
        /\ Len(trace') = 1 /\ trace'[1] = current'
    BY <2>3 DEF ToSet, IsInjective
  <2>5. IsHotPath(trace)'
    BY <2>4 DEF IsHotPath
  <2> QED BY <1>1, <2>1, <2>2, <2>3, <2>4, <2>5 DEF GrowthInv
<1>3. CASE GrowForward
  <2>1. /\ Growing /\ current \in visited /\ trace \in Seq(Blocks(profile)) /\ GrowthInv
        /\ Len(trace) \in Nat \ {0} /\ visited = Placed(Len(traces)) \cup ToSet(trace)
        /\ pc = "forward" /\ pc' = "forward" /\ traces' = traces /\ seedCursor' = seedCursor
        /\ current = trace[Len(trace)]
    BY <1>3, CurrentPlaced DEF GrowForward, Growing, GrowthInv, IInv
  <2>2. PICK e \in BestSuccessors(current) : trace' = Append(trace, e[2]) /\ current' = e[2]
    BY <1>3 DEF GrowForward
  <2>3. e = <<current, e[2]>> /\ e[2] \in Reachable(profile) \ visited /\ e \in HotForward
    BY <1>1, <2>1, <2>2, GrownForward
  <2>4. /\ trace' /= <<>> /\ IsInjective(trace') /\ ToSet(trace') = ToSet(trace) \cup {e[2]}
        /\ Len(trace') = Len(trace) + 1 /\ trace'[Len(trace) + 1] = e[2]
        /\ \A k \in 1..Len(trace) : trace'[k] = trace[k]
    BY <1>1, <2>1, <2>2, <2>3, Appended DEF GrowthInv
  <2>5. IsHotPath(trace)'
    <3> SUFFICES ASSUME NEW k \in 1..(Len(trace') - 1)
                 PROVE  <<trace'[k], trace'[k+1]>> \in HotForward
      BY <1>1 DEF IsHotPath
    <3>1. CASE k = Len(trace)
      BY <2>1, <2>2, <2>3, <2>4, <3>1
    <3>2. CASE k /= Len(trace)
      <4>1. k \in 1..(Len(trace) - 1) /\ trace'[k] = trace[k] /\ trace'[k+1] = trace[k+1]
        BY <2>1, <2>4, <3>2
      <4> QED BY <2>1, <4>1 DEF GrowthInv, IsHotPath
    <3> QED BY <3>1, <3>2
  <2>6. Placed(Len(traces))' = Placed(Len(traces))
    BY <1>1, <2>1, PlacedUnchanged
  <2>7. trace'[1] = trace[1] /\ current' = trace'[Len(trace')]
    BY <2>1, <2>2, <2>4
  <2> QED BY <1>1, <2>1, <2>3, <2>4, <2>5, <2>6, <2>7 DEF GrowthInv
<1>4. CASE StopForward
  <2>1. /\ Growing /\ GrowthInv /\ current \in Blocks(profile)
        /\ pc = "forward" /\ pc' = "backward" /\ current = trace[Len(trace)]
        /\ current' = trace[1] /\ BestSuccessors(current) = {}
        /\ UNCHANGED <<traces, trace, visited, seedCursor>>
    BY <1>4, CurrentPlaced DEF StopForward, Growing, GrowthInv, IInv
  <2>2. \A c \in Succs(profile, current) \ visited : <<current, c>> \in Rejected
    BY <1>1, <2>1, StoppedForward
  <2>3. Placed(Len(traces))' = Placed(Len(traces))
    BY <1>1, <2>1, PlacedUnchanged
  <2>4. IsHotPath(trace)'
    BY <1>1, <2>1 DEF GrowthInv, IsHotPath
  <2> QED BY <1>1, <2>1, <2>2, <2>3, <2>4 DEF GrowthInv
<1>5. CASE GrowBackward
  <2>1. /\ Growing /\ current \in visited /\ trace \in Seq(Blocks(profile)) /\ GrowthInv
        /\ Len(trace) \in Nat \ {0} /\ visited = Placed(Len(traces)) \cup ToSet(trace)
        /\ pc = "backward" /\ pc' = "backward" /\ traces' = traces /\ seedCursor' = seedCursor
        /\ current = trace[1]
    BY <1>5, CurrentPlaced DEF GrowBackward, Growing, GrowthInv, IInv
  <2>2. PICK e \in BestPredecessors(current) :
          trace' = <<e[1]>> \o trace /\ current' = e[1] /\ visited' = visited \cup {e[1]}
    BY <1>5 DEF GrowBackward
  <2>3. e = <<e[1], current>> /\ e[1] \in Reachable(profile) \ visited /\ e \in HotForward
    BY <1>1, <2>1, <2>2, GrownBackward
  <2>4. /\ trace' /= <<>> /\ IsInjective(trace') /\ ToSet(trace') = ToSet(trace) \cup {e[1]}
        /\ Len(trace') = Len(trace) + 1 /\ trace'[1] = e[1]
        /\ \A k \in 1..Len(trace) : trace'[k + 1] = trace[k]
    BY <1>1, <2>1, <2>2, <2>3, Prepended DEF GrowthInv
  <2>5. IsHotPath(trace)'
    <3> SUFFICES ASSUME NEW k \in 1..(Len(trace') - 1)
                 PROVE  <<trace'[k], trace'[k+1]>> \in HotForward
      BY <1>1 DEF IsHotPath
    <3>1. CASE k = 1
      <4>1. trace'[k] = e[1] /\ trace'[k+1] = current
        BY <2>1, <2>4, <3>1
      <4> QED BY <2>3, <4>1
    <3>2. CASE k /= 1
      <4>1. k - 1 \in 1..(Len(trace) - 1) /\ (k - 1) + 1 = k
        BY <2>1, <2>4, <3>2
      <4>2. trace'[k] = trace[k-1] /\ trace'[k+1] = trace[k]
        BY <2>1, <2>4, <4>1
      <4>3. <<trace[k-1], trace[(k-1)+1]>> \in HotForward
        BY <2>1, <4>1 DEF GrowthInv, IsHotPath
      <4> QED BY <4>1, <4>2, <4>3
    <3> QED BY <3>1, <3>2
  <2>6. Placed(Len(traces))' = Placed(Len(traces))
    BY <1>1, <2>1, PlacedUnchanged
  <2>7. trace'[Len(trace')] = trace[Len(trace)]
    BY <2>1, <2>4
  <2> QED BY <1>1, <2>1, <2>2, <2>3, <2>4, <2>5, <2>6, <2>7 DEF GrowthInv
<1>6. CASE StopBackward \/ Return
  BY <1>6 DEF StopBackward, Return, GrowthInv, Growing
<1>7. CASE UNCHANGED vars
  <2>1. Placed(Len(traces))' = Placed(Len(traces))
    BY <1>1, <1>7, PlacedUnchanged DEF vars
  <2>2. IsHotPath(trace) => IsHotPath(trace)'
    BY <1>1, <1>7 DEF vars, IsHotPath
  <2> QED BY <1>1, <1>7, <2>1, <2>2 DEF IInv, GrowthInv, Growing, vars
<1> QED BY <1>2, <1>3, <1>4, <1>5, <1>6, <1>7 DEF Next

(* The input is never changed.                                           *)
LEMMA InputStep == IInv /\ [Next]_vars => InputInv'
<1> SUFFICES ASSUME IInv, [Next]_vars PROVE InputInv'
  OBVIOUS
<1>1. InputInv /\ profile' = profile /\ bfsOrder' = bfsOrder /\ byFreqDesc' = byFreqDesc
  BY InputUnchanged DEF IInv
<1> QED BY <1>1 DEF InputInv, SeedOrder

(* Every step keeps what was true of a trace when it was finished.       *)
LEMMA TracesStep == IInv /\ [Next]_vars => TracesInv'
<1> SUFFICES ASSUME IInv, [Next]_vars PROVE TracesInv'
  OBVIOUS
<1>1. /\ TypeOK /\ InputInv /\ TracesInv /\ profile' = profile
      /\ HotForward' = HotForward /\ Rejected' = Rejected
  BY InputUnchanged DEF IInv
<1>2. CASE UNCHANGED traces
  <2>1. \A t : Finished(t)' = Finished(t)
    BY <1>1, <1>2 DEF Finished, Placed, IsHotPath
  <2> QED BY <1>1, <1>2, <2>1 DEF TracesInv
<1>3. CASE StopBackward
  <2> DEFINE n == Len(traces)
  <2>1. /\ Growing /\ GrowthInv /\ pc = "backward" /\ BestPredecessors(current) = {}
        /\ traces' = Append(traces, trace) /\ current = trace[1] /\ trace /= <<>>
        /\ IsInjective(trace) /\ IsHotPath(trace) /\ ToSet(trace) \cap Placed(n) = {}
    BY <1>3 DEF StopBackward, Growing, IInv, GrowthInv
  <2>2. /\ n \in Nat /\ DOMAIN traces = 1..n /\ DOMAIN traces' = 1..(n + 1)
        /\ \A t \in 1..n : traces'[t] = traces[t]
        /\ traces'[n + 1] = trace
    BY <1>1, <2>1, PlacedMore
  <2>3. current \in Blocks(profile) /\ visited = Placed(n) \cup ToSet(trace)
        /\ trace \in Seq(Blocks(profile)) /\ Len(trace) \in Nat \ {0}
    BY <2>1, CurrentPlaced
  <2>4. \A t \in 1..n : ToSet(traces[t]) \subseteq Placed(n)
    <3>1. \A t \in 1..n : traces[t] \in Seq(Blocks(profile))
      BY <1>1, <2>2 DEF TypeOK
    <3>2. \A t \in 1..n : ToSet(traces[t]) \subseteq Blocks(profile)
      BY <3>1 DEF ToSet
    <3> QED BY <3>2 DEF Placed
  <2>5. /\ \A t \in 1..n : 1..t \subseteq 1..n
        /\ \A t \in 1..(n + 1) : t \in 1..n \/ t = n + 1
    BY <2>2
  <2> HIDE DEF n
  <2>6. ASSUME NEW t \in 1..(n + 1), NEW u \in 1..(n + 1),
               NEW j \in DOMAIN traces'[t], NEW k \in DOMAIN traces'[u],
               traces'[t][j] = traces'[u][k]
        PROVE  t = u /\ j = k
    <3>1. CASE t \in 1..n /\ u \in 1..n
      BY <1>1, <2>2, <2>6, <3>1 DEF TracesInv
    <3>2. CASE t = n + 1 /\ u = n + 1
      BY <2>1, <2>2, <2>6, <3>2 DEF IsInjective
    <3>3. \A v \in 1..n : \A i \in DOMAIN traces'[v] : traces'[v][i] \notin ToSet(trace)
      BY <2>1, <2>2, <2>4 DEF ToSet
    <3>4. \A i \in DOMAIN trace : trace[i] \in ToSet(trace)
      BY DEF ToSet
    <3>5. CASE t \in 1..n /\ u = n + 1
      BY <2>2, <2>6, <3>3, <3>4, <3>5
    <3>6. CASE t = n + 1 /\ u \in 1..n
      BY <2>2, <2>6, <3>3, <3>4, <3>6
    <3> QED BY <2>5, <3>1, <3>2, <3>5, <3>6
  <2>7. ASSUME NEW t \in 1..n PROVE Finished(t)'
    <3>1. Finished(t) /\ traces'[t] = traces[t]
      BY <1>1, <2>2 DEF TracesInv
    <3>2. \A u \in 1..t : traces'[u] = traces[u]
      BY <2>2, <2>5
    <3>3. {b \in Blocks(profile) : \E u \in 1..t : b \in ToSet(traces'[u])} = Placed(t)
      BY <3>2 DEF Placed
    <3> QED BY <1>1, <3>1, <3>3 DEF Finished, Placed, IsHotPath
  <2>8. ASSUME NEW m, m = n + 1 PROVE Finished(m)'
    <3>1. {b \in Blocks(profile) : \E u \in 1..m : b \in ToSet(traces'[u])} = visited
      BY <1>1, <2>1, <2>3, <2>8, PlacedMore DEF Placed, n
    <3>2. \A c \in Preds(profile, trace[1]) \ visited : <<c, trace[1]>> \in Rejected
      BY <1>1, <2>1, <2>3, StoppedBackward
    <3>3. \A c \in Succs(profile, trace[Len(trace)]) \ visited :
            <<trace[Len(trace)], c>> \in Rejected
      BY <2>1 DEF GrowthInv
    <3>4. \E b \in ToSet(trace) : \A c \in Reachable(profile) \ visited :
            profile.freq[c] <= profile.freq[b]
      BY <2>1, <2>3 DEF GrowthInv, n
    <3> QED BY <1>1, <2>1, <2>2, <2>8, <3>1, <3>2, <3>3, <3>4 DEF Finished, Placed, IsHotPath
  <2>9. \A t \in DOMAIN traces' : Finished(t)'
    BY <2>2, <2>5, <2>7, <2>8
  <2> QED BY <2>2, <2>6, <2>9 DEF TracesInv
<1> QED BY <1>2, <1>3 DEF Next, vars, PickSeed, GrowForward, StopForward, GrowBackward, Return

(* The invariant holds when the call starts.                             *)
LEMMA Initially == Init => IInv
<1> SUFFICES ASSUME Init PROVE IInv
  OBVIOUS
<1>1. InputInv
  BY DEF Init, InputInv
<1>2. Len(byFreqDesc) \in Nat
  BY <1>1, ProfileFacts
<1>3. TypeOK
  BY <1>2 DEF Init, TypeOK
<1>4. Placed(Len(traces)) = {}
  BY DEF Init, Placed
<1>5. VisitedInv /\ GrowthInv /\ TracesInv
  BY <1>4 DEF Init, VisitedInv, GrowthInv, TracesInv, Growing
<1> QED BY <1>1, <1>3, <1>5 DEF IInv

(* The inductive invariant of identifyTraces.                            *)
THEOREM InductiveInvariant == Spec => []IInv
<1>1. IInv /\ [Next]_vars => IInv'
  BY TypeStep, InputStep, VisitedStep, GrowthStep, TracesStep DEF IInv
<1> QED BY Initially, <1>1, PTL DEF Spec

(* A block of a trace can be reached and is in no trace finished earlier.*)
LEMMA LaterBlocks ==
    ASSUME IInv, NEW t \in DOMAIN traces, NEW u \in DOMAIN traces, NEW c \in ToSet(traces[u])
    PROVE  c \in Reachable(profile) /\ (t < u => c \notin Placed(t))
<1>1. /\ DOMAIN traces = 1..Len(traces) /\ Len(traces) \in Nat
      /\ traces[u] \in Seq(Blocks(profile))
  BY DEF IInv, TypeOK
<1>2. c \in Blocks(profile)
  BY <1>1 DEF ToSet
<1>3. c \in Placed(Len(traces))
  BY <1>1, <1>2 DEF Placed
<1>4. Placed(Len(traces)) \subseteq Reachable(profile)
  BY DEF IInv, VisitedInv
<1>5. ASSUME t < u, c \in Placed(t) PROVE FALSE
  <2>1. PICK v \in 1..t : c \in ToSet(traces[v])
    BY <1>5 DEF Placed
  <2>2. v \in DOMAIN traces /\ v /= u
    BY <1>1, <1>5
  <2>3. PICK j \in DOMAIN traces[v], k \in DOMAIN traces[u] : traces[v][j] = traces[u][k]
    BY <2>1 DEF ToSet
  <2> QED BY <2>2, <2>3 DEF IInv, TracesInv
<1> QED BY <1>3, <1>4, <1>5

(* Type correctness, for every profile.                                  *)
THEOREM TypeCorrect == Spec => []TypeOK
<1>1. IInv => TypeOK
  BY DEF IInv
<1> QED BY InductiveInvariant, <1>1, PTL

(* No block is in two traces or twice in one, and when the call returns  *)
(* no block that can be executed is in none.                             *)
THEOREM TracesPartitionBlocks == Spec => []ReachableBlocksInOneTrace
<1>1. IInv => ReachableBlocksInOneTrace
  <2> SUFFICES ASSUME IInv, pc = "done", NEW b \in Reachable(profile)
               PROVE  \E t \in DOMAIN traces : b \in ToSet(traces[t])
    BY DEF ReachableBlocksInOneTrace, IInv, TracesInv
  <2>1. b \in Placed(Len(traces))
    BY DEF IInv, VisitedInv, Growing
  <2>2. DOMAIN traces = 1..Len(traces)
    BY DEF IInv, TypeOK
  <2> QED BY <2>1, <2>2 DEF Placed
<1> QED BY InductiveInvariant, <1>1, PTL

(* Every trace follows edges above the threshold, forward only.          *)
THEOREM HotPaths == Spec => []TracesAreHotPaths
<1>1. IInv => TracesAreHotPaths
  BY DEF IInv, TracesInv, Finished, TracesAreHotPaths
<1> QED BY InductiveInvariant, <1>1, PTL

(* Such a path leads forward in the order of the search, end to end.     *)
LEMMA HotPathLeadsForward ==
    ASSUME InputInv, NEW path \in Seq(Reachable(profile)), path /= <<>>, IsHotPath(path)
    PROVE  IsForward(profile, path)
<1> DEFINE N == Len(path)
           at == [a \in 1..N |-> bfsPos(path[a])]
<1>1. /\ N \in Nat /\ \A a \in 1..N : path[a] \in Reachable(profile)
      /\ path \in Seq(Blocks(profile)) /\ bfsOrder = BreadthFirst(profile)
  <2>1. Reachable(profile) \subseteq Blocks(profile)
    BY ProfileFacts
  <2> QED BY <2>1 DEF InputInv
<1>2. /\ at \in [1..N -> 1..Len(bfsOrder)] /\ Len(bfsOrder) \in Nat
      /\ \A a \in 1..N : bfsOrder[at[a]] = path[a]
  BY <1>1, Positions
<1>3. \A a \in 1..(N-1) : at[a] < at[a+1]
  <2> SUFFICES ASSUME NEW a \in 1..(N-1) PROVE at[a] < at[a+1]
    OBVIOUS
  <2>1. <<path[a], path[a+1]>> \in HotForward
    BY DEF IsHotPath
  <2>2. bfsPos(path[a]) < bfsPos(path[a+1])
    BY <2>1 DEF HotForward
  <2> QED BY <1>1, <2>2
<1> HIDE DEF at, N
<1>4. \A a, b \in 1..N : a < b => at[a] < at[b]
  <2> DEFINE T == {b \in 0..N : \A a \in 1..N : a < b => at[a] < at[b]}
  <2>1. 0 \in T
    BY <1>1
  <2>2. ASSUME NEW b \in 1..N, b - 1 \in T PROVE b \in T
    <3> SUFFICES ASSUME NEW a \in 1..N, a < b PROVE at[a] < at[b]
      BY <1>1
    <3>1. a <= b - 1 /\ b - 1 \in 1..N /\ b - 1 \in 1..(N-1)
      BY <1>1
    <3>2. at[b-1] < at[b]
      <4>1. at[b-1] < at[(b-1) + 1] /\ (b-1) + 1 = b
        BY <1>1, <1>3, <3>1
      <4> QED BY <4>1
    <3>3. a = b - 1 \/ (a < b - 1 /\ at[a] < at[b-1])
      BY <2>2, <3>1
    <3>4. at[a] \in Nat /\ at[b-1] \in Nat /\ at[b] \in Nat
      BY <1>1, <1>2, <3>1
    <3> QED BY <3>2, <3>3, <3>4
  <2> HIDE DEF T
  <2>3. \A b \in 0..N : b \in T
    BY <1>1, <2>1, <2>2, UpTo
  <2> QED BY <1>1, <2>3 DEF T
<1> QED BY <1>1, <1>2, <1>4 DEF IsForward, N

(* All traces do: what is proved of the graph and the schedule of such a *)
(* trace holds of each that identifyTraces returns.                      *)
TracesLeadForward == \A t \in DOMAIN traces : IsForward(profile, traces[t])

LEMMA AllLeadForward == IInv => TracesLeadForward
<1> SUFFICES ASSUME IInv, NEW t \in DOMAIN traces PROVE IsForward(profile, traces[t])
  BY DEF TracesLeadForward
<1>1. InputInv /\ traces[t] /= <<>> /\ IsHotPath(traces[t]) /\ traces[t] \in Seq(Blocks(profile))
  BY DEF IInv, TypeOK, TracesInv, Finished
<1>2. \A k \in 1..Len(traces[t]) : traces[t][k] \in Reachable(profile)
  BY <1>1, LaterBlocks DEF ToSet
<1>3. traces[t] \in Seq(Reachable(profile))
  BY <1>1, <1>2
<1> QED BY <1>1, <1>3, HotPathLeadsForward

THEOREM ForwardTraces == Spec => []TracesLeadForward
BY InductiveInvariant, AllLeadForward, PTL

(* The traces come hottest first, though they grow by probability.       *)
THEOREM HottestTraceFirst == Spec => []HotnessOrder
<1>1. IInv => HotnessOrder
  <2> SUFFICES ASSUME IInv, NEW t \in DOMAIN traces, NEW u \in DOMAIN traces, t < u
               PROVE  \E b \in ToSet(traces[t]) : \A c \in ToSet(traces[u]) :
                          profile.freq[c] <= profile.freq[b]
    BY DEF HotnessOrder
  <2>1. PICK b \in ToSet(traces[t]) : \A c \in Reachable(profile) \ Placed(t) :
            profile.freq[c] <= profile.freq[b]
    BY DEF IInv, TracesInv, Finished
  <2> QED BY <2>1, LaterBlocks
<1> QED BY InductiveInvariant, <1>1, PTL

(* No two traces could have been one: whichever was grown first rejected *)
(* the edge between them.                                                *)
THEOREM TracesAreMaximal == Spec => []TracesCannotBeJoined
<1>1. IInv => TracesCannotBeJoined
  <2> SUFFICES ASSUME IInv, NEW t \in DOMAIN traces, NEW u \in DOMAIN traces, t /= u,
                      <<Last(traces[t]), Head(traces[u])>> \in Edges
               PROVE  <<Last(traces[t]), Head(traces[u])>> \in Rejected
    BY DEF TracesCannotBeJoined
  <2> DEFINE p == traces[t]
             q == traces[u]
  <2>0. Finished(t) /\ Finished(u)
    BY DEF IInv, TracesInv
  <2>1. /\ t \in Nat /\ u \in Nat
        /\ p \in Seq(Blocks(profile)) /\ q \in Seq(Blocks(profile)) /\ p /= <<>> /\ q /= <<>>
    <3>1. traces \in Seq(Seq(Blocks(profile))) /\ DOMAIN traces = 1..Len(traces)
      BY DEF IInv, TypeOK
    <3> QED BY <2>0, <3>1 DEF Finished
  <2>2. /\ Len(p) \in DOMAIN p /\ 1 \in DOMAIN q
        /\ Last(p) = p[Len(p)] /\ Head(q) = q[1]
        /\ p[Len(p)] \in Blocks(profile)
    BY <2>1 DEF Last
  <2>3. p[Len(p)] \in ToSet(p) /\ q[1] \in ToSet(q)
    BY <2>2 DEF ToSet
  <2>4. q[1] \in Succs(profile, p[Len(p)]) /\ p[Len(p)] \in Preds(profile, q[1])
    <3>1. PICK b \in Blocks(profile) : \E s \in Succs(profile, b) : <<p[Len(p)], q[1]>> = <<b, s>>
      BY <2>2 DEF Edges, OutEdges
    <3> QED BY <2>2, <3>1 DEF Preds
  <2>5. CASE t < u
    <3>1. q[1] \notin Placed(t)
      BY <2>3, <2>5, LaterBlocks
    <3> QED BY <2>0, <2>2, <2>4, <3>1 DEF Finished
  <2>6. CASE u < t
    <3>1. p[Len(p)] \notin Placed(u)
      BY <2>3, <2>6, LaterBlocks
    <3> QED BY <2>0, <2>2, <2>4, <3>1 DEF Finished
  <2> QED BY <2>1, <2>5, <2>6
<1> QED BY InductiveInvariant, <1>1, PTL
-----------------------------------------------------------------------------
(* The edges of the finished traces and of the one that grows.           *)
LEMMA FiniteEdges ==
    ASSUME IInv
    PROVE  /\ IsFiniteSet(TraceEdges \cup (IF Growing THEN PathEdges(trace) ELSE {}))
           /\ TraceEdges \cup (IF Growing THEN PathEdges(trace) ELSE {}) \subseteq HotForward
<1>1. HotForward \subseteq Blocks(profile) \X Blocks(profile)
  BY EdgeFacts DEF IInv, HotForward, Edges
<1>2. IsFiniteSet(Blocks(profile) \X Blocks(profile))
  BY ProfileFacts, FS_Product DEF IInv
<1>3. IsFiniteSet(HotForward)
  BY <1>1, <1>2, FS_Subset
<1>4. ASSUME NEW t \in DOMAIN traces PROVE PathEdges(traces[t]) \subseteq HotForward
  <2>1. IsHotPath(traces[t])
    BY DEF IInv, TracesInv, Finished
  <2> QED BY <2>1 DEF IsHotPath, PathEdges
<1>5. TraceEdges \subseteq HotForward
  BY <1>4 DEF TraceEdges
<1>6. Growing => PathEdges(trace) \subseteq HotForward
  BY DEF IInv, GrowthInv, IsHotPath, PathEdges
<1>7. TraceEdges \cup (IF Growing THEN PathEdges(trace) ELSE {}) \subseteq HotForward
  BY <1>5, <1>6
<1> QED BY <1>3, <1>7, FS_Subset

(* One examination of edges never lowers above - backedge, and raises it *)
(* when an edge is taken.                                                *)
LEMMA CountedMore ==
    ASSUME TypeOK, InputInv, NEW b \in Blocks(profile), NEW edges, NEW far,
           edges \in {OutEdges(b), InEdges(b)}
    PROVE  /\ stats.above - stats.backedge
                 <= Counted(edges, far).above - Counted(edges, far).backedge
           /\ Eligible(edges, far) /= {} =>
                 stats.above - stats.backedge + 1
                     <= Counted(edges, far).above - Counted(edges, far).backedge
           /\ Counted(edges, far).above \in Nat /\ Counted(edges, far).backedge \in Nat
<1> DEFINE hot == Hot(Untaken(edges, far))
           back == hot \cap Backward(edges)
<1>1. hot \subseteq edges
  BY DEF Untaken, Hot
<1>2. back \subseteq hot /\ back \subseteq edges
  BY <1>1
<1>3. Times(hot) \in Nat /\ Times(back) \in Nat /\ Times(back) <= Times(hot)
  <2> HIDE DEF hot, back
  <2> QED BY <1>1, <1>2, ListedFacts
<1>4. ASSUME Eligible(edges, far) /= {}
      PROVE  Times(back) < Times(hot)
  <2>1. PICK e \in Eligible(edges, far) : TRUE
    BY <1>4
  <2>2. e \in hot /\ e \notin back
    BY <2>1 DEF Eligible, Untaken, Hot
  <2>3. back /= hot
    BY <2>2
  <2> HIDE DEF hot, back
  <2> QED BY <1>1, <1>2, <2>3, ListedFacts
<1>5. stats.above \in Nat /\ stats.backedge \in Nat
  BY DEF TypeOK
<1>6. /\ Counted(edges, far).above = stats.above + Times(hot)
      /\ Counted(edges, far).backedge = stats.backedge + Times(back)
  BY DEF Counted
<1> HIDE DEF hot, back
<1> QED BY <1>3, <1>4, <1>5, <1>6

(* The edges of a path that is one block longer.                         *)
LEMMA MoreEdges ==
    ASSUME NEW S, NEW s \in Seq(S), NEW x \in S, s /= <<>>
    PROVE  /\ PathEdges(Append(s, x)) \subseteq PathEdges(s) \cup {<<s[Len(s)], x>>}
           /\ PathEdges(<<x>> \o s) \subseteq PathEdges(s) \cup {<<x, s[1]>>}
<1>1. Len(s) \in Nat \ {0}
  OBVIOUS
<1>2. PathEdges(Append(s, x)) \subseteq PathEdges(s) \cup {<<s[Len(s)], x>>}
  <2> DEFINE r == Append(s, x)
  <2>1. /\ Len(r) = Len(s) + 1 /\ r[Len(s) + 1] = x
        /\ \A i \in 1..Len(s) : r[i] = s[i]
    BY Appended
  <2> HIDE DEF r
  <2>2. ASSUME NEW k \in 1..(Len(r) - 1)
        PROVE  <<r[k], r[k+1]>> \in PathEdges(s) \cup {<<s[Len(s)], x>>}
    <3>1. CASE k = Len(s)
      BY <1>1, <2>1, <3>1
    <3>2. CASE k /= Len(s)
      <4>1. k \in 1..(Len(s) - 1) /\ r[k] = s[k] /\ r[k+1] = s[k+1]
        BY <1>1, <2>1, <3>2
      <4> QED BY <4>1 DEF PathEdges
    <3> QED BY <3>1, <3>2
  <2> QED BY <2>2 DEF PathEdges, r
<1>3. PathEdges(<<x>> \o s) \subseteq PathEdges(s) \cup {<<x, s[1]>>}
  <2> DEFINE r == <<x>> \o s
  <2>1. /\ Len(r) = Len(s) + 1 /\ r[1] = x
        /\ \A i \in 1..Len(s) : r[i + 1] = s[i]
    BY Prepended
  <2> HIDE DEF r
  <2>2. ASSUME NEW k \in 1..(Len(r) - 1)
        PROVE  <<r[k], r[k+1]>> \in PathEdges(s) \cup {<<x, s[1]>>}
    <3>1. CASE k = 1
      BY <1>1, <2>1, <3>1
    <3>2. CASE k /= 1
      <4>1. k - 1 \in 1..(Len(s) - 1) /\ (k - 1) + 1 = k
        BY <1>1, <2>1, <3>2
      <4>2. r[k] = s[k-1] /\ r[k+1] = s[k]
        BY <1>1, <2>1, <4>1
      <4> QED BY <4>1, <4>2 DEF PathEdges
    <3> QED BY <3>1, <3>2
  <2> QED BY <2>2 DEF PathEdges, r
<1> QED BY <1>2, <1>3

(* Taking an edge adds at most that edge and counts it.                  *)
LEMMA Covered ==
    ASSUME NEW A, NEW B, NEW e, IsFiniteSet(A), B \subseteq A \cup {e},
           NEW m \in Int, NEW n \in Int, Cardinality(A) <= m, m + 1 <= n
    PROVE  Cardinality(B) <= n
<1>1. IsFiniteSet(A \cup {e}) /\ Cardinality(A \cup {e}) <= Cardinality(A) + 1
      /\ Cardinality(A) \in Nat
  <2>1. IsFiniteSet(A \cup {e})
    BY FS_AddElement
  <2>2. Cardinality(A \cup {e}) = IF e \in A THEN Cardinality(A) ELSE Cardinality(A) + 1
    BY FS_AddElement
  <2>3. Cardinality(A) \in Nat
    BY FS_CardinalityType
  <2> QED BY <2>1, <2>2, <2>3
<1>2. Cardinality(B) <= Cardinality(A \cup {e}) /\ Cardinality(B) \in Nat
      /\ Cardinality(A \cup {e}) \in Nat
  BY <1>1, FS_Subset, FS_CardinalityType
<1> QED BY <1>1, <1>2

(* Every step keeps the statistics ahead of the edges.                   *)
LEMMA StatsStep == IInv /\ StatsInv /\ [Next]_vars => StatsInv'
<1> SUFFICES ASSUME IInv, StatsInv, [Next]_vars PROVE StatsInv'
  OBVIOUS
<1> DEFINE all == TraceEdges \cup (IF Growing THEN PathEdges(trace) ELSE {})
           lead == stats.above - stats.backedge
<1>1. /\ TypeOK /\ InputInv /\ IsFiniteSet(all) /\ Cardinality(all) <= lead
      /\ stats.above \in Nat /\ stats.backedge \in Nat /\ lead \in Int
  BY FiniteEdges DEF IInv, TypeOK, StatsInv
<1>2. CASE PickSeed
  <2>1. Len(trace') = 1 /\ Growing' /\ ~Growing /\ traces' = traces /\ stats' = stats
    BY <1>2, Picked DEF PickSeed, Growing
  <2>2. PathEdges(trace)' = {} /\ TraceEdges' = TraceEdges
    BY <2>1 DEF PathEdges, TraceEdges
  <2> QED BY <1>1, <2>1, <2>2 DEF StatsInv
<1>3. CASE GrowForward
  <2>1. /\ Growing /\ Growing' /\ current \in Blocks(profile) /\ trace \in Seq(Blocks(profile))
        /\ trace /= <<>> /\ current = trace[Len(trace)]
        /\ traces' = traces /\ stats' = Counted(OutEdges(current), 2)
    BY <1>3, CurrentPlaced DEF GrowForward, Growing, IInv, GrowthInv
  <2>2. PICK e \in BestSuccessors(current) : trace' = Append(trace, e[2])
    BY <1>3 DEF GrowForward
  <2>3. e \in Eligible(OutEdges(current), 2) /\ e[2] \in Blocks(profile)
    BY <1>1, <2>1, EdgeFacts DEF BestSuccessors, Eligible, Hot, Untaken
  <2>4. PathEdges(trace') \subseteq PathEdges(trace) \cup {<<current, e[2]>>}
    BY <2>1, <2>2, <2>3, MoreEdges
  <2>5. (TraceEdges \cup (IF Growing THEN PathEdges(trace) ELSE {}))' \subseteq all \cup {<<current, e[2]>>}
    <3>1. TraceEdges' = TraceEdges
      BY <2>1 DEF TraceEdges, PathEdges
    <3>2. PathEdges(trace)' = PathEdges(trace')
      BY DEF PathEdges
    <3> QED BY <2>1, <2>4, <3>1, <3>2
  <2>6. lead + 1 <= stats'.above - stats'.backedge /\ stats'.above - stats'.backedge \in Int
    BY <1>1, <2>1, <2>3, CountedMore
  <2> HIDE DEF all, lead
  <2>7. Cardinality((TraceEdges \cup (IF Growing THEN PathEdges(trace) ELSE {}))')
          <= stats'.above - stats'.backedge
    BY <1>1, <2>5, <2>6, Covered
  <2> QED BY <2>7 DEF StatsInv
<1>4. CASE GrowBackward
  <2>1. /\ Growing /\ Growing' /\ current \in Blocks(profile) /\ trace \in Seq(Blocks(profile))
        /\ trace /= <<>> /\ current = trace[1]
        /\ traces' = traces /\ stats' = Counted(InEdges(current), 1)
    BY <1>4, CurrentPlaced DEF GrowBackward, Growing, IInv, GrowthInv
  <2>2. PICK e \in BestPredecessors(current) : trace' = <<e[1]>> \o trace
    BY <1>4 DEF GrowBackward
  <2>3. e \in Eligible(InEdges(current), 1) /\ e[1] \in Blocks(profile)
    BY <1>1, <2>1, EdgeFacts DEF BestPredecessors, Eligible, Hot, Untaken
  <2>4. PathEdges(trace') \subseteq PathEdges(trace) \cup {<<e[1], current>>}
    BY <2>1, <2>2, <2>3, MoreEdges
  <2>5. (TraceEdges \cup (IF Growing THEN PathEdges(trace) ELSE {}))' \subseteq all \cup {<<e[1], current>>}
    <3>1. TraceEdges' = TraceEdges
      BY <2>1 DEF TraceEdges, PathEdges
    <3>2. PathEdges(trace)' = PathEdges(trace')
      BY DEF PathEdges
    <3> QED BY <2>1, <2>4, <3>1, <3>2
  <2>6. lead + 1 <= stats'.above - stats'.backedge /\ stats'.above - stats'.backedge \in Int
    BY <1>1, <2>1, <2>3, CountedMore
  <2> HIDE DEF all, lead
  <2>7. Cardinality((TraceEdges \cup (IF Growing THEN PathEdges(trace) ELSE {}))')
          <= stats'.above - stats'.backedge
    BY <1>1, <2>5, <2>6, Covered
  <2> QED BY <2>7 DEF StatsInv
<1>5. CASE StopForward
  <2>1. /\ Growing /\ Growing' /\ current \in Blocks(profile) /\ UNCHANGED <<trace, traces>>
        /\ stats' = Counted(OutEdges(current), 2)
    BY <1>5, CurrentPlaced DEF StopForward, Growing
  <2>2. (TraceEdges \cup (IF Growing THEN PathEdges(trace) ELSE {}))' = all
    BY <2>1 DEF TraceEdges, PathEdges
  <2>3. lead <= stats'.above - stats'.backedge /\ stats'.above \in Nat /\ stats'.backedge \in Nat
    BY <1>1, <2>1, CountedMore
  <2>4. Cardinality(all) \in Nat
    BY <1>1, FS_CardinalityType
  <2> HIDE DEF all, lead
  <2>5. Cardinality(all) <= stats'.above - stats'.backedge
    BY <1>1, <2>3, <2>4
  <2> QED BY <2>2, <2>5 DEF StatsInv
<1>6. CASE StopBackward
  <2>1. /\ Growing /\ ~Growing' /\ current \in Blocks(profile) /\ trace \in Seq(Blocks(profile))
        /\ traces' = Append(traces, trace) /\ stats' = Counted(InEdges(current), 1)
    BY <1>6, CurrentPlaced DEF StopBackward, Growing
  <2>2. /\ Len(traces) \in Nat /\ DOMAIN traces' = 1..(Len(traces) + 1)
        /\ DOMAIN traces = 1..Len(traces) /\ traces'[Len(traces) + 1] = trace
        /\ \A t \in 1..Len(traces) : traces'[t] = traces[t]
    BY <1>1, <2>1 DEF TypeOK
  <2>3. TraceEdges' \subseteq all
    <3>1. TraceEdges' = UNION {PathEdges(traces'[t]) : t \in 1..(Len(traces) + 1)}
      BY <2>2 DEF TraceEdges, PathEdges
    <3>2. \A t \in 1..(Len(traces) + 1) : t \in 1..Len(traces) \/ t = Len(traces) + 1
      BY <2>2
    <3>3. \A t \in 1..(Len(traces) + 1) : PathEdges(traces'[t]) \subseteq all
      BY <2>1, <2>2, <3>2 DEF TraceEdges
    <3> HIDE DEF all
    <3> QED BY <3>1, <3>3
  <2>4. lead <= stats'.above - stats'.backedge /\ stats'.above \in Nat /\ stats'.backedge \in Nat
    BY <1>1, <2>1, CountedMore
  <2>5. Cardinality(all) \in Nat /\ Cardinality(TraceEdges') \in Nat
        /\ Cardinality(TraceEdges') <= Cardinality(all)
    BY <1>1, <2>3, FS_Subset, FS_CardinalityType
  <2>6. (TraceEdges \cup (IF Growing THEN PathEdges(trace) ELSE {}))' = TraceEdges'
    BY <2>1
  <2> HIDE DEF all, lead
  <2>7. Cardinality(TraceEdges') <= stats'.above - stats'.backedge
    BY <1>1, <2>4, <2>5
  <2> QED BY <2>6, <2>7 DEF StatsInv
<1>7. CASE Return \/ UNCHANGED vars
  <2>1. Growing' = Growing /\ UNCHANGED <<trace, traces, stats>>
    BY <1>7 DEF Return, Growing, vars
  <2> QED BY <2>1 DEF StatsInv, TraceEdges, PathEdges
<1> QED BY <1>2, <1>3, <1>4, <1>5, <1>6, <1>7 DEF Next

(* SCHED_STATS accounts for the result: no edge of a trace is missing    *)
(* from the edges counted as above the threshold and not backward.       *)
THEOREM StatsCoverEdges == Spec => []StatsCoverTraces
<1>1. Init => FullInv
  <2> SUFFICES ASSUME Init PROVE StatsInv
    BY Initially DEF FullInv
  <2>1. TraceEdges = {} /\ ~Growing /\ stats.above - stats.backedge = 0
    BY DEF Init, TraceEdges, Growing
  <2> QED BY <2>1, FS_EmptySet DEF StatsInv
<1>2. FullInv /\ [Next]_vars => FullInv'
  <2>1. IInv /\ [Next]_vars => IInv'
    BY TypeStep, InputStep, VisitedStep, GrowthStep, TracesStep DEF IInv
  <2> QED BY <2>1, StatsStep DEF FullInv
<1>3. FullInv => StatsCoverTraces
  <2> SUFFICES ASSUME FullInv PROVE StatsCoverTraces
    OBVIOUS
  <2> DEFINE all == TraceEdges \cup (IF Growing THEN PathEdges(trace) ELSE {})
  <2>1. IsFiniteSet(all) /\ TraceEdges \subseteq all /\ IInv
    BY FiniteEdges DEF FullInv
  <2>2. /\ Cardinality(TraceEdges) <= Cardinality(all)
        /\ Cardinality(TraceEdges) \in Nat /\ Cardinality(all) \in Nat
    BY <2>1, FS_Subset, FS_CardinalityType
  <2>3. Cardinality(all) <= stats.above - stats.backedge
    BY DEF FullInv, StatsInv
  <2>4. stats.above - stats.backedge \in Int
    BY <2>1 DEF IInv, TypeOK
  <2> HIDE DEF all
  <2> QED BY <2>2, <2>3, <2>4 DEF StatsCoverTraces
<1> QED BY <1>1, <1>2, <1>3, PTL DEF Spec
=============================================================================
