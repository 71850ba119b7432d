---------------------------- MODULE ChainProofs ----------------------------
(***************************************************************************)
(* Proofs about Chain: for every tree of blocks, every assignment of work  *)
(* and every order of arrival, fills and complaints, the pointers of a     *)
(* node are the ones the tree determines.                                  *)
(***************************************************************************)
EXTENDS Chain, TLAPS, FiniteSetTheorems, SequenceTheorems, WellFoundedInduction

-----------------------------------------------------------------------------
(* Facts about natural numbers and the operators of the walk. *)

(* Every set of naturals that is not empty has a least element. *)
LEMMA LeastNatural ==
    ASSUME NEW T \in SUBSET Nat, T # {}
    PROVE  \E m \in T : \A x \in T : m <= x
<1>1. IsWellFoundedOn(OpToRel(<, Nat), Nat)
  BY NatLessThanWellFounded
<1>2. PICK m \in T : \A y \in T : ~(<<y, m>> \in OpToRel(<, Nat))
  BY <1>1, WFMin
<1>3. \A y \in T : ~(y < m)
  BY <1>2 DEF OpToRel
<1> QED
  BY <1>3

(* A set of naturals with a bound has a greatest element. *)
LEMMA GreatestNatural ==
    ASSUME NEW S \in SUBSET Nat, S # {}, NEW N \in Nat, \A x \in S : x <= N
    PROVE  \E m \in S : \A x \in S : x <= m
<1> DEFINE T == {y \in Nat : \E x \in S : x + y = N}
<1>1. T \in SUBSET Nat /\ T # {}
  <2>1. PICK x \in S : TRUE
    OBVIOUS
  <2>2. N - x \in Nat /\ x + (N - x) = N
    BY <2>1
  <2> QED
    BY <2>1, <2>2
<1>2. PICK t \in T : \A x \in T : t <= x
  <2> HIDE DEF T
  <2> QED
    BY <1>1, LeastNatural
<1>3. PICK m \in S : m + t = N
  BY <1>2
<1>4. ASSUME NEW x \in S
      PROVE  x <= m
  <2>1. N - x \in T
    BY <1>4
  <2>2. t <= N - x
    BY <1>2, <2>1
  <2>3. t \in Nat /\ m \in Nat /\ x \in Nat
    BY <1>2
  <2> HIDE DEF T
  <2> QED
    BY <1>3, <2>2, <2>3
<1> QED
  BY <1>4

(* The blocks of an array all have the same work. *)
Level(W, s) == \A b \in Range(s) : W[b] = W[s[1]]

(* No block of T has more than N work. *)
Bounded(W, T, N) == \A b \in T : W[b] <= N

(* Some block of a set of blocks with bounded work has the most work. *)
LEMMA HeaviestExists ==
    ASSUME NEW T, NEW W \in [T -> Nat], NEW N \in Nat, Bounded(W, T, N),
           NEW S \in SUBSET T, S # {}
    PROVE  Heaviest(W, S) # {}
<1> DEFINE V == {v \in Nat : \E b \in S : W[b] = v}
<1>1. V \in SUBSET Nat /\ V # {} /\ \A v \in V : v <= N
  BY DEF Bounded
<1>2. PICK m \in V : \A v \in V : v <= m
  <2> HIDE DEF V
  <2> QED
    BY <1>1, GreatestNatural
<1>3. PICK b \in S : W[b] = m
  BY <1>2
<1>4. \A d \in S : W[d] \in V
  OBVIOUS
<1>5. b \in Heaviest(W, S)
  BY <1>2, <1>3, <1>4 DEF Heaviest
<1> QED
  BY <1>5

(* The blocks of S have a work each. *)
Weighed(W, S) == \A b \in S : W[b] \in Nat

(* The heaviest blocks of S stand for all of S when C joins them. *)
HeaviestStand(W, S, C) ==
    Heaviest(W, Heaviest(W, S) \cup C) = Heaviest(W, S \cup C)

(* To find the heaviest of a larger set, the heaviest so far are enough. *)
LEMMA HeaviestUnion ==
    ASSUME NEW W, NEW S, NEW C, Weighed(W, S \cup C), NEW h \in Heaviest(W, S)
    PROVE  HeaviestStand(W, S, C)
<1>2. h \in S /\ \A d \in S : W[d] <= W[h]
  BY DEF Heaviest
<1>3. ASSUME NEW b \in Heaviest(W, Heaviest(W, S) \cup C)
      PROVE  b \in Heaviest(W, S \cup C)
  <2>1. b \in S \cup C /\ W[h] <= W[b] /\ \A d \in C : W[d] <= W[b]
    BY <1>3 DEF Heaviest
  <2>2. \A d \in S : W[d] <= W[b]
    BY <1>2, <2>1 DEF Weighed
  <2> QED
    BY <2>1, <2>2 DEF Heaviest
<1>4. ASSUME NEW b \in Heaviest(W, S \cup C)
      PROVE  b \in Heaviest(W, Heaviest(W, S) \cup C)
  BY <1>4 DEF Heaviest
<1> QED
  BY <1>3, <1>4 DEF HeaviestStand

(* An array of pointers has at least one entry. *)
Arrays(T) == Seq(T) \ {<<>>}

(* What is used of a sequence that is not empty. *)
LEMMA NonEmptySeq ==
    ASSUME NEW T, NEW s \in Arrays(T)
    PROVE  /\ Len(s) \in Nat \ {0}
           /\ s \in [1..Len(s) -> T]
           /\ DOMAIN s = 1..Len(s)
           /\ 1 \in DOMAIN s
           /\ s[1] \in T
           /\ s[1] \in Range(s)
           /\ Range(s) \subseteq T
<1>1. Len(s) \in Nat /\ s \in [1..Len(s) -> T] /\ DOMAIN s = 1..Len(s)
  BY LenProperties DEF Arrays
<1>2. Len(s) # 0
  BY EmptySeq DEF Arrays
<1> QED
  BY <1>1, <1>2 DEF Range

(* Walking S in order lists exactly the blocks of S. *)
LEMMA WalkOrdersType ==
    ASSUME NEW T, IsFiniteSet(T), NEW A, NEW S \in SUBSET T, NEW s \in WalkOrders(A, S)
    PROVE  s \in Seq(T) /\ Range(s) = S
<1>1. IsFiniteSet(S)
  BY FS_Subset
<1>2. Cardinality(S) \in Nat
  BY <1>1, FS_CardinalityType
<1>3. /\ s \in [1..Cardinality(S) -> S]
      /\ \A b \in S : \E i \in DOMAIN s : s[i] = b
  BY DEF WalkOrders
<1>4. Range(s) = S
  BY <1>3 DEF Range
<1>5. s \in [1..Cardinality(S) -> T]
  BY <1>3
<1>6. s \in Seq(T)
  BY <1>2, <1>5, SeqDef
<1> QED
  BY <1>4, <1>6

(* Concatenation, as the range of what it lists. *)
LEMMA ConcatRange ==
    ASSUME NEW T, NEW s \in Seq(T), NEW t \in Seq(T)
    PROVE  s \o t \in Seq(T) /\ Range(s \o t) = Range(s) \cup Range(t)
BY ConcatProperties, RangeConcatenation

(* Appending, as the range of what it lists. *)
LEMMA AppendRange ==
    ASSUME NEW T, NEW s \in Seq(T), NEW e \in T
    PROVE  Append(s, e) \in Arrays(T) /\ Range(Append(s, e)) = Range(s) \cup {e}
<1> DEFINE t == Append(s, e)
           k == Len(s)
<1>1. k \in Nat /\ DOMAIN s = 1..k
  BY LenProperties
<1>2. /\ t \in Seq(T) /\ t # <<>> /\ Len(t) = k + 1
      /\ t[k + 1] = e /\ \A i \in 1..k : t[i] = s[i]
  BY AppendProperties
<1>3. DOMAIN t = 1..(k + 1)
  BY <1>2, LenProperties
<1> HIDE DEF t, k
<1>4. \A x : x \in Range(t) <=> x \in Range(s) \cup {e}
  <2>1. ASSUME NEW i \in DOMAIN t PROVE t[i] \in Range(s) \cup {e}
    <3>1. i = k + 1 \/ i \in 1..k
      BY <1>1, <1>3
    <3> QED
      BY <1>1, <1>2, <3>1 DEF Range
  <2>2. ASSUME NEW i \in DOMAIN s PROVE s[i] \in Range(t)
    <3>1. i \in DOMAIN t /\ t[i] = s[i]
      BY <1>1, <1>2, <1>3
    <3> QED
      BY <3>1 DEF Range
  <2>3. e \in Range(t)
    <3>1. k + 1 \in DOMAIN t
      BY <1>1, <1>3
    <3> QED
      BY <1>2, <3>1 DEF Range
  <2> QED
    BY <2>1, <2>2, <2>3 DEF Range
<1> QED
  BY <1>2, <1>4 DEF t, Arrays

(* Blocks lighter than those found so far change nothing. *)
LEMMA NoImprovement ==
    ASSUME NEW T, NEW W \in [T -> Nat],
           NEW bests \in Arrays(T), Level(W, bests),
           NEW C \in SUBSET T,
           Improves(W, bests, C) = {}
    PROVE  Heaviest(W, Range(bests) \cup C) = Range(bests)
<1>0. bests[1] \in T /\ bests[1] \in Range(bests) /\ Range(bests) \subseteq T
  BY NonEmptySeq
<1>1. ASSUME NEW c \in C
      PROVE  W[c] < W[bests[1]]
  <2>1. ~(W[c] >= W[bests[1]])
    BY DEF Improves
  <2>2. W[c] \in Nat /\ W[bests[1]] \in Nat
    BY <1>0
  <2> QED
    BY <2>1, <2>2
<1>2. ASSUME NEW b \in Range(bests), NEW d \in Range(bests) \cup C
      PROVE  W[d] <= W[b]
  <2>1. W[b] = W[bests[1]] /\ W[bests[1]] \in Nat /\ W[d] \in Nat
    BY <1>0 DEF Level
  <2>2. W[d] = W[bests[1]] \/ W[d] < W[bests[1]]
    BY <1>1 DEF Level
  <2> QED
    BY <2>1, <2>2
<1>3. \A c \in C : ~(W[bests[1]] <= W[c])
  BY <1>0, <1>1
<1> QED
  BY <1>0, <1>2, <1>3 DEF Heaviest

(* FindBests leaves the heaviest blocks of what it started from and met. *)
LEMMA FindBestsRange ==
    ASSUME NEW T, IsFiniteSet(T), NEW A, NEW W \in [T -> Nat],
           NEW N \in Nat, Bounded(W, T, N),
           NEW bests \in Arrays(T),
           Level(W, bests),
           NEW C \in SUBSET T,
           NEW r \in FindBests(A, W, bests, C)
    PROVE  /\ r \in Arrays(T)
           /\ Range(r) = Heaviest(W, Range(bests) \cup C)
           /\ Level(W, r)
<1> DEFINE imp  == Improves(W, bests, C)
           top  == Heaviest(W, imp)
           same == \A c \in top : W[c] = W[bests[1]]
           kept == IF same THEN bests ELSE <<>>
<1>0. /\ bests[1] \in T /\ bests[1] \in Range(bests) /\ Range(bests) \subseteq T
      /\ bests \in Seq(T)
  BY NonEmptySeq DEF Arrays
<1>1. imp \subseteq C /\ imp \subseteq T /\ top \subseteq imp
  BY DEF Improves, Heaviest
<1>t. \A b \in Range(bests) \cup C : W[b] \in Nat
  BY <1>0
<1>2. PICK s \in WalkOrders(A, top) : r = kept \o s
  BY DEF FindBests
<1>3. s \in Seq(T) /\ Range(s) = top
  <2> HIDE DEF top
  <2> QED
    BY <1>1, <1>2, WalkOrdersType
<1>4. <<>> \in Seq(T) /\ Range(<<>>) = {}
  BY EmptySeq DEF Range
<1>5. kept \in Seq(T) /\ Range(kept) = IF same THEN Range(bests) ELSE {}
  <2> HIDE DEF same
  <2> QED
    BY <1>0, <1>4
<1>6. r \in Seq(T) /\ Range(r) = (IF same THEN Range(bests) ELSE {}) \cup top
  <2> HIDE DEF kept, top, same
  <2> QED
    BY <1>2, <1>3, <1>5, ConcatRange
<1>7. imp # {} => top # {}
  <2> HIDE DEF imp
  <2> QED
    BY <1>1, HeaviestExists
<1>8. Range(r) = Heaviest(W, Range(bests) \cup C)
  <2>1. CASE imp = {}
    <3>1. top = {} /\ same
      BY <2>1 DEF Heaviest
    <3>2. Heaviest(W, Range(bests) \cup C) = Range(bests)
      BY <2>1, NoImprovement
    <3> HIDE DEF imp, top, same
    <3> QED
      BY <1>6, <3>1, <3>2
  <2>2. CASE imp # {}
    <3>1. PICK t \in top : TRUE
      BY <1>7, <2>2
    <3>2. t \in imp /\ \A d \in imp : W[d] <= W[t]
      BY <3>1 DEF Heaviest
    <3>3. t \in C /\ W[t] >= W[bests[1]]
      BY <3>2 DEF Improves
    <3>4. \A c \in C : W[c] \in Nat /\ W[c] <= W[t]
      BY <1>0, <3>2, <3>3 DEF Improves
    <3>5. \A b \in Range(bests) : W[b] \in Nat /\ W[b] <= W[t]
      BY <1>0, <3>3 DEF Level
    <3>6. same <=> W[t] = W[bests[1]]
      <4>1. \A c \in top : W[c] = W[t]
        BY <1>1, <1>t, <3>1, <3>2 DEF Heaviest
      <4> HIDE DEF top, imp
      <4> QED
        BY <3>1, <4>1
    <3>7. Heaviest(W, Range(bests) \cup C) =
            {b \in Range(bests) \cup C : W[b] = W[t]}
      <4>1. ASSUME NEW b \in Heaviest(W, Range(bests) \cup C)
            PROVE  b \in Range(bests) \cup C /\ W[b] = W[t]
        <5>1. b \in Range(bests) \cup C /\ W[t] <= W[b]
          BY <3>3, <4>1 DEF Heaviest
        <5> QED
          BY <1>t, <3>3, <3>4, <3>5, <5>1
      <4>2. ASSUME NEW b \in Range(bests) \cup C, W[b] = W[t]
            PROVE  b \in Heaviest(W, Range(bests) \cup C)
        BY <3>4, <3>5, <4>2 DEF Heaviest
      <4> QED
        BY <4>1, <4>2
    <3>8. top = {b \in C : W[b] = W[t]}
      <4>1. ASSUME NEW b \in top PROVE b \in C /\ W[b] = W[t]
        BY <1>1, <1>t, <3>1, <3>2, <4>1 DEF Heaviest
      <4>2. ASSUME NEW b \in C, W[b] = W[t] PROVE b \in top
        <5>1. b \in imp
          BY <3>3, <4>2 DEF Improves
        <5> QED
          BY <3>2, <4>2, <5>1 DEF Heaviest
      <4> HIDE DEF top
      <4> QED
        BY <4>1, <4>2
    <3>9. {b \in Range(bests) : W[b] = W[t]} = IF same THEN Range(bests) ELSE {}
      <4> HIDE DEF same
      <4> QED
        BY <1>0, <3>6 DEF Level
    <3> HIDE DEF imp, top, same
    <3> QED
      BY <1>6, <3>7, <3>8, <3>9
  <2> QED
    BY <2>1, <2>2
<1>9. r # <<>>
  <2>1. Heaviest(W, Range(bests) \cup C) # {}
    BY <1>0, HeaviestExists
  <2> QED
    BY <1>4, <1>8, <2>1
<1>10. Level(W, r)
  <2>1. r[1] \in Range(r) /\ Range(r) \subseteq T
    BY <1>6, <1>9, NonEmptySeq DEF Arrays
  <2>2. ASSUME NEW b \in Range(r) PROVE W[b] = W[r[1]]
    <3>1. W[b] \in Nat /\ W[r[1]] \in Nat
      BY <2>1
    <3>2. W[b] <= W[r[1]] /\ W[r[1]] <= W[b]
      BY <1>8, <2>1 DEF Heaviest
    <3> QED
      BY <3>1, <3>2
  <2> QED
    BY <2>2 DEF Level
<1> QED
  BY <1>6, <1>8, <1>9, <1>10 DEF Arrays

-----------------------------------------------------------------------------
(* The two arrays. *)

(* The first entries connect if any do. *)
Connected(A, chains, knowns) ==
    ConnectedPairs(A, chains, knowns) # {} => knowns[1] \in A[chains[1]]

(* Swapping an entry to the front permutes the array. *)
LEMMA SwapProperties ==
    ASSUME NEW T, NEW s \in Arrays(T), NEW i \in DOMAIN s
    PROVE  /\ SwapToFront(s, i) \in Arrays(T)
           /\ Range(SwapToFront(s, i)) = Range(s)
           /\ SwapToFront(s, i)[1] = s[i]
<1> DEFINE t == SwapToFront(s, i)
<1>1. /\ Len(s) \in Nat \ {0} /\ s \in [1..Len(s) -> T]
      /\ DOMAIN s = 1..Len(s) /\ 1 \in DOMAIN s
  BY NonEmptySeq
<1>2. /\ t \in [1..Len(s) -> T]
      /\ t[1] = s[i] /\ t[i] = s[1]
      /\ \A j \in 1..Len(s) : j # 1 /\ j # i => t[j] = s[j]
  BY <1>1 DEF SwapToFront
<1> HIDE DEF t
<1>3. t \in Seq(T)
  BY <1>1, <1>2, SeqDef
<1>4. t # <<>>
  <2>1. DOMAIN t = 1..Len(s) /\ 1 \in 1..Len(s)
    BY <1>1, <1>2
  <2>2. DOMAIN <<>> = {}
    BY EmptySeq
  <2> QED
    BY <2>1, <2>2
<1>5. DOMAIN t = DOMAIN s
  BY <1>1, <1>2
<1>6. \A j \in DOMAIN s : \E k \in DOMAIN s : t[j] = s[k]
  BY <1>1, <1>2
<1>7. \A j \in DOMAIN s : \E k \in DOMAIN s : s[j] = t[k]
  BY <1>1, <1>2
<1>8. Range(t) = Range(s)
  <2>1. \A x : x \in Range(t) => x \in Range(s)
    BY <1>5, <1>6 DEF Range
  <2>2. \A x : x \in Range(s) => x \in Range(t)
    BY <1>5, <1>7 DEF Range
  <2> QED
    BY <2>1, <2>2
<1> QED
  BY <1>2, <1>3, <1>4, <1>8 DEF t, Arrays

(* Whether a pair connects depends on what the arrays hold, not where. *)
LEMMA PairsOfRanges ==
    ASSUME NEW A, NEW cs, NEW ks
    PROVE  ConnectedPairs(A, cs, ks) # {} <=>
               \E c \in Range(cs), k \in Range(ks) : k \in A[c]
<1>1. ASSUME ConnectedPairs(A, cs, ks) # {}
      PROVE  \E c \in Range(cs), k \in Range(ks) : k \in A[c]
  BY <1>1 DEF ConnectedPairs, Range
<1>2. ASSUME NEW c \in Range(cs), NEW k \in Range(ks), k \in A[c]
      PROVE  ConnectedPairs(A, cs, ks) # {}
  <2>1. PICK i \in DOMAIN cs : cs[i] = c
    BY DEF Range
  <2>2. PICK j \in DOMAIN ks : ks[j] = k
    BY DEF Range
  <2>3. <<i, j>> \in ConnectedPairs(A, cs, ks)
    BY <1>2, <2>1, <2>2 DEF ConnectedPairs
  <2> QED
    BY <2>3
<1> QED
  BY <1>1, <1>2

(* order_block_pointers() keeps what the arrays hold and connects them. *)
LEMMA OrderProperties ==
    ASSUME NEW T, NEW A, NEW cs \in Arrays(T), NEW ks \in Arrays(T),
           NEW r \in order_block_pointers(A, cs, ks)
    PROVE  /\ r.chains \in Arrays(T) /\ Range(r.chains) = Range(cs)
           /\ r.knowns \in Arrays(T) /\ Range(r.knowns) = Range(ks)
           /\ Connected(A, r.chains, r.knowns)
<1>1. CASE ConnectedPairs(A, cs, ks) = {}
  <2>1. r.chains = cs /\ r.knowns = ks
    BY <1>1 DEF order_block_pointers
  <2> QED
    BY <1>1, <2>1 DEF Connected
<1>2. CASE ConnectedPairs(A, cs, ks) # {}
  <2>1. PICK q \in FirstPairs(ConnectedPairs(A, cs, ks)) :
            r = [chains |-> SwapToFront(cs, q[1]), knowns |-> SwapToFront(ks, q[2])]
    BY <1>2 DEF order_block_pointers
  <2>2. q \in ConnectedPairs(A, cs, ks)
    BY <2>1 DEF FirstPairs
  <2>3. q[1] \in DOMAIN cs /\ q[2] \in DOMAIN ks /\ ks[q[2]] \in A[cs[q[1]]]
    BY <2>2 DEF ConnectedPairs
  <2>4. r.chains = SwapToFront(cs, q[1]) /\ r.knowns = SwapToFront(ks, q[2])
    BY <2>1
  <2> QED
    BY <2>3, <2>4, SwapProperties DEF Connected
<1> QED
  BY <1>1, <1>2

(* update_known() leaves the heaviest of the known blocks it had and met. *)
LEMMA UpdateKnownProperties ==
    ASSUME NEW T, IsFiniteSet(T), NEW A, NEW W \in [T -> Nat],
           NEW N \in Nat, Bounded(W, T, N),
           NEW cs \in Arrays(T), NEW ks \in Arrays(T),
           Level(W, ks),
           Connected(A, cs, ks),
           NEW C \in SUBSET T,
           NEW r \in update_known(A, W, cs, ks, C)
    PROVE  /\ r.chains \in Arrays(T) /\ Range(r.chains) = Range(cs)
           /\ r.knowns \in Arrays(T)
           /\ Range(r.knowns) = Heaviest(W, Range(ks) \cup C)
           /\ Connected(A, r.chains, r.knowns)
<1>1. CASE Improves(W, ks, C) = {}
  <2>1. r.chains = cs /\ r.knowns = ks
    BY <1>1 DEF update_known
  <2>2. Heaviest(W, Range(ks) \cup C) = Range(ks)
    BY <1>1, NoImprovement
  <2> QED
    BY <2>1, <2>2
<1>2. CASE Improves(W, ks, C) # {}
  <2>1. PICK k \in FindBests(A, W, ks, C) : r \in order_block_pointers(A, cs, k)
    BY <1>2 DEF update_known
  <2>2. k \in Arrays(T) /\ Range(k) = Heaviest(W, Range(ks) \cup C)
    BY FindBestsRange
  <2> QED
    BY <2>1, <2>2, OrderProperties
<1> QED
  BY <1>1, <1>2

-----------------------------------------------------------------------------
(* The tree. *)

(* What is used of a block's ancestors. *)
LEMMA AncestorFacts ==
    ASSUME TypeOK, TreeOK, NEW b \in Tree, NEW a \in anc[b]
    PROVE  /\ a \in Tree /\ a \in Nat /\ b \in Nat /\ a <= b
           /\ anc[a] \subseteq anc[b]
           /\ b \in anc[a] => a = b
<1>1. a \in Tree /\ a \in Nat /\ b \in Nat
  BY DEF TypeOK, Tree
<1>2. a <= b /\ anc[a] \subseteq anc[b]
  BY DEF TreeOK, OlderOK
<1>3. b \in anc[a] => b <= a
  BY <1>1 DEF TreeOK, OlderOK
<1> QED
  BY <1>1, <1>2, <1>3

(* A complaint that covers descendents leaves whole paths without one, so  *)
(* update_preferred_chain() misses no descendent that may be preferred.    *)
Mineable ==
    /\ work \in [Tree -> Nat]
    /\ longest_knowns[1] \in Tree \ complaint
    /\ RootedOK
    /\ ComplaintInherited

(* What walking down from longest_knowns[0] ends at has the most work      *)
(* among its descendents without complaint.                                *)
LEMMA PreferredFromWalk ==
    Mineable => MostWorkDescendents \subseteq
                    Heaviest(work, Desc(longest_knowns[1]) \ complaint)
<1> SUFFICES ASSUME Mineable, NEW p \in MostWorkDescendents
             PROVE  p \in Heaviest(work, Desc(longest_knowns[1]) \ complaint)
  OBVIOUS
<1> DEFINE root == longest_knowns[1]
           D    == Unblemished(root, complaint) \cup {root}
<1>1. root \in Tree /\ root \in anc[root] /\ work \in [Tree -> Nat]
  BY DEF Mineable, RootedOK
<1>2. p \in D /\ \A d \in D : work[d] < work[p] \/ work[d] = work[p]
  BY DEF MostWorkDescendents
<1>3. Desc(root) \ complaint \subseteq D
  BY DEF Unblemished, Mineable, ComplaintInherited, Desc
<1>4. p \in Desc(root) \ complaint
  BY <1>1, <1>2 DEF Unblemished, Desc, Mineable, RootedOK
<1>5. \A d \in Desc(root) \ complaint : work[d] <= work[p]
  <2>1. \A d \in Desc(root) : work[d] \in Nat
    BY <1>1 DEF Desc
  <2> HIDE DEF D
  <2> QED
    BY <1>2, <1>3, <1>4, <2>1
<1> QED
  BY <1>4, <1>5 DEF Heaviest

(* So what update_preferred_chain() stores is what PreferredIsBest asks. *)
LEMMA PreferredStored ==
    ASSUME Mineable', preferred_chain' \in MostWorkDescendents'
    PROVE  PreferredIsBest'
<1>1. (MostWorkDescendents \subseteq
           Heaviest(work, Desc(longest_knowns[1]) \ complaint))'
  BY PreferredFromWalk, PTL
<1> QED
  BY <1>1 DEF PreferredIsBest

(* The walk of update_known_recursive() marks a block only after all its   *)
(* ancestors.                                                              *)
LEMMA NewlyKnownSound ==
    ASSUME TypeOK, TreeOK, FlagsSound, NEW b \in Tree, NEW bad,
           NEW d \in NewlyKnown(b, bad)
    PROVE  /\ d \in Tree
           /\ block_all_known(contents[d])
           /\ anc[d] \subseteq all_known \cup NewlyKnown(b, bad)
<1>1. /\ prev[b] \in all_known
      /\ d \in Tree /\ b \in anc[d]
      /\ \A e \in anc[d] \cap Desc(b) :
             block_all_known(contents[e]) /\ (e = d \/ e \notin bad)
  BY DEF NewlyKnown, Desc
<1>2. d \in anc[d] /\ d \in Desc(b)
  BY <1>1 DEF TreeOK, RootedOK, Desc
<1>3. ASSUME NEW e \in anc[d]
      PROVE  e \in all_known \cup NewlyKnown(b, bad)
  <2>0. e \in Tree
    BY <1>1 DEF TypeOK
  <2>1. CASE b \in anc[e]
    <3>1. e \in Desc(b) /\ anc[e] \subseteq anc[d]
      BY <1>1, <2>0, <2>1, AncestorFacts DEF Desc
    <3>2. ASSUME NEW x \in anc[e] \cap Desc(b)
          PROVE  block_all_known(contents[x]) /\ (x = e \/ x \notin bad)
      <4>1. x \in anc[d] \cap Desc(b)
        BY <3>1
      <4>2. x = d => x = e
        BY <1>1, <2>0, AncestorFacts
      <4> QED
        BY <1>1, <4>1, <4>2
    <3> QED
      BY <1>1, <3>1, <3>2 DEF NewlyKnown
  <2>2. CASE b \notin anc[e]
    <3>1. e \in anc[b]
      BY <1>1, <2>2 DEF TreeOK, LinearOK
    <3>2. e # b
      BY <2>2 DEF TreeOK, RootedOK
    <3>3. b # Genesis
      BY <3>1, <3>2 DEF TreeOK, GenesisOK
    <3>4. e \in anc[prev[b]]
      BY <3>1, <3>2, <3>3 DEF TreeOK, ParentsOK
    <3> QED
      BY <1>1, <3>4 DEF FlagsSound
  <2> QED
    BY <2>1, <2>2
<1> QED
  BY <1>1, <1>2, <1>3

-----------------------------------------------------------------------------
(* The inductive invariant.  That work is bounded follows from the tree    *)
(* being finite, and is carried along because the longest arrays are       *)
(* maxima.                                                                 *)
WorkBounded == \E N \in Nat : Bounded(work, Tree, N)

Inv == ChainInv /\ WorkBounded

(* The tree with genesis alone. *)
LEMMA InitInv == Init => Inv
<1> SUFFICES ASSUME Init PROVE Inv
  OBVIOUS
<1>0. n = 0 /\ Tree = {0} /\ Genesis = 0
  BY DEF Init, Tree, Genesis
<1>1. <<0>> \in Seq({0}) \ {<<>>} /\ Range(<<0>>) = {0} /\ <<0>>[1] = 0 /\ DOMAIN <<0>> = {1}
  BY DEF Range
<1>2. TypeOK
  BY <1>0, <1>1, ChainAssumption DEF Init, TypeOK, Contents
<1>3. TreeOK
  BY <1>0 DEF Init, TreeOK, GenesisOK, ParentsOK, RootedOK, OlderOK, LighterOK, LinearOK
<1>4. Heaviest(work, {0}) = {0}
  BY <1>0 DEF Init, Heaviest
<1>5. ComplaintInherited /\ KnownFlagsExact /\ ResolvingOne
  BY <1>0 DEF Init, ComplaintInherited, KnownFlagsExact, FlagsSound, FlagsComplete,
              FullyKnown, ResolvingOne, block_all_known
<1>6. LongestChainsExact /\ KnownsMarked
  BY <1>0, <1>1, <1>4 DEF Init, LongestChainsExact, KnownsMarked
<1>7. PreferredIsBest /\ FirstPairConnected
  <2>1. Desc(0) \ complaint = {0}
    BY <1>0 DEF Init, Desc
  <2> QED
    BY <1>0, <1>1, <1>4, <2>1 DEF Init, PreferredIsBest, FirstPairConnected
<1>8. WorkBounded
  BY <1>0 DEF Init, WorkBounded, Bounded
<1> QED
  BY <1>2, <1>3, <1>5, <1>6, <1>7, <1>8 DEF Inv, ChainInv

(* Storing a hash makes no block known. *)
LEMMA TxhashInv ==
    ASSUME Inv, NEW b \in Tree, put_txhash_in_shard(b)
    PROVE  Inv'
<1> USE DEF Inv, ChainInv
<1>0. /\ UNCHANGED <<n, prev, anc, work, all_known, longest_chains, longest_knowns,
                    preferred_chain, complaint, resolving, stopped, Tree>>
      /\ contents[b] = "none" /\ contents'[b] \in {"none", "hashes"}
      /\ contents' \in [Tree -> Contents]
      /\ \A x \in Tree : x # b => contents'[x] = contents[x]
  BY DEF put_txhash_in_shard, tree, ptrs, Tree, TypeOK, Contents
<1>1. TypeOK'
  BY <1>0 DEF TypeOK
<1>2. \A x \in Tree : block_all_known(contents'[x]) <=> block_all_known(contents[x])
  BY <1>0 DEF block_all_known
<1>3. TreeOK'
  BY <1>0 DEF TreeOK, GenesisOK, ParentsOK, RootedOK, OlderOK, LighterOK, LinearOK, TypeOK
<1>4. FullyKnown' = FullyKnown
  BY <1>0, <1>2 DEF FullyKnown, TypeOK
<1>5. KnownFlagsExact'
  BY <1>0, <1>2, <1>4 DEF KnownFlagsExact, FlagsSound, FlagsComplete, TypeOK
<1>6. /\ ComplaintInherited' /\ ResolvingOne' /\ LongestChainsExact' /\ KnownsMarked'
      /\ FirstPairConnected' /\ WorkBounded' /\ PreferredIsBest'
  BY <1>0 DEF ComplaintInherited, ResolvingOne, LongestChainsExact, KnownsMarked,
              FirstPairConnected, WorkBounded, PreferredIsBest, Desc
<1> QED
  BY <1>1, <1>3, <1>5, <1>6

(* Storing a transaction can complete only paths through its block. *)
LEMMA TxInv ==
    ASSUME Inv, resolving = {}, NEW b \in Tree, put_tx_in_shard(b)
    PROVE  Inv'
<1> USE DEF Inv, ChainInv
<1>0. /\ UNCHANGED <<n, prev, anc, work, all_known, longest_chains, longest_knowns,
                    preferred_chain, complaint, stopped, Tree>>
      /\ resolving' = {b}
      /\ contents[b] \in {"none", "hashes"}
      /\ contents' \in [Tree -> Contents]
      /\ \A x \in Tree : x # b => contents'[x] = contents[x]
  BY DEF put_tx_in_shard, AfterTx, tree, ptrs, Tree, TypeOK, Contents
<1>1. TypeOK'
  BY <1>0 DEF TypeOK
<1>2. b # Genesis /\ b \notin all_known
  BY <1>0 DEF TreeOK, GenesisOK, KnownFlagsExact, FlagsSound, block_all_known
<1>3. TreeOK'
  BY <1>0, <1>2 DEF TreeOK, GenesisOK, ParentsOK, RootedOK, OlderOK, LighterOK, LinearOK, TypeOK
<1>4. FlagsSound'
  BY <1>0, <1>2 DEF KnownFlagsExact, FlagsSound, TypeOK
<1>5. FlagsComplete'
  <2> SUFFICES ASSUME NEW d \in FullyKnown', b \notin anc[d]
               PROVE  d \in all_known
    BY <1>0 DEF FlagsComplete
  <2>1. d \in Tree \ complaint /\ anc[d] \subseteq Tree
    BY <1>0 DEF FullyKnown, TypeOK
  <2>2. \A a \in anc[d] : block_all_known(contents[a])
    BY <1>0, <2>1 DEF FullyKnown
  <2>3. d \in FullyKnown
    BY <2>1, <2>2 DEF FullyKnown
  <2> QED
    BY <2>3 DEF KnownFlagsExact, FlagsComplete
<1>6. /\ ComplaintInherited' /\ ResolvingOne' /\ LongestChainsExact' /\ KnownsMarked'
      /\ FirstPairConnected' /\ WorkBounded' /\ PreferredIsBest'
  BY <1>0 DEF ComplaintInherited, ResolvingOne, LongestChainsExact, KnownsMarked,
              FirstPairConnected, WorkBounded, PreferredIsBest, Desc
<1> QED
  BY <1>1, <1>3, <1>4, <1>5, <1>6 DEF KnownFlagsExact

(* What the invariant says of the arrays, as the lemmas on them need it. *)
LEMMA ArrayFacts ==
    ASSUME Inv
    PROVE  /\ IsFiniteSet(Tree)
           /\ work \in [Tree -> Nat]
           /\ longest_chains \in Arrays(Tree) /\ longest_knowns \in Arrays(Tree)
           /\ Level(work, longest_chains) /\ Level(work, longest_knowns)
           /\ Connected(anc, longest_chains, longest_knowns)
           /\ longest_knowns[1] \in Heaviest(work, all_known \ complaint)
           /\ longest_chains[1] \in Heaviest(work, Tree \ complaint)
<1> USE DEF Inv, ChainInv
<1>1. IsFiniteSet(Tree)
  BY FS_Interval, 0 \in Int, n \in Int DEF Tree, TypeOK
<1>2. /\ work \in [Tree -> Nat]
      /\ longest_chains \in Arrays(Tree) /\ longest_knowns \in Arrays(Tree)
  BY DEF TypeOK, Arrays
<1>3. ASSUME NEW s \in Arrays(Tree), NEW S \in SUBSET Tree, Range(s) = Heaviest(work, S)
      PROVE  Level(work, s) /\ s[1] \in Heaviest(work, S)
  <2>1. s[1] \in Range(s)
    BY NonEmptySeq
  <2>2. ASSUME NEW b \in Range(s)
        PROVE  work[b] = work[s[1]]
    <3>1. work[b] <= work[s[1]] /\ work[s[1]] <= work[b]
      BY <1>3, <2>1 DEF Heaviest
    <3>2. b \in Tree /\ s[1] \in Tree
      BY <2>1, NonEmptySeq
    <3> QED
      BY <1>2, <3>1, <3>2
  <2> QED
    BY <1>3, <2>1, <2>2 DEF Level
<1>4. Level(work, longest_chains) /\ longest_chains[1] \in Heaviest(work, Tree \ complaint)
  BY <1>2, <1>3, Tree \ complaint \in SUBSET Tree DEF LongestChainsExact
<1>5. Level(work, longest_knowns) /\ longest_knowns[1] \in Heaviest(work, all_known \ complaint)
  <2>1. all_known \ complaint \in SUBSET Tree
    BY DEF TypeOK
  <2> QED
    BY <1>2, <1>3, <2>1 DEF KnownsMarked
<1>6. Connected(anc, longest_chains, longest_knowns)
  BY DEF FirstPairConnected, Connected
<1> QED
  BY <1>1, <1>2, <1>4, <1>5, <1>6

(* Filling a shard marks the blocks that are now known, and the arrays     *)
(* take them into account.                                                 *)
LEMMA NewShardInv ==
    ASSUME Inv, NEW b \in resolving, update_block_ptrs_new_shard(b)
    PROVE  Inv'
<1> USE DEF Inv, ChainInv
<1> DEFINE known == IF block_all_known(contents[b]) THEN NewlyKnown(b, complaint) ELSE {}
           C     == known \ complaint
<1>0. /\ UNCHANGED <<n, prev, anc, work, contents, complaint, stopped, Tree>>
      /\ all_known' = all_known \cup known
      /\ resolving' = {}
      /\ b \in Tree /\ resolving = {b}
  BY DEF update_block_ptrs_new_shard, tree, Tree, TypeOK, ResolvingOne
<1>1. PICK r \in update_known(anc, work, longest_chains, longest_knowns, C) :
          longest_chains' = r.chains /\ longest_knowns' = r.knowns
  BY DEF update_block_ptrs_new_shard
<1>2. known \in SUBSET Tree /\ C \in SUBSET Tree
  BY DEF NewlyKnown, Desc
<1> HIDE DEF C
<1>3. PICK N \in Nat : Bounded(work, Tree, N)
  BY DEF WorkBounded
<1>4. /\ longest_chains' \in Arrays(Tree) /\ Range(longest_chains') = Range(longest_chains)
      /\ longest_knowns' \in Arrays(Tree)
      /\ Range(longest_knowns') = Heaviest(work, Range(longest_knowns) \cup C)
      /\ Connected(anc, longest_chains', longest_knowns')
  BY <1>1, <1>2, <1>3, ArrayFacts, UpdateKnownProperties
<1>5. FlagsSound'
  <2> SUFFICES ASSUME NEW d \in all_known \cup known
               PROVE  anc[d] \subseteq all_known \cup known /\ block_all_known(contents[d])
    BY <1>0 DEF FlagsSound
  <2>1. CASE d \in all_known
    BY <2>1 DEF KnownFlagsExact, FlagsSound
  <2>2. CASE d \in known
    BY <1>0, <2>2, NewlyKnownSound DEF KnownFlagsExact
  <2> QED
    BY <2>1, <2>2
<1>6. FlagsComplete'
  <2>0. FullyKnown' = FullyKnown
    BY <1>0 DEF FullyKnown
  <2> SUFFICES ASSUME NEW d \in FullyKnown, d \notin all_known
               PROVE  d \in known
    BY <1>0, <2>0 DEF FlagsComplete
  <2>1. b \in anc[d]
    BY <1>0 DEF KnownFlagsExact, FlagsComplete
  <2>2. d \in Tree /\ anc[d] \cap complaint = {}
    BY DEF FullyKnown, ComplaintInherited
  <2>3. \A a \in anc[d] : block_all_known(contents[a])
    BY DEF FullyKnown
  <2>4. prev[b] \in all_known
    <3>1. CASE b = Genesis
      BY <3>1 DEF TreeOK, GenesisOK
    <3>2. CASE b # Genesis
      <4>1. prev[b] \in Tree /\ prev[b] < b /\ prev[b] \in anc[b]
        BY <1>0, <3>2 DEF TypeOK, TreeOK, ParentsOK, RootedOK
      <4>2. anc[b] \subseteq anc[d] /\ anc[prev[b]] \subseteq anc[b]
        BY <1>0, <2>1, <2>2, <4>1, AncestorFacts
      <4>3. prev[b] \in FullyKnown
        BY <2>2, <2>3, <4>1, <4>2 DEF FullyKnown
      <4>4. b \notin anc[prev[b]]
        BY <1>0, <4>1, AncestorFacts
      <4> QED
        BY <1>0, <4>3, <4>4 DEF KnownFlagsExact, FlagsComplete
    <3> QED
      BY <3>1, <3>2
  <2>5. d \in NewlyKnown(b, complaint)
    BY <2>1, <2>2, <2>3, <2>4 DEF NewlyKnown, Desc
  <2> QED
    BY <2>1, <2>3, <2>5
<1> HIDE DEF known
<1>7. LongestChainsExact'
  BY <1>0, <1>4 DEF LongestChainsExact
<1>8. KnownsMarked'
  <2> DEFINE S == all_known \ complaint
  <2>1. S \in SUBSET Tree /\ longest_knowns[1] \in Heaviest(work, S)
    BY ArrayFacts DEF TypeOK
  <2> HIDE DEF S
  <2>a. Weighed(work, S \cup C)
    BY <1>2, <2>1, ArrayFacts DEF Weighed
  <2>b. HeaviestStand(work, S, C)
    BY <2>1, <2>a, HeaviestUnion
  <2>2. Range(longest_knowns') = Heaviest(work, (all_known \ complaint) \cup C)
    BY <1>4, <2>b DEF KnownsMarked, S, HeaviestStand
  <2>3. (all_known \ complaint) \cup C = (all_known \cup known) \ complaint
    BY DEF C
  <2> QED
    BY <1>0, <2>2, <2>3 DEF KnownsMarked
<1>9. /\ TreeOK' /\ ComplaintInherited' /\ ResolvingOne' /\ WorkBounded'
      /\ FirstPairConnected'
  BY <1>0, <1>4 DEF TreeOK, GenesisOK, ParentsOK, RootedOK, OlderOK, LighterOK, LinearOK,
        ComplaintInherited, ResolvingOne, WorkBounded, FirstPairConnected, Connected
<1>10. PreferredIsBest'
  <2>1. CASE Improves(work, longest_knowns, C) = {}
    <3>1. longest_knowns' = longest_knowns
      BY <1>1, <2>1 DEF update_known
    <3>2. preferred_chain' = preferred_chain
      BY <2>1 DEF update_block_ptrs_new_shard, C, known
    <3> QED
      BY <1>0, <3>1, <3>2 DEF PreferredIsBest, Desc
  <2>2. CASE Improves(work, longest_knowns, C) # {}
    <3>1. preferred_chain' \in MostWorkDescendents'
      BY <2>2 DEF update_block_ptrs_new_shard, C, known
    <3>2. Mineable'
      <4>1. longest_knowns'[1] \in Tree \ complaint
        BY <1>0, <1>4, <1>8, NonEmptySeq DEF KnownsMarked, Heaviest
      <4> QED
        BY <1>0, <1>9, <4>1 DEF Mineable, TypeOK, TreeOK
    <3> QED
      BY <3>1, <3>2, PreferredStored
  <2> QED
    BY <2>1, <2>2
<1>11. TypeOK'
  <2>1. preferred_chain' \in Tree
    BY <1>0, <1>10 DEF PreferredIsBest, Heaviest, Desc
  <2> QED
    BY <1>0, <1>2, <1>4, <2>1 DEF TypeOK, Arrays
<1> QED
  BY <1>5, <1>6, <1>7, <1>8, <1>9, <1>10, <1>11 DEF KnownFlagsExact

(* The reason for stopping is not part of the argument. *)
LEMMA StopInv ==
    ASSUME Inv, UNCHANGED <<tree, ptrs, contents, complaint, resolving>>,
           stopped' \in {"running", "assertion", "null_tx"}
    PROVE  Inv'
<1>0. UNCHANGED <<n, prev, anc, work, contents, all_known, longest_chains, longest_knowns,
                  preferred_chain, complaint, resolving, Tree>>
  BY DEF tree, ptrs, Tree
<1>1. TypeOK'
  BY <1>0 DEF Inv, ChainInv, TypeOK
<1>2. TreeOK'
  BY <1>0 DEF Inv, ChainInv, TreeOK, GenesisOK, ParentsOK, RootedOK, OlderOK, LighterOK,
              LinearOK
<1>3. /\ ComplaintInherited' /\ KnownFlagsExact' /\ ResolvingOne' /\ LongestChainsExact'
      /\ KnownsMarked' /\ FirstPairConnected' /\ WorkBounded' /\ PreferredIsBest'
  BY <1>0 DEF Inv, ChainInv, ComplaintInherited, KnownFlagsExact, FlagsSound, FlagsComplete,
              FullyKnown, ResolvingOne, LongestChainsExact, KnownsMarked,
              FirstPairConnected, WorkBounded, PreferredIsBest, Desc
<1> QED
  BY <1>1, <1>2, <1>3 DEF Inv, ChainInv

(* A complaint makes the node recompute everything from genesis; the       *)
(* blocks marked before, and not blamed, are found again.                  *)
LEMMA ComplaintInv ==
    ASSUME Inv, NEW b \in Tree, publish_complaint(b)
    PROVE  Inv'
<1> USE DEF Inv, ChainInv
<1>a. CASE HasEmptySlot(Blamed(b)) /\ stopped' = "null_tx" /\ UNCHANGED <<ptrs, complaint>>
  BY <1>a, StopInv DEF publish_complaint
<1>b. CASE /\ complaint' = complaint \cup Blamed(b)
           /\ update_block_ptrs_invalidated(complaint \cup Blamed(b))
           /\ stopped' = IF check_chains' THEN "running" ELSE "assertion"
  <2> DEFINE bad   == complaint \cup Blamed(b)
             known == NewlyKnown(Genesis, bad)
             C     == known \ bad
             U     == Unblemished(Genesis, bad)
  <2>0. /\ UNCHANGED <<n, prev, anc, work, contents, resolving, Tree>>
        /\ complaint' = bad
        /\ all_known' = all_known \cup known
        /\ preferred_chain' \in MostWorkDescendents'
        /\ stopped' \in {"running", "assertion"}
        /\ b # Genesis /\ Genesis \in Tree
    BY <1>b DEF publish_complaint, update_block_ptrs_invalidated, tree, Tree, TreeOK, GenesisOK,
                TypeOK, Genesis
  <2>1. bad \subseteq Tree /\ Genesis \notin bad
    BY <2>0 DEF TypeOK, TreeOK, GenesisOK, Blamed, Desc
  <2>2. ComplaintInherited'
    <3> SUFFICES ASSUME NEW d \in Tree, NEW a \in anc[d], a \in bad
                 PROVE  d \in bad
      BY <2>0 DEF ComplaintInherited
    <3>1. CASE a \in complaint
      BY <3>1 DEF ComplaintInherited
    <3>2. CASE b \in anc[a]
      BY <3>2, AncestorFacts DEF Blamed, Desc
    <3> QED
      BY <3>1, <3>2 DEF Blamed, Desc
  <2>3. \A d \in Tree \ bad : anc[d] \cap bad = {}
    BY <2>0, <2>2 DEF ComplaintInherited
  <2>4. Desc(Genesis) = Tree
    BY DEF Desc, TreeOK, RootedOK
  <2>5. U = Tree \ bad
    BY <2>3, <2>4 DEF Unblemished, TreeOK, RootedOK
  <2>6. C = {d \in Tree \ bad : \A a \in anc[d] : block_all_known(contents[a])}
    <3>1. prev[Genesis] \in all_known
      BY DEF TreeOK, GenesisOK
    <3>2. \A d \in Tree : anc[d] \subseteq Tree
      BY DEF TypeOK
    <3>3. known = {d \in Tree : \A e \in anc[d] :
                     block_all_known(contents[e]) /\ (e = d \/ e \notin bad)}
      BY <2>4, <3>1, <3>2 DEF NewlyKnown
    <3> QED
      BY <2>3, <3>3
  <2>7. TreeOK' /\ ResolvingOne' /\ WorkBounded'
    BY <2>0, <2>1 DEF TreeOK, GenesisOK, ParentsOK, RootedOK, OlderOK, LighterOK, LinearOK,
                      ResolvingOne, WorkBounded
  <2>8. FlagsSound'
    <3> SUFFICES ASSUME NEW d \in all_known \cup known
                 PROVE  /\ anc[d] \subseteq all_known \cup known
                        /\ block_all_known(contents[d])
      BY <2>0 DEF FlagsSound
    <3>1. CASE d \in all_known
      BY <3>1 DEF KnownFlagsExact, FlagsSound
    <3>2. CASE d \in known
      BY <2>0, <3>2, NewlyKnownSound DEF KnownFlagsExact
    <3> QED
      BY <3>1, <3>2
  <2>9. FlagsComplete'
    <3>1. FullyKnown' = C
      BY <2>0, <2>6 DEF FullyKnown
    <3> QED
      BY <2>0, <3>1 DEF FlagsComplete
  <2>10. all_known' \ bad = C /\ Genesis \in C
    <3>1. all_known \ bad \subseteq C
      <4> SUFFICES ASSUME NEW d \in all_known, d \notin bad
                   PROVE  d \in C
        OBVIOUS
      <4>1. d \in Tree
        BY DEF TypeOK
      <4>2. \A a \in anc[d] : block_all_known(contents[a])
        BY DEF KnownFlagsExact, FlagsSound
      <4> QED
        BY <2>6, <4>1, <4>2
    <3>2. Genesis \in C
      BY <2>1, <3>1 DEF TreeOK, GenesisOK
    <3> QED
      BY <2>0, <3>1, <3>2
  <2> HIDE DEF U, C, bad, known
  <2> DEFINE g == <<Genesis>>
  <2>11. g \in Arrays(Tree) /\ Range(g) = {Genesis} /\ g[1] = Genesis /\ Level(work, g)
    <3>1. g \in Arrays(Tree) /\ DOMAIN g = {1} /\ g[1] = Genesis
      BY <2>0 DEF Arrays
    <3>2. Range(g) = {Genesis}
      BY <3>1 DEF Range
    <3> QED
      BY <3>1, <3>2 DEF Level
  <2> HIDE DEF g
  <2>12. PICK chains \in FindBests(anc, work, g, U) :
           \E r \in update_known(anc, work, chains, g, C) :
               longest_chains' = r.chains /\ longest_knowns' = r.knowns
    BY <1>b DEF update_block_ptrs_invalidated, g, U, C, bad, known
  <2>13. PICK r \in update_known(anc, work, chains, g, C) :
               longest_chains' = r.chains /\ longest_knowns' = r.knowns
    BY <2>12
  <2>14. PICK N \in Nat : Bounded(work, Tree, N)
    BY DEF WorkBounded
  <2>15. U \in SUBSET Tree /\ C \in SUBSET Tree /\ U = {Genesis} \cup U /\ C = {Genesis} \cup C
    BY <2>0, <2>1, <2>5, <2>6, <2>10
  <2>16. /\ chains \in Arrays(Tree)
         /\ Range(chains) = Heaviest(work, Range(g) \cup U)
    BY <2>11, <2>14, <2>15, ArrayFacts, FindBestsRange
  <2>17. Connected(anc, chains, g)
    <3>1. chains[1] \in Tree
      BY <2>16, NonEmptySeq
    <3> QED
      BY <2>11, <3>1 DEF Connected, TreeOK, RootedOK
  <2>18. /\ longest_chains' \in Arrays(Tree) /\ Range(longest_chains') = Range(chains)
         /\ longest_knowns' \in Arrays(Tree)
         /\ Range(longest_knowns') = Heaviest(work, Range(g) \cup C)
         /\ Connected(anc, longest_chains', longest_knowns')
    <3>1. IsFiniteSet(Tree) /\ work \in [Tree -> Nat]
      BY ArrayFacts
    <3>2. /\ r.chains \in Arrays(Tree) /\ Range(r.chains) = Range(chains)
          /\ r.knowns \in Arrays(Tree)
          /\ Range(r.knowns) = Heaviest(work, Range(g) \cup C)
          /\ Connected(anc, r.chains, r.knowns)
      <4> HIDE DEF Inv, ChainInv
      <4>1. g \in Arrays(Tree) /\ Level(work, g)
        BY <2>11
      <4>2. C \in SUBSET Tree
        BY <2>15
      <4> QED
        BY <2>13, <2>14, <2>16, <2>17, <3>1, <4>1, <4>2, UpdateKnownProperties
    <3> QED
      BY <2>13, <3>2
  <2>19. LongestChainsExact'
    BY <2>0, <2>5, <2>11, <2>15, <2>16, <2>18 DEF LongestChainsExact
  <2>20. KnownsMarked'
    BY <2>0, <2>10, <2>11, <2>15, <2>18 DEF KnownsMarked
  <2>21. FirstPairConnected'
    BY <2>0, <2>18 DEF FirstPairConnected, Connected
  <2>22. PreferredIsBest'
    <3>1. longest_knowns'[1] \in Tree \ bad
      <4>1. longest_knowns'[1] \in C
        BY <2>11, <2>15, <2>18, NonEmptySeq DEF Heaviest
      <4> QED
        BY <2>6, <4>1
    <3>2. Mineable'
      BY <2>0, <2>2, <2>7, <3>1 DEF Mineable, TypeOK, TreeOK
    <3> QED
      BY <2>0, <3>2, PreferredStored
  <2>23. TypeOK'
    <3>1. preferred_chain' \in Tree
      BY <2>0, <2>22 DEF PreferredIsBest, Heaviest, Desc
    <3>2. known \subseteq Tree
      BY DEF known, NewlyKnown, Desc
    <3> QED
      BY <2>0, <2>1, <2>18, <3>1, <3>2 DEF TypeOK, Arrays
  <2> QED
    BY <2>2, <2>7, <2>8, <2>9, <2>19, <2>20, <2>21, <2>22, <2>23 DEF KnownFlagsExact
<1> QED
  BY <1>a, <1>b DEF publish_complaint

-----------------------------------------------------------------------------
(* A new block. *)

(* W and V give the blocks of S the same work. *)
Agree(W, V, S) == \A b \in S : W[b] = V[b]

(* Only the works of the blocks of S decide which of them are heaviest. *)
LEMMA HeaviestAgree ==
    ASSUME NEW W, NEW V, NEW S, Agree(W, V, S)
    PROVE  Heaviest(W, S) = Heaviest(V, S)
BY DEF Agree, Heaviest

(* The array of the heaviest of S levels all its entries. *)
LEMMA LevelFromRange ==
    ASSUME NEW T, NEW W \in [T -> Nat], NEW s \in Arrays(T), NEW S, Range(s) = Heaviest(W, S)
    PROVE  Level(W, s)
<1>1. s[1] \in Range(s) /\ Range(s) \subseteq T
  BY NonEmptySeq
<1>2. ASSUME NEW b \in Range(s)
      PROVE  W[b] = W[s[1]]
  <2>1. W[b] <= W[s[1]] /\ W[s[1]] <= W[b]
    BY <1>1 DEF Heaviest
  <2>2. b \in T /\ s[1] \in T
    BY <1>1
  <2> QED
    BY <2>1, <2>2
<1> QED
  BY <1>2 DEF Level

(* What block_add() does to the tree. *)
Grown(p, w, c) ==
    /\ n' \in Nat /\ n' = n + 1 /\ n' \notin Tree /\ Tree' = Tree \cup {n'}
    /\ prev' \in [Tree' -> Tree'] /\ anc' \in [Tree' -> SUBSET Tree']
    /\ work' \in [Tree' -> Nat] /\ contents' \in [Tree' -> Contents]
    /\ prev'[n'] = p /\ anc'[n'] = anc[p] \cup {n'}
    /\ work'[n'] = work[p] + w /\ contents'[n'] = c
    /\ \A x \in Tree : /\ prev'[x] = prev[x] /\ anc'[x] = anc[x]
                       /\ work'[x] = work[x] /\ contents'[x] = contents[x]

(* block_add() grows the tree by one block and leaves the others alone. *)
LEMMA AddedBlock ==
    ASSUME Inv, NEW p \in Tree, NEW w \in Works, NEW c \in {"none", "empty"},
           block_add(p, w, c)
    PROVE  Grown(p, w, c)
<1> USE DEF Inv, ChainInv
<1> DEFINE b == n + 1
           New(f, v) == [x \in 0..b |-> IF x = b THEN v ELSE f[x]]
<1>1. /\ n \in Nat /\ b \in Nat /\ b \notin Tree /\ 0..b = Tree \cup {b}
      /\ n' = b /\ Tree' = 0..b
  <2>1. n \in Nat /\ b \in Nat /\ Tree = 0..n
    BY DEF TypeOK, Tree
  <2>2. n' = b /\ Tree' = 0..b
    BY DEF block_add, Tree, TotalWork
  <2>3. b \notin 0..n /\ 0..b = (0..n) \cup {b}
    BY <2>1
  <2> QED
    BY <2>1, <2>2, <2>3
<1>2. /\ prev' = New(prev, p) /\ anc' = New(anc, anc[p] \cup {b})
      /\ work' = New(work, work[p] + w) /\ contents' = New(contents, c)
  BY DEF block_add, TotalWork
<1>3. /\ prev \in [Tree -> Tree] /\ anc \in [Tree -> SUBSET Tree]
      /\ work \in [Tree -> Nat] /\ contents \in [Tree -> Contents]
      /\ w \in Nat /\ c \in Contents
  BY ChainAssumption DEF TypeOK, Contents
<1> HIDE DEF b
<1>4. /\ prev'[b] = p /\ anc'[b] = anc[p] \cup {b}
      /\ work'[b] = work[p] + w /\ contents'[b] = c
  BY <1>1, <1>2
<1>5. \A x \in Tree : /\ prev'[x] = prev[x] /\ anc'[x] = anc[x]
                      /\ work'[x] = work[x] /\ contents'[x] = contents[x]
  BY <1>1, <1>2
<1>6. prev' \in [Tree' -> Tree'] /\ contents' \in [Tree' -> Contents]
  BY <1>1, <1>2, <1>3
<1>7. anc' \in [Tree' -> SUBSET Tree']
  BY <1>1, <1>2, <1>3
<1>8. work' \in [Tree' -> Nat]
  <2>1. work[p] + w \in Nat
    BY <1>3
  <2> QED
    BY <1>1, <1>2, <1>3, <2>1
<1> QED
  BY <1>1, <1>4, <1>5, <1>6, <1>7, <1>8 DEF Grown, b

(* A tree that has grown by one block is still one. *)
LEMMA GrownTree ==
    ASSUME Inv, NEW p \in Tree, NEW w \in Works, NEW c, Grown(p, w, c),
           all_known \subseteq all_known', complaint' \subseteq complaint \cup {n'}
    PROVE  TreeOK' /\ WorkBounded'
<1> USE DEF Inv, ChainInv
<1> DEFINE b == n'
<1>0. /\ Genesis \in Tree /\ Genesis # b /\ anc[p] \subseteq Tree /\ b \notin anc[p]
      /\ p < b /\ p \in Nat /\ b \in Nat /\ n \in Nat /\ b = n + 1
      /\ \A x \in Tree : x \in Nat /\ x < b /\ anc[x] \subseteq Tree
  <2>1. n \in Nat /\ b = n + 1 /\ b \in Nat /\ Tree = 0..n
    BY DEF Grown, TypeOK, Tree
  <2>2. \A x \in Tree : x \in Nat /\ x < b
    BY <2>1
  <2>3. \A x \in Tree : anc[x] \subseteq Tree
    BY DEF TypeOK
  <2>4. Genesis \in Tree
    BY <2>1 DEF Genesis
  <2> QED
    BY <2>1, <2>2, <2>3, <2>4
<1>1. GenesisOK'
  BY <1>0 DEF Grown, TreeOK, GenesisOK
<1>2. ParentsOK'
  <2>1. ASSUME NEW x \in Tree \ {Genesis}
        PROVE  prev'[x] < x /\ anc'[x] = anc'[prev'[x]] \cup {x}
    <3>1. prev[x] \in Tree /\ prev[x] < x /\ anc[x] = anc[prev[x]] \cup {x}
      BY DEF TypeOK, TreeOK, ParentsOK
    <3>2. prev'[x] = prev[x] /\ anc'[x] = anc[x] /\ anc'[prev[x]] = anc[prev[x]]
      BY <3>1 DEF Grown
    <3> QED
      BY <3>1, <3>2
  <2>2. prev'[b] < b /\ anc'[b] = anc'[prev'[b]] \cup {b}
    BY <1>0 DEF Grown
  <2>3. Genesis' = Genesis
    BY DEF Genesis
  <2> QED
    BY <2>1, <2>2, <2>3 DEF Grown, ParentsOK
<1>3. RootedOK'
  BY <1>0 DEF Grown, TreeOK, RootedOK, Genesis
<1>4. OlderOK'
  <2>1. ASSUME NEW x \in Tree, NEW a \in anc'[x]
        PROVE  a <= x /\ anc'[a] \subseteq anc'[x]
    BY <1>0 DEF Grown, TreeOK, OlderOK
  <2>2. ASSUME NEW a \in anc[p]
        PROVE  a <= b /\ anc'[a] \subseteq anc'[b]
    <3>1. a \in Tree /\ anc[a] \subseteq anc[p]
      BY <1>0, <2>2, AncestorFacts
    <3> QED
      BY <1>0, <3>1 DEF Grown
  <2>3. b <= b
    BY <1>0
  <2> QED
    BY <2>1, <2>2, <2>3 DEF Grown, OlderOK
<1>5. LighterOK'
  <2>1. ASSUME NEW x \in Tree, NEW a \in anc'[x], a # x
        PROVE  work'[a] < work'[x]
    BY <1>0, <2>1 DEF Grown, TreeOK, LighterOK
  <2>2. ASSUME NEW a \in anc[p]
        PROVE  work'[a] < work'[b]
    <3>1. a \in Tree /\ work[a] \in Nat /\ work[p] \in Nat /\ w \in Nat \ {0}
      BY <1>0, <2>2, ChainAssumption DEF TypeOK
    <3>2. work[a] < work[p] \/ a = p
      BY <2>2 DEF TreeOK, LighterOK
    <3>3. work'[a] = work[a] /\ work'[b] = work[p] + w
      BY <3>1 DEF Grown
    <3> QED
      BY <3>1, <3>2, <3>3
  <2> QED
    BY <2>1, <2>2 DEF Grown, LighterOK
<1>6. LinearOK'
  <2>1. ASSUME NEW x \in Tree, NEW a \in anc'[x], NEW e \in anc'[x]
        PROVE  a \in anc'[e] \/ e \in anc'[a]
    BY <1>0 DEF Grown, TreeOK, LinearOK
  <2>2. ASSUME NEW a \in anc'[b], NEW e \in anc'[b]
        PROVE  a \in anc'[e] \/ e \in anc'[a]
    <3>1. CASE a = b \/ e = b
      BY <3>1
    <3>2. CASE a \in anc[p] /\ e \in anc[p]
      BY <1>0, <3>2 DEF Grown, TreeOK, LinearOK
    <3> QED
      BY <3>1, <3>2 DEF Grown
  <2> QED
    BY <2>1, <2>2 DEF Grown, LinearOK
<1>7. WorkBounded'
  <2>1. PICK N \in Nat : Bounded(work, Tree, N)
    BY DEF WorkBounded
  <2>2. N + w \in Nat /\ w \in Nat
    BY ChainAssumption
  <2>3. \A x \in Tree : work'[x] \in Nat /\ work'[x] <= N
    BY <2>1 DEF Grown, Bounded
  <2>4. work'[b] <= N + w
    <3>1. work[p] <= N /\ work[p] \in Nat
      BY <2>1 DEF Bounded, TypeOK
    <3> QED
      BY <2>2, <3>1 DEF Grown
  <2>5. Bounded(work', Tree', N + w)
    BY <2>2, <2>3, <2>4 DEF Grown, Bounded
  <2> QED
    BY <2>2, <2>5 DEF WorkBounded
<1> QED
  BY <1>1, <1>2, <1>3, <1>4, <1>5, <1>6, <1>7 DEF TreeOK

(* A block on top of one with a complaint gets the complaint and changes   *)
(* no pointer.                                                             *)
LEMMA BlamedBlockInv ==
    ASSUME Inv, resolving = {}, NEW p \in complaint, NEW w \in Works,
           NEW c \in {"none", "empty"}, Grown(p, w, c),
           complaint' = complaint \cup {n'}, UNCHANGED ptrs, UNCHANGED resolving,
           n' \in 0..MaxBlocks, stopped' \in {"running", "assertion"}
    PROVE  Inv'
<1> USE DEF Inv, ChainInv
<1>0. /\ UNCHANGED <<all_known, longest_chains, longest_knowns, preferred_chain>>
      /\ p \in Tree /\ n' \notin Tree /\ all_known \subseteq Tree /\ complaint \subseteq Tree
      /\ anc[p] \subseteq Tree
      /\ Tree' = Tree \cup {n'}
      /\ \A x \in Tree : /\ anc'[x] = anc[x] /\ work'[x] = work[x]
                         /\ contents'[x] = contents[x] /\ anc[x] \subseteq Tree
  BY DEF ptrs, Grown, TypeOK
<1>1. TreeOK' /\ WorkBounded'
  BY <1>0, GrownTree
<1>2. Tree' \ complaint' = Tree \ complaint /\ all_known \ complaint' = all_known \ complaint
  BY <1>0
<1>3. TypeOK'
  <2>1. longest_chains \in Seq(Tree') \ {<<>>} /\ longest_knowns \in Seq(Tree') \ {<<>>}
    BY <1>0 DEF TypeOK
  <2>2. preferred_chain \in Tree'
    BY <1>0 DEF TypeOK
  <2> QED
    BY <1>0, <2>1, <2>2 DEF TypeOK, Grown
<1>4. ComplaintInherited'
  BY <1>0 DEF ComplaintInherited
<1>5. KnownFlagsExact'
  <2>1. FullyKnown' = FullyKnown
    BY <1>0, <1>2 DEF FullyKnown
  <2> QED
    BY <1>0, <2>1 DEF KnownFlagsExact, FlagsSound, FlagsComplete, FullyKnown
<1>6. LongestChainsExact' /\ KnownsMarked'
  <2>1. Agree(work', work, Tree \ complaint) /\ Agree(work', work, all_known \ complaint)
    BY <1>0 DEF Agree
  <2>2. Heaviest(work', Tree \ complaint) = Heaviest(work, Tree \ complaint)
    BY <2>1, HeaviestAgree
  <2>3. Heaviest(work', all_known \ complaint) = Heaviest(work, all_known \ complaint)
    BY <2>1, HeaviestAgree
  <2> QED
    BY <1>0, <1>2, <2>2, <2>3 DEF LongestChainsExact, KnownsMarked
<1>7. PreferredIsBest'
  <2> DEFINE k == longest_knowns[1]
  <2>1. (Desc(k) \ complaint)' = Desc(k) \ complaint
    BY <1>0 DEF Desc
  <2>2. Agree(work', work, Desc(k) \ complaint)
    BY <1>0 DEF Agree, Desc
  <2>3. Heaviest(work', Desc(k) \ complaint) = Heaviest(work, Desc(k) \ complaint)
    BY <2>2, HeaviestAgree
  <2> QED
    BY <1>0, <2>1, <2>3 DEF PreferredIsBest
<1>8. FirstPairConnected'
  <2>1. Range(longest_chains) \subseteq Tree /\ longest_chains[1] \in Tree
    BY ArrayFacts, NonEmptySeq
  <2>2. Connected(anc, longest_chains, longest_knowns)
    BY ArrayFacts
  <2>3. Connected(anc', longest_chains, longest_knowns)
    BY <1>0, <2>1, <2>2, PairsOfRanges DEF Connected
  <2> QED
    BY <1>0, <2>3 DEF FirstPairConnected, Connected
<1>9. ResolvingOne'
  BY DEF ResolvingOne
<1> QED
  BY <1>1, <1>3, <1>4, <1>5, <1>6, <1>7, <1>8, <1>9

(* The first step of update_block_ptrs_new_block(). *)
LEMMA NewLongestProperties ==
    ASSUME Inv, NEW p \in Tree, NEW w \in Works, NEW c, Grown(p, w, c),
           NEW first \in NewLongest(n')
    PROVE  /\ first.chains \in Arrays(Tree')
           /\ Range(first.chains) = Heaviest(work', (Tree \ complaint) \cup {n'})
           /\ first.knowns \in Arrays(Tree')
           /\ Range(first.knowns) = Range(longest_knowns)
           /\ Connected(anc', first.chains, first.knowns)
<1> DEFINE b    == n'
           lead == longest_chains[1]
           S    == Tree \ complaint
           R    == Range(longest_chains)
<1>0. /\ Tree' = Tree \cup {b} /\ work' \in [Tree' -> Nat]
      /\ \A x \in Tree : anc'[x] = anc[x] /\ work'[x] = work[x]
  BY DEF Grown
<1>1. /\ longest_chains \in Arrays(Tree) /\ longest_knowns \in Arrays(Tree)
      /\ longest_chains \in Arrays(Tree') /\ longest_knowns \in Arrays(Tree')
      /\ R \subseteq Tree /\ lead \in Tree /\ lead \in R
      /\ Level(work, longest_chains)
      /\ Connected(anc, longest_chains, longest_knowns)
      /\ R = Heaviest(work, S) /\ lead \in Heaviest(work, S)
  <2>1. /\ longest_chains \in Arrays(Tree) /\ longest_knowns \in Arrays(Tree)
        /\ Level(work, longest_chains)
        /\ Connected(anc, longest_chains, longest_knowns)
        /\ lead \in Heaviest(work, S)
    BY ArrayFacts
  <2>2. R \subseteq Tree /\ lead \in Tree /\ lead \in R
    BY <2>1, NonEmptySeq
  <2>3. longest_chains \in Arrays(Tree') /\ longest_knowns \in Arrays(Tree')
    BY <1>0, <2>1 DEF Arrays
  <2> QED
    BY <2>1, <2>2, <2>3 DEF Inv, ChainInv, LongestChainsExact
<1>2. \A x \in R : work'[x] = work'[lead]
  BY <1>0, <1>1 DEF Level
<1>3. Heaviest(work', R \cup {b}) = Heaviest(work', S \cup {b})
  <2>1. Agree(work', work, S)
    BY <1>0 DEF Agree
  <2>2. Heaviest(work', S) = Heaviest(work, S)
    BY <2>1, HeaviestAgree
  <2>3. Weighed(work', S \cup {b})
    BY <1>0 DEF Weighed
  <2>4. lead \in Heaviest(work', S)
    BY <1>1, <2>2
  <2> HIDE DEF S, b, lead
  <2>5. HeaviestStand(work', S, {b})
    BY <2>3, <2>4, HeaviestUnion
  <2> QED
    BY <1>1, <2>2, <2>5 DEF HeaviestStand
<1>4. work'[b] \in Nat /\ work'[lead] \in Nat
  BY <1>0, <1>1
<1>5. CASE work'[b] > work'[lead]
  <2>0. work'[b] # work'[lead]
    BY <1>4, <1>5
  <2>1. first \in order_block_pointers(anc', <<b>>, longest_knowns)
    BY <1>5, <2>0 DEF NewLongest
  <2>2. <<b>> \in Arrays(Tree') /\ Range(<<b>>) = {b}
    BY <1>0 DEF Arrays, Range
  <2>3. Heaviest(work', R \cup {b}) = {b}
    BY <1>1, <1>2, <1>4, <1>5 DEF Heaviest
  <2>4. /\ first.chains \in Arrays(Tree') /\ Range(first.chains) = Range(<<b>>)
        /\ first.knowns \in Arrays(Tree') /\ Range(first.knowns) = Range(longest_knowns)
        /\ Connected(anc', first.chains, first.knowns)
    <3> HIDE DEF b
    <3> QED
      BY <1>1, <2>1, <2>2, OrderProperties
  <2> QED
    BY <1>3, <2>2, <2>3, <2>4
<1>6. CASE work'[b] = work'[lead]
  <2>1. ~(work'[b] > work'[lead])
    BY <1>4, <1>6
  <2>2. first \in order_block_pointers(anc', Append(longest_chains, b), longest_knowns)
    BY <1>6, <2>1 DEF NewLongest
  <2>3. Append(longest_chains, b) \in Arrays(Tree') /\ Range(Append(longest_chains, b)) = R \cup {b}
    <3>1. /\ longest_chains \in Seq(Tree') /\ b \in Tree'
      BY <1>0, <1>1 DEF Arrays
    <3> QED
      BY <3>1, AppendRange
  <2>4. Heaviest(work', R \cup {b}) = R \cup {b}
    BY <1>1, <1>2, <1>4, <1>6 DEF Heaviest
  <2> DEFINE longer == Append(longest_chains, b)
  <2>5. /\ first.chains \in Arrays(Tree') /\ Range(first.chains) = Range(longer)
        /\ first.knowns \in Arrays(Tree') /\ Range(first.knowns) = Range(longest_knowns)
        /\ Connected(anc', first.chains, first.knowns)
    <3>1. longer \in Arrays(Tree') /\ first \in order_block_pointers(anc', longer, longest_knowns)
      BY <2>2, <2>3
    <3> HIDE DEF longer
    <3> QED
      BY <1>1, <3>1, OrderProperties
  <2> QED
    BY <1>3, <2>3, <2>4, <2>5
<1>7. CASE work'[b] < work'[lead]
  <2>1. ~(work'[b] > work'[lead]) /\ work'[b] # work'[lead]
    BY <1>4, <1>7
  <2>2. first.chains = longest_chains /\ first.knowns = longest_knowns
    BY <2>1 DEF NewLongest
  <2>3. Heaviest(work', R \cup {b}) = R
    BY <1>1, <1>2, <1>4, <1>7 DEF Heaviest
  <2>4. Connected(anc', longest_chains, longest_knowns)
    BY <1>0, <1>1, PairsOfRanges DEF Connected
  <2> QED
    BY <1>1, <1>3, <2>2, <2>3, <2>4
<1> QED
  BY <1>4, <1>5, <1>6, <1>7

(* A block on top of one without complaint joins the longest chains if it  *)
(* is as heavy, and the longest known blocks if nothing of it is missing.  *)
LEMMA FreshBlockInv ==
    ASSUME Inv, resolving = {}, NEW p \in Tree \ complaint, NEW w \in Works,
           NEW c \in {"none", "empty"}, Grown(p, w, c),
           UNCHANGED <<complaint, resolving>>,
           update_block_ptrs_new_block(n', p, c),
           n' \in 0..MaxBlocks, stopped' \in {"running", "assertion"}
    PROVE  Inv'
<1> USE DEF Inv, ChainInv
<1> DEFINE b == n'
           K == KnownAtOnce(b, p, c)
<1>0. /\ complaint' = complaint /\ resolving' = {} /\ all_known' = all_known \cup K
      /\ preferred_chain' \in MostWorkDescendents'
      /\ b \notin Tree /\ all_known \subseteq Tree /\ complaint \subseteq Tree
      /\ anc[p] \subseteq Tree
      /\ Tree' = Tree \cup {b} /\ work' \in [Tree' -> Nat]
      /\ anc'[b] = anc[p] \cup {b} /\ contents'[b] = c
      /\ \A x \in Tree : /\ anc'[x] = anc[x] /\ work'[x] = work[x]
                         /\ contents'[x] = contents[x] /\ anc[x] \subseteq Tree
  BY DEF update_block_ptrs_new_block, Grown, TypeOK
<1>1. TreeOK' /\ WorkBounded'
  BY <1>0, GrownTree
<1>2. K = (IF block_all_known(c) /\ p \in all_known THEN {b} ELSE {}) /\ K \in SUBSET Tree'
  BY <1>0 DEF KnownAtOnce
<1>3. PICK first \in NewLongest(b) :
        \E r \in update_known(anc', work', first.chains, first.knowns, K) :
            longest_chains' = r.chains /\ longest_knowns' = r.knowns
  BY DEF update_block_ptrs_new_block
<1>4. PICK r \in update_known(anc', work', first.chains, first.knowns, K) :
            longest_chains' = r.chains /\ longest_knowns' = r.knowns
  BY <1>3
<1>5. /\ first.chains \in Arrays(Tree')
      /\ Range(first.chains) = Heaviest(work', (Tree \ complaint) \cup {b})
      /\ first.knowns \in Arrays(Tree')
      /\ Range(first.knowns) = Range(longest_knowns)
      /\ Connected(anc', first.chains, first.knowns)
  BY <1>3, NewLongestProperties
<1> DEFINE S == all_known \ complaint
<1>6. Range(longest_knowns) = Heaviest(work', S) /\ longest_knowns[1] \in Heaviest(work', S)
  <2>1. Agree(work', work, S)
    BY <1>0 DEF Agree
  <2>2. Heaviest(work', S) = Heaviest(work, S)
    BY <2>1, HeaviestAgree
  <2> QED
    BY <2>2, ArrayFacts DEF KnownsMarked
<1>7. /\ longest_chains' \in Arrays(Tree')
      /\ Range(longest_chains') = Heaviest(work', (Tree \ complaint) \cup {b})
      /\ longest_knowns' \in Arrays(Tree')
      /\ Range(longest_knowns') = Heaviest(work', Range(longest_knowns) \cup K)
      /\ Connected(anc', longest_chains', longest_knowns')
  <2>1. PICK N \in Nat : Bounded(work', Tree', N)
    BY <1>1 DEF WorkBounded
  <2>2. Level(work', first.knowns)
    BY <1>0, <1>5, <1>6, LevelFromRange
  <2>3. IsFiniteSet(Tree')
    BY FS_Interval, 0 \in Int, n' \in Int DEF Tree
  <2> HIDE DEF K, b, Inv, ChainInv
  <2>4. /\ r.chains \in Arrays(Tree') /\ Range(r.chains) = Range(first.chains)
        /\ r.knowns \in Arrays(Tree')
        /\ Range(r.knowns) = Heaviest(work', Range(first.knowns) \cup K)
        /\ Connected(anc', r.chains, r.knowns)
    <3> DEFINE fc == first.chains
               fk == first.knowns
    <3>1. /\ fc \in Arrays(Tree') /\ fk \in Arrays(Tree') /\ Level(work', fk)
          /\ Connected(anc', fc, fk) /\ r \in update_known(anc', work', fc, fk, K)
      BY <1>4, <1>5, <2>2
    <3>2. work' \in [Tree' -> Nat] /\ K \in SUBSET Tree'
      BY <1>0, <1>2
    <3> HIDE DEF fc, fk
    <3>3. /\ r.chains \in Arrays(Tree') /\ Range(r.chains) = Range(fc)
          /\ r.knowns \in Arrays(Tree')
          /\ Range(r.knowns) = Heaviest(work', Range(fk) \cup K)
          /\ Connected(anc', r.chains, r.knowns)
      BY <2>1, <2>3, <3>1, <3>2, UpdateKnownProperties
    <3> QED
      BY <3>3 DEF fc, fk
  <2> QED
    BY <1>4, <1>5, <2>4
<1>8. LongestChainsExact'
  <2>1. (Tree \ complaint)' = (Tree \ complaint) \cup {b}
    BY <1>0
  <2> QED
    BY <1>7, <2>1 DEF LongestChainsExact
<1>9. KnownsMarked'
  <2>1. (all_known \ complaint)' = S \cup K
    BY <1>0, <1>2
  <2>2. Weighed(work', S \cup K)
    BY <1>0, <1>2 DEF Weighed
  <2>3. HeaviestStand(work', S, K)
    <3> HIDE DEF S, K
    <3> QED
      BY <1>6, <2>2, HeaviestUnion
  <2> HIDE DEF S, K
  <2> QED
    BY <1>6, <1>7, <2>1, <2>3 DEF KnownsMarked, HeaviestStand
<1>10. FlagsSound'
  <2>1. ASSUME NEW d \in all_known
        PROVE  anc'[d] \subseteq all_known \cup K /\ block_all_known(contents'[d])
    BY <1>0 DEF KnownFlagsExact, FlagsSound
  <2>2. ASSUME NEW d \in K
        PROVE  anc'[d] \subseteq all_known \cup K /\ block_all_known(contents'[d])
    BY <1>0, <1>2 DEF KnownFlagsExact, FlagsSound
  <2> QED
    BY <1>0, <2>1, <2>2 DEF FlagsSound
<1>11. FlagsComplete'
  <2> SUFFICES ASSUME NEW d \in FullyKnown'
               PROVE  d \in all_known \cup K
    BY <1>0 DEF FlagsComplete
  <2>1. CASE d \in Tree
    <3>1. d \in FullyKnown
      BY <1>0, <2>1 DEF FullyKnown
    <3> QED
      BY <3>1 DEF KnownFlagsExact, FlagsComplete
  <2>2. CASE d = b
    <3>1. p \in FullyKnown /\ block_all_known(c)
      BY <1>0, <2>2 DEF FullyKnown
    <3>2. p \in all_known
      BY <3>1 DEF KnownFlagsExact, FlagsComplete
    <3> QED
      BY <1>2, <2>2, <3>1, <3>2
  <2> QED
    BY <1>0, <2>1, <2>2 DEF FullyKnown
<1>12. ComplaintInherited'
  <2> SUFFICES ASSUME NEW d \in Tree', anc'[d] \cap complaint # {}
               PROVE  d \in complaint
    BY <1>0 DEF ComplaintInherited
  <2>1. CASE d \in Tree
    BY <1>0, <2>1 DEF ComplaintInherited
  <2>2. CASE d = b
    <3>1. anc[p] \cap complaint # {}
      BY <1>0, <2>2
    <3> QED
      BY <3>1 DEF ComplaintInherited
  <2> QED
    BY <1>0, <2>1, <2>2
<1>13. PreferredIsBest'
  <2>1. longest_knowns'[1] \in (Tree \ complaint)'
    <3>1. longest_knowns'[1] \in (all_known \ complaint)'
      BY <1>7, <1>9, NonEmptySeq DEF KnownsMarked, Heaviest
    <3> QED
      BY <1>0, <1>2, <3>1
  <2>2. Mineable'
    BY <1>0, <1>1, <1>12, <2>1 DEF Mineable, TreeOK
  <2> QED
    BY <1>0, <2>2, PreferredStored
<1>14. TypeOK'
  <2>1. preferred_chain' \in Tree'
    BY <1>13 DEF PreferredIsBest, Heaviest, Desc
  <2> QED
    BY <1>0, <1>2, <1>7, <2>1 DEF TypeOK, Grown, Arrays
<1>15. FirstPairConnected' /\ ResolvingOne'
  BY <1>0, <1>7 DEF FirstPairConnected, Connected, ResolvingOne
<1> QED
  BY <1>1, <1>8, <1>9, <1>10, <1>11, <1>12, <1>13, <1>14, <1>15 DEF KnownFlagsExact

(* block_add(), with a complaint about the block before it or without. *)
LEMMA BlockAddInv ==
    ASSUME Inv, resolving = {}, NEW p \in Tree, NEW w \in Works,
           NEW c \in {"none", "empty"}, block_add(p, w, c)
    PROVE  Inv'
<1>1. Grown(p, w, c)
  BY AddedBlock
<1>2. /\ n' \in 0..MaxBlocks /\ stopped' \in {"running", "assertion"}
      /\ UNCHANGED resolving /\ n' = n + 1
  BY ChainAssumption DEF block_add, Inv, ChainInv, TypeOK
<1>3. CASE p \in complaint /\ complaint' = complaint \cup {n + 1} /\ UNCHANGED ptrs
  BY <1>1, <1>2, <1>3, BlamedBlockInv
<1>4. CASE /\ p \notin complaint /\ UNCHANGED complaint
           /\ update_block_ptrs_new_block(n + 1, p, c)
  BY <1>1, <1>2, <1>4, FreshBlockInv
<1> QED
  BY <1>3, <1>4 DEF block_add

-----------------------------------------------------------------------------
(* The head: longest_knowns[0], on which the node mines. *)

(* The head `old' stays, or gives way to `new' because it leads to none of *)
(* the chains and the new one does.                                        *)
Overtaken(A, chains, old, new) ==
    new \in A[chains[1]] /\ \A c \in Range(chains) : old \notin A[c]
Stays(A, chains, old, new) == new = old \/ Overtaken(A, chains, old, new)

(* If the head leads to any chain, it leads to one that is not behind any  *)
(* that a known block leads to.                                            *)
HeadLeads(A, cs, ks) ==
    (\E c \in Range(cs) : ks[1] \in A[c]) =>
        \A i \in DOMAIN cs, j \in DOMAIN ks :
            ks[j] \in A[cs[i]] => \E k \in DOMAIN cs : k <= i /\ ks[1] \in A[cs[k]]

(* order_block_pointers() takes the first pair: a head that leads, stays. *)
LEMMA OrderKeepsHead ==
    ASSUME NEW T, NEW A, NEW cs \in Arrays(T), NEW ks \in Arrays(T), HeadLeads(A, cs, ks),
           NEW r \in order_block_pointers(A, cs, ks)
    PROVE  Stays(A, r.chains, ks[1], r.knowns[1])
<1>1. CASE ConnectedPairs(A, cs, ks) = {}
  BY <1>1 DEF order_block_pointers, Stays
<1>2. CASE ConnectedPairs(A, cs, ks) # {}
  <2>1. PICK q \in FirstPairs(ConnectedPairs(A, cs, ks)) :
            r = [chains |-> SwapToFront(cs, q[1]), knowns |-> SwapToFront(ks, q[2])]
    BY <1>2 DEF order_block_pointers
  <2>2. /\ q[1] \in DOMAIN cs /\ q[2] \in DOMAIN ks /\ ks[q[2]] \in A[cs[q[1]]]
        /\ \A o \in ConnectedPairs(A, cs, ks) :
             q[1] < o[1] \/ (q[1] = o[1] /\ q[2] <= o[2])
    BY <2>1 DEF FirstPairs, ConnectedPairs
  <2>3. /\ r.chains[1] = cs[q[1]] /\ Range(r.chains) = Range(cs) /\ r.knowns[1] = ks[q[2]]
    BY <2>1, <2>2, SwapProperties
  <2>4. DOMAIN cs \subseteq Nat /\ DOMAIN ks \subseteq Nat \ {0} /\ 1 \in DOMAIN ks
    BY NonEmptySeq
  <2>5. CASE \E c \in Range(cs) : ks[1] \in A[c]
    <3>1. PICK k \in DOMAIN cs : k <= q[1] /\ ks[1] \in A[cs[k]]
      BY <2>2, <2>5 DEF HeadLeads
    <3>2. <<k, 1>> \in ConnectedPairs(A, cs, ks)
      BY <2>4, <3>1 DEF ConnectedPairs
    <3>3. q[1] < k \/ (q[1] = k /\ q[2] <= 1)
      BY <2>2, <3>2
    <3>4. q[2] = 1
      BY <2>2, <2>4, <3>1, <3>3
    <3> QED
      BY <2>3, <3>4 DEF Stays
  <2>6. CASE ~\E c \in Range(cs) : ks[1] \in A[c]
    BY <2>2, <2>3, <2>6 DEF Stays, Overtaken
  <2> QED
    BY <2>5, <2>6
<1> QED
  BY <1>1, <1>2

(* If the first entries of the arrays connect, the head leads.  That is    *)
(* so whatever is put behind it.                                           *)
LEMMA ConnectedLeads ==
    ASSUME NEW T, NEW A, NEW cs \in Arrays(T), NEW ks \in Arrays(T), Connected(A, cs, ks),
           NEW ls, ls[1] = ks[1]
    PROVE  HeadLeads(A, cs, ls)
<1>1. SUFFICES ASSUME NEW c \in Range(cs), ls[1] \in A[c]
               PROVE  \A i \in DOMAIN cs : 1 \in DOMAIN cs /\ 1 <= i /\ ls[1] \in A[cs[1]]
  BY DEF HeadLeads
<1>2. ks[1] \in Range(ks) /\ 1 \in DOMAIN cs /\ \A i \in DOMAIN cs : 1 <= i
  BY NonEmptySeq
<1>3. ConnectedPairs(A, cs, ks) # {}
  BY <1>1, <1>2, PairsOfRanges
<1> QED
  BY <1>2, <1>3 DEF Connected

(* update_known(): the head stays, gives way to a heavier block, or is     *)
(* overtaken.                                                              *)
LEMMA KnownHead ==
    ASSUME NEW T, IsFiniteSet(T), NEW A, NEW W \in [T -> Nat],
           NEW N \in Nat, Bounded(W, T, N),
           NEW cs \in Arrays(T), NEW ks \in Arrays(T), Level(W, ks), Connected(A, cs, ks),
           NEW C \in SUBSET T, NEW r \in update_known(A, W, cs, ks, C)
    PROVE  W[r.knowns[1]] > W[ks[1]] \/ Stays(A, r.chains, ks[1], r.knowns[1])
<1>1. CASE Improves(W, ks, C) = {}
  <2>1. r.knowns = ks
    BY <1>1 DEF update_known
  <2> QED
    BY <2>1 DEF Stays
<1>2. CASE Improves(W, ks, C) # {}
  <2>1. PICK k \in FindBests(A, W, ks, C) : r \in order_block_pointers(A, cs, k)
    BY <1>2 DEF update_known
  <2>2. k \in Arrays(T) /\ Range(k) = Heaviest(W, Range(ks) \cup C)
    BY FindBestsRange
  <2>3. r.knowns \in Arrays(T) /\ Range(r.knowns) = Range(k)
    BY <2>1, <2>2, OrderProperties
  <2> DEFINE new == r.knowns[1]
             top == Heaviest(W, Improves(W, ks, C))
             same == \A c \in top : W[c] = W[ks[1]]
             kept == IF same THEN ks ELSE <<>>
  <2>4. new \in T /\ new \in Range(k) /\ ks[1] \in T /\ ks[1] \in Range(ks)
    BY <2>3, NonEmptySeq
  <2>5. PICK t \in WalkOrders(A, top) : k = kept \o t
    BY <2>1 DEF FindBests
  <2>6. CASE ~same
    <3>1. PICK c \in top : W[c] # W[ks[1]]
      BY <2>6
    <3>2. c \in C /\ W[c] >= W[ks[1]]
      BY <3>1 DEF Heaviest, Improves
    <3>3. W[c] <= W[new]
      BY <2>2, <2>4, <3>2 DEF Heaviest
    <3>4. W[c] \in Nat /\ W[new] \in Nat /\ W[ks[1]] \in Nat
      BY <2>4, <3>2
    <3> QED
      BY <3>1, <3>2, <3>3, <3>4
  <2>7. CASE same
    <3>1. k = ks \o t
      BY <2>5, <2>7
    <3>2. top \in SUBSET T
      BY DEF Heaviest, Improves
    <3> HIDE DEF top
    <3>3. t \in Seq(T) /\ ks \in Seq(T)
      BY <2>5, <3>2, WalkOrdersType DEF Arrays
    <3>4. Len(ks) \in Nat \ {0}
      BY NonEmptySeq
    <3>5. k[1] = ks[1]
      BY <3>1, <3>3, <3>4, ConcatProperties
    <3>6. HeadLeads(A, cs, k)
      BY <3>5, ConnectedLeads
    <3> QED
      BY <2>1, <2>2, <3>5, <3>6, OrderKeepsHead
  <2> QED
    BY <2>6, <2>7
<1> QED
  BY <1>1, <1>2

(* new_longest(): a head that leads nowhere may be overtaken by one that   *)
(* leads to the new chain.                                                 *)
LEMMA NewLongestHead ==
    ASSUME Inv, NEW p \in Tree, NEW w \in Works, NEW c, Grown(p, w, c),
           NEW first \in NewLongest(n')
    PROVE  Stays(anc', first.chains, longest_knowns[1], first.knowns[1])
<1> DEFINE b  == n'
           cs == Append(longest_chains, b)
           ks == longest_knowns
<1>0. /\ Tree' = Tree \cup {b} /\ \A x \in Tree : anc'[x] = anc[x]
      /\ longest_chains \in Arrays(Tree) /\ ks \in Arrays(Tree) /\ ks \in Arrays(Tree')
      /\ Connected(anc, longest_chains, ks)
  BY ArrayFacts DEF Grown, Arrays
<1>1. CASE first \in order_block_pointers(anc', <<b>>, ks)
  <2>1. <<b>> \in Arrays(Tree') /\ DOMAIN <<b>> = {1} /\ Range(<<b>>) = {b} /\ <<b>>[1] = b
    BY <1>0 DEF Arrays, Range
  <2>2. HeadLeads(anc', <<b>>, ks)
    BY <2>1 DEF HeadLeads
  <2> HIDE DEF b, ks
  <2> QED
    BY <1>0, <1>1, <2>1, <2>2, OrderKeepsHead DEF ks
<1>2. CASE first \in order_block_pointers(anc', cs, ks)
  <2>1. /\ Len(longest_chains) \in Nat \ {0} /\ DOMAIN longest_chains = 1..Len(longest_chains)
        /\ \A i \in DOMAIN longest_chains : longest_chains[i] \in Tree
        /\ ks[1] \in Range(ks) /\ 1 \in DOMAIN longest_chains
    BY <1>0, NonEmptySeq
  <2>2. /\ cs \in Arrays(Tree') /\ Range(cs) = Range(longest_chains) \cup {b}
    <3>1. longest_chains \in Seq(Tree') /\ b \in Tree'
      BY <1>0 DEF Arrays
    <3> HIDE DEF b
    <3> QED
      BY <3>1, AppendRange
  <2>3. /\ DOMAIN cs = 1..Len(longest_chains) + 1 /\ cs[Len(longest_chains) + 1] = b
        /\ \A i \in DOMAIN longest_chains : cs[i] = longest_chains[i]
    BY <1>0, <2>1, AppendProperties DEF Arrays
  <2>4. HeadLeads(anc', cs, ks)
    <3>1. CASE \E i \in DOMAIN longest_chains, j \in DOMAIN ks : ks[j] \in anc'[cs[i]]
      <4>1. PICK i \in DOMAIN longest_chains, j \in DOMAIN ks : ks[j] \in anc'[cs[i]]
        BY <3>1
      <4>2. <<i, j>> \in ConnectedPairs(anc, longest_chains, ks)
        BY <1>0, <2>1, <2>3, <4>1 DEF ConnectedPairs
      <4>3. ks[1] \in anc[longest_chains[1]]
        BY <1>0, <4>2 DEF Connected
      <4>4. 1 \in DOMAIN cs /\ ks[1] \in anc'[cs[1]] /\ \A k \in DOMAIN cs : 1 <= k
        BY <1>0, <2>1, <2>3, <4>3
      <4> HIDE DEF cs, ks, b
      <4> QED
        BY <4>4 DEF HeadLeads
    <3>2. CASE ~\E i \in DOMAIN longest_chains, j \in DOMAIN ks : ks[j] \in anc'[cs[i]]
      <4> SUFFICES ASSUME NEW e \in Range(cs), ks[1] \in anc'[e],
                          NEW i \in DOMAIN cs, NEW j \in DOMAIN ks, ks[j] \in anc'[cs[i]]
                   PROVE  ks[1] \in anc'[cs[i]]
        BY <2>1, <2>3 DEF HeadLeads
      <4>1. PICK k \in DOMAIN cs : cs[k] = e
        BY DEF Range
      <4>2. 1 \in DOMAIN ks
        BY <1>0, NonEmptySeq
      <4>3. k \notin DOMAIN longest_chains /\ i \notin DOMAIN longest_chains
        BY <3>2, <4>1, <4>2
      <4>4. k = Len(longest_chains) + 1 /\ i = Len(longest_chains) + 1
        BY <2>1, <2>3, <4>3
      <4> QED
        BY <4>1, <4>4
    <3> QED
      BY <3>1, <3>2
  <2> HIDE DEF b, cs, ks
  <2> QED
    BY <1>0, <1>2, <2>2, <2>4, OrderKeepsHead DEF ks
<1>3. CASE first = [chains |-> longest_chains, knowns |-> ks]
  BY <1>3 DEF Stays
<1> QED
  BY <1>1, <1>2, <1>3 DEF NewLongest

(* A new block: what new_longest() puts in front, update_known() does not  *)
(* put back.                                                               *)
LEMMA FreshBlockHead ==
    ASSUME Inv, Inv', NEW p \in Tree, NEW w \in Works, NEW c, Grown(p, w, c),
           update_block_ptrs_new_block(n', p, c)
    PROVE  HeadYields
<1> DEFINE b   == n'
           K   == KnownAtOnce(b, p, c)
           old == longest_knowns[1]
           new == longest_knowns'[1]
<1>1. PICK first \in NewLongest(b) :
        \E r \in update_known(anc', work', first.chains, first.knowns, K) :
            longest_chains' = r.chains /\ longest_knowns' = r.knowns
  BY DEF update_block_ptrs_new_block
<1>2. PICK r \in update_known(anc', work', first.chains, first.knowns, K) :
            longest_chains' = r.chains /\ longest_knowns' = r.knowns
  BY <1>1
<1> DEFINE fc  == first.chains
           fk  == first.knowns
           mid == fk[1]
<1>3. /\ fc \in Arrays(Tree') /\ fk \in Arrays(Tree') /\ Range(fk) = Range(longest_knowns)
      /\ Connected(anc', fc, fk)
  BY <1>1, NewLongestProperties
<1>4. Stays(anc', fc, old, mid)
  BY <1>1, NewLongestHead
<1>5. /\ Tree' = Tree \cup {b} /\ work' \in [Tree' -> Nat] /\ IsFiniteSet(Tree')
      /\ \A x \in Tree : work'[x] = work[x]
      /\ \E N \in Nat : Bounded(work', Tree', N)
  <2>1. IsFiniteSet(Tree')
    BY FS_Interval, 0 \in Int, n' \in Int DEF Tree, Grown
  <2> QED
    BY <2>1 DEF Grown, Inv, WorkBounded
<1>6. old \in Range(longest_knowns) /\ \A x \in Range(longest_knowns) : work'[x] = work'[old]
  <2>1. /\ longest_knowns \in Arrays(Tree) /\ Level(work, longest_knowns)
    BY ArrayFacts
  <2>2. old \in Range(longest_knowns) /\ Range(longest_knowns) \subseteq Tree
    BY <2>1, NonEmptySeq
  <2> QED
    BY <1>5, <2>1, <2>2 DEF Level
<1>7. mid \in Range(fk)
  BY <1>3, NonEmptySeq
<1>8. Level(work', fk) /\ work'[mid] = work'[old]
  BY <1>3, <1>6, <1>7 DEF Level
<1>9. K \in SUBSET Tree'
  BY <1>5 DEF KnownAtOnce
<1> HIDE DEF K, fc, fk, b
<1>10. r \in update_known(anc', work', fc, fk, K)
  BY <1>2 DEF fc, fk
<1>a. PICK N \in Nat : Bounded(work', Tree', N)
  BY <1>5
<1>b. fc \in Arrays(Tree') /\ fk \in Arrays(Tree') /\ Level(work', fk) /\ Connected(anc', fc, fk)
  BY <1>3, <1>8 DEF fc, fk
<1>c. IsFiniteSet(Tree') /\ work' \in [Tree' -> Nat]
  BY <1>5
<1> HIDE DEF Inv, mid
<1>11. /\ r.chains \in Arrays(Tree') /\ Range(r.chains) = Range(fc)
       /\ r.knowns \in Arrays(Tree')
       /\ Range(r.knowns) = Heaviest(work', Range(fk) \cup K)
       /\ Connected(anc', r.chains, r.knowns)
  BY <1>9, <1>10, <1>a, <1>b, <1>c, UpdateKnownProperties
<1> USE DEF mid
<1>12. work'[new] > work'[mid] \/ Stays(anc', r.chains, mid, new)
  BY <1>2, <1>3, <1>5, <1>8, <1>9, <1>10, KnownHead
<1>13. fc[1] \in Range(fc) /\ r.knowns[1] = new /\ r.chains[1] = longest_chains'[1]
       /\ Range(r.chains) = Range(longest_chains')
  BY <1>2, <1>3, NonEmptySeq
<1>14. CASE new = mid /\ mid # old
  <2>1. mid \in anc'[fc[1]] /\ \A d \in Range(fc) : old \notin anc'[d]
    BY <1>4, <1>14 DEF Stays, Overtaken
  <2>2. new \in Range(r.knowns)
    BY <1>11, <1>13, NonEmptySeq
  <2>3. ConnectedPairs(anc', r.chains, r.knowns) # {}
    BY <1>11, <1>13, <1>14, <2>1, <2>2, PairsOfRanges
  <2>4. new \in anc'[longest_chains'[1]]
    BY <1>11, <1>13, <2>3 DEF Connected
  <2> QED
    BY <1>11, <1>13, <2>1, <2>4 DEF HeadYields
<1>15. CASE new # mid /\ Overtaken(anc', r.chains, mid, new)
  <2>1. mid = old
    BY <1>4, <1>11, <1>13, <1>15 DEF Stays, Overtaken
  <2> QED
    BY <1>13, <1>15, <2>1 DEF Overtaken, HeadYields
<1>16. CASE work'[new] > work'[mid]
  BY <1>8, <1>16 DEF HeadYields
<1> QED
  BY <1>12, <1>14, <1>15, <1>16 DEF Stays, HeadYields

(* The rest of a block's contents: update_known() alone. *)
LEMMA NewShardHead ==
    ASSUME Inv, NEW b \in resolving, update_block_ptrs_new_shard(b)
    PROVE  HeadYields
<1> DEFINE known == IF block_all_known(contents[b]) THEN NewlyKnown(b, complaint) ELSE {}
           C     == known \ complaint
<1>0. UNCHANGED <<anc, work>> /\ C \in SUBSET Tree
  BY DEF update_block_ptrs_new_shard, tree, NewlyKnown, Desc
<1>1. PICK r \in update_known(anc, work, longest_chains, longest_knowns, C) :
          longest_chains' = r.chains /\ longest_knowns' = r.knowns
  BY DEF update_block_ptrs_new_shard
<1> HIDE DEF C
<1>2. PICK N \in Nat : Bounded(work, Tree, N)
  BY DEF Inv, WorkBounded
<1>3. \/ work[longest_knowns'[1]] > work[longest_knowns[1]]
      \/ Stays(anc, longest_chains', longest_knowns[1], longest_knowns'[1])
  BY <1>0, <1>1, <1>2, ArrayFacts, KnownHead
<1> QED
  BY <1>0, <1>3 DEF Stays, Overtaken, HeadYields

(* Every step. *)
LEMMA NextHead == ASSUME Inv, Inv', [Next]_vars PROVE [HeadYields]_vars
<1>1. ASSUME NEW p \in Tree, NEW w \in Works, NEW c \in {"none", "empty"}, block_add(p, w, c)
      PROVE  HeadYields
  <2>1. Grown(p, w, c) /\ n' = n + 1
    BY <1>1, AddedBlock DEF Grown
  <2>2. CASE UNCHANGED ptrs
    BY <2>2 DEF ptrs, HeadYields
  <2>3. CASE update_block_ptrs_new_block(n + 1, p, c)
    BY <2>1, <2>3, FreshBlockHead
  <2> QED
    BY <1>1, <2>2, <2>3 DEF block_add
<1>2. ASSUME UNCHANGED longest_knowns
      PROVE  HeadYields
  BY <1>2 DEF HeadYields
<1>3. ASSUME NEW b \in Tree, publish_complaint(b)
      PROVE  HeadYields
  <2>1. CASE UNCHANGED ptrs
    BY <1>2, <2>1 DEF ptrs
  <2>2. CASE complaint' = complaint \cup Blamed(b)
    <3>1. b \in Blamed(b)
      BY DEF Inv, ChainInv, TreeOK, RootedOK, Blamed, Desc
    <3>2. complaint' # complaint
      BY <1>3, <2>2, <3>1 DEF publish_complaint
    <3> QED
      BY <3>2 DEF HeadYields
  <2> QED
    BY <1>3, <2>1, <2>2 DEF publish_complaint
<1>4. ASSUME NEW b \in Tree, put_txhash_in_shard(b) \/ put_tx_in_shard(b)
      PROVE  HeadYields
  BY <1>2, <1>4 DEF put_txhash_in_shard, put_tx_in_shard, ptrs
<1> QED
  BY <1>1, <1>3, <1>4, NewShardHead DEF Next

-----------------------------------------------------------------------------
(* The pointers as a choice of heads. *)

LEMMA InitHeads == Init => Heads!HeadInit
<1> SUFFICES ASSUME Init PROVE Heads!HeadInit
  OBVIOUS
<1>1. Tree = {Genesis}
  BY DEF Init, Tree, Genesis
<1> QED
  BY <1>1 DEF Init, Heads!HeadInit

(* What the invariant says of the first entries. *)
LEMMA HeadsAreChosen == Inv => Heads!Chosen
<1> SUFFICES ASSUME Inv PROVE Heads!Chosen
  OBVIOUS
<1>1. longest_knowns[1] \in Heaviest(work, all_known \ complaint)
  BY ArrayFacts
<1>2. preferred_chain \in Heaviest(work, Desc(longest_knowns[1]) \ complaint)
  BY DEF Inv, ChainInv, PreferredIsBest
<1> QED
  BY <1>1, <1>2 DEF Heads!Chosen, Heads!Heavy, Heads!Below, Heaviest, Desc

(* What it says of the longest chains, seen from the choice. *)
LEMMA HeadsAreLongest ==
    Inv => /\ Heads!Longest = Range(longest_chains)
           /\ longest_chains[1] \in Range(longest_chains)
<1> SUFFICES ASSUME Inv
             PROVE  /\ Heads!Longest = Range(longest_chains)
                    /\ longest_chains[1] \in Range(longest_chains)
  OBVIOUS
<1>1. Range(longest_chains) = Heaviest(work, Tree \ complaint)
  BY DEF Inv, ChainInv, LongestChainsExact
<1>2. longest_chains \in Arrays(Tree)
  BY ArrayFacts
<1>3. longest_chains[1] \in Range(longest_chains)
  BY <1>2, NonEmptySeq
<1> QED
  BY <1>1, <1>3 DEF Heads!Longest, Heads!Heavy, Heaviest

(* Adding a block, for the tree and the complaints. *)
LEMMA BlockArrives ==
    ASSUME Inv, NEW p \in Tree, NEW w \in Works, NEW c \in {"none", "empty"},
           block_add(p, w, c)
    PROVE  /\ \E b \in Tree', q \in Tree : Heads!Arrive(b, q)
           /\ all_known \subseteq all_known'
<1>1. Grown(p, w, c)
  BY AddedBlock
<1>2. /\ n' \notin Tree /\ n' \in Tree' /\ Tree' = Tree \cup {n'}
      /\ anc' = [x \in Tree' |-> IF x = n' THEN anc[p] \cup {n'} ELSE anc[x]]
      /\ work' = [x \in Tree' |-> IF x = n' THEN work'[n'] ELSE work[x]]
  BY <1>1 DEF Grown
<1>3. work'[n'] > work[p]
  <2>1. w \in Nat /\ w > 0 /\ work[p] \in Nat
    BY ChainAssumption DEF Inv, ChainInv, TypeOK
  <2> QED
    BY <1>1, <2>1 DEF Grown
<1>4. complaint' = IF p \in complaint THEN complaint \cup {n'} ELSE complaint
  BY DEF block_add
<1>5. Heads!Arrive(n', p)
  BY <1>2, <1>3, <1>4 DEF Heads!Arrive
<1>6. all_known \subseteq all_known'
  BY DEF block_add, update_block_ptrs_new_block, ptrs
<1> QED
  BY <1>2, <1>5, <1>6

(* Every step, for the tree and the complaints. *)
LEMMA NextTree ==
    ASSUME Inv, Next
    PROVE  /\ \/ \E b \in Tree', p \in Tree : Heads!Arrive(b, p)
              \/ \E b \in Tree : Heads!Condemn(b)
              \/ UNCHANGED <<Tree, anc, work, complaint>>
           /\ all_known \subseteq all_known'
<1>1. ASSUME NEW b \in Tree, publish_complaint(b)
      PROVE  /\ Heads!Condemn(b) \/ UNCHANGED <<Tree, anc, work, complaint>>
             /\ all_known \subseteq all_known'
  <2>1. b \notin complaint /\ UNCHANGED <<Tree, anc, work>>
    BY <1>1 DEF publish_complaint, tree, Tree
  <2>2. CASE UNCHANGED <<ptrs, complaint>>
    BY <2>1, <2>2 DEF ptrs
  <2>3. CASE /\ complaint' = complaint \cup Blamed(b)
             /\ update_block_ptrs_invalidated(complaint \cup Blamed(b))
    BY <2>1, <2>3 DEF Heads!Condemn, Heads!Below, Blamed, Desc, update_block_ptrs_invalidated
  <2> QED
    BY <1>1, <2>2, <2>3 DEF publish_complaint
<1>2. ASSUME NEW b \in Tree, put_txhash_in_shard(b) \/ put_tx_in_shard(b)
      PROVE  UNCHANGED <<Tree, anc, work, complaint, all_known>>
  BY <1>2 DEF put_txhash_in_shard, put_tx_in_shard, tree, ptrs, Tree
<1>3. ASSUME NEW b \in resolving, update_block_ptrs_new_shard(b)
      PROVE  UNCHANGED <<Tree, anc, work, complaint>> /\ all_known \subseteq all_known'
  BY <1>3 DEF update_block_ptrs_new_shard, tree, Tree
<1> QED
  BY <1>1, <1>2, <1>3, BlockArrives DEF Next

(* Every step is one of the choice of heads. *)
LEMMA NextHeads ==
    ASSUME Inv, Inv', Heads!Chosen',
           Heads!Longest' = Range(longest_chains'),
           longest_chains'[1] \in Range(longest_chains'),
           [Next]_vars
    PROVE  [Heads!HeadNext]_(Heads!headVars)
<1>1. CASE UNCHANGED vars
  BY <1>1 DEF vars, tree, ptrs, Heads!headVars, Tree
<1>2. CASE Next /\ HeadYields
  <2>1. Heads!Learn
    <3>1. \A d \in all_known' : anc'[d] \subseteq all_known'
      BY DEF Inv, ChainInv, KnownFlagsExact, FlagsSound
    <3> QED
      BY <1>2, <3>1, NextTree DEF Heads!Learn
  <2>2. Heads!Faithful
    BY <1>2 DEF HeadYields, Heads!Faithful
  <2> QED
    BY <1>2, <2>1, <2>2, NextTree DEF Heads!HeadNext
<1> QED
  BY <1>1, <1>2, NextHead

-----------------------------------------------------------------------------
(* The theorems. *)

(* Every step. *)
LEMMA NextInv == Inv /\ [Next]_vars => Inv'
<1> SUFFICES ASSUME Inv, [Next]_vars PROVE Inv'
  OBVIOUS
<1>1. CASE Idle /\ \E p \in Tree, w \in Works, c \in {"none", "empty"} : block_add(p, w, c)
  BY <1>1, BlockAddInv DEF Idle
<1>2. CASE Idle /\ \E b \in Tree : put_txhash_in_shard(b)
  BY <1>2, TxhashInv
<1>3. CASE Idle /\ \E b \in Tree : put_tx_in_shard(b)
  BY <1>3, TxInv DEF Idle
<1>4. CASE stopped = "running" /\ \E b \in resolving : update_block_ptrs_new_shard(b)
  BY <1>4, NewShardInv
<1>5. CASE stopped = "running" /\ \E b \in Tree : publish_complaint(b)
  BY <1>5, ComplaintInv
<1>6. CASE UNCHANGED vars
  <2>1. UNCHANGED <<tree, ptrs, contents, complaint, resolving>> /\ stopped' = stopped
    BY <1>6 DEF vars
  <2>2. stopped \in {"running", "assertion", "null_tx"}
    BY DEF Inv, ChainInv, TypeOK
  <2> QED
    BY <2>1, <2>2, StopInv
<1> QED
  BY <1>1, <1>2, <1>3, <1>4, <1>5, <1>6 DEF Next

(* In every reachable state every pointer of the node is to a block of its *)
(* tree.                                                                   *)
THEOREM TypeCorrect == Spec => []TypeOK
<1>1. Inv => TypeOK
  BY DEF Inv, ChainInv
<1> QED
  BY <1>1, InitInv, NextInv, PTL DEF Spec

(* The heads new_longest() and update_block_ptrs_invalidated() keep are    *)
(* exactly the most-work blocks without complaint.                         *)
THEOREM LongestChainsCorrect == Spec => []LongestChainsExact
<1>1. Inv => LongestChainsExact
  BY DEF Inv, ChainInv
<1> QED
  BY <1>1, InitInv, NextInv, PTL DEF Spec

(* The heads update_known() keeps are exactly the most-work blocks without *)
(* complaint that are known together with all their ancestors.             *)
THEOREM LongestKnownsCorrect == Spec => []LongestKnownsExact
<1>1. Inv => LongestKnownsExact
  <2> SUFFICES ASSUME Inv, resolving = {}
               PROVE  Range(longest_knowns) = Heaviest(work, FullyKnown)
    BY DEF LongestKnownsExact
  <2> USE DEF Inv, ChainInv
  <2>1. FullyKnown \subseteq all_known \ complaint
    BY DEF FullyKnown, KnownFlagsExact, FlagsComplete
  <2>2. ASSUME NEW b \in all_known \ complaint
        PROVE  b \in FullyKnown
    <3>1. anc[b] \subseteq all_known
      BY DEF KnownFlagsExact, FlagsSound
    <3>2. \A a \in anc[b] : block_all_known(contents[a])
      BY <3>1 DEF KnownFlagsExact, FlagsSound
    <3> QED
      BY <3>2 DEF FullyKnown, TypeOK
  <2>3. FullyKnown = all_known \ complaint
    BY <2>1, <2>2
  <2> QED
    BY <2>3 DEF KnownsMarked
<1> QED
  BY <1>1, InitInv, NextInv, PTL DEF Spec

(* The cached preferred_chain always is a most-work descendent without     *)
(* complaint of the block the node mines on.                               *)
THEOREM PreferredCorrect == Spec => []PreferredIsBest
<1>1. Inv => PreferredIsBest
  BY DEF Inv, ChainInv
<1> QED
  BY <1>1, InitInv, NextInv, PTL DEF Spec

(* No block without complaint ever descends from one with a complaint. *)
THEOREM ComplaintsCorrect == Spec => []ComplaintInherited
<1>1. Inv => ComplaintInherited
  BY DEF Inv, ChainInv
<1> QED
  BY <1>1, InitInv, NextInv, PTL DEF Spec

(* The first entries of the two arrays connect whenever any entries do. *)
THEOREM FirstPairCorrect == Spec => []FirstPairConnected
<1>1. Inv => FirstPairConnected
  BY DEF Inv, ChainInv
<1> QED
  BY <1>1, InitInv, NextInv, PTL DEF Spec

(* block->all_known is set exactly when it should be. *)
THEOREM KnownFlagsCorrect == Spec => []KnownFlagsExact
<1>1. Inv => KnownFlagsExact
  BY DEF Inv, ChainInv
<1> QED
  BY <1>1, InitInv, NextInv, PTL DEF Spec

(* Between any two steps the marks on the blocks agree with the tree and   *)
(* the heads are in order.                                                 *)
THEOREM ConsistencyCorrect == Spec => []ChainsConsistent
<1>1. Inv => ChainsConsistent
  BY DEF Inv, ChainInv, ChainsConsistent
<1> QED
  BY <1>1, InitInv, NextInv, PTL DEF Spec

(* The block the node mines on is left only for a heavier one, when blocks *)
(* are found to be bad, or for one that leads to a longest chain when it   *)
(* leads to none (order_block_pointers(), update_known()).                 *)
THEOREM HeadStable == Spec => MiningHeadStable
<1>1. Inv /\ Inv' /\ [Next]_vars => [HeadYields]_vars
  BY NextHead
<1> QED
  BY <1>1, InitInv, NextInv, PTL DEF Spec, MiningHeadStable

(* Whatever arrives and is found to be bad, the pointers implement a       *)
(* choice of heads: a block of a tree that only grows is chosen among the  *)
(* known good ones and left for a reason only, and the expected end of its *)
(* chain follows it in the same step (update_block_ptrs_new_block(),       *)
(* update_block_ptrs_new_shard(), update_block_ptrs_invalidated()).        *)
THEOREM HeadsImplemented == Spec => HeadsChosen
<1>1. Inv => Heads!Chosen
  BY HeadsAreChosen
<1>2. Inv => /\ Heads!Longest = Range(longest_chains)
             /\ longest_chains[1] \in Range(longest_chains)
  BY HeadsAreLongest
<1>3. /\ Inv /\ Inv' /\ Heads!Chosen'
      /\ (/\ Heads!Longest = Range(longest_chains)
          /\ longest_chains[1] \in Range(longest_chains))'
      /\ [Next]_vars
      => [Heads!HeadNext]_(Heads!headVars)
  BY NextHeads
<1> QED
  BY <1>1, <1>2, <1>3, InitHeads, InitInv, NextInv, PTL
  DEF Spec, HeadsChosen, Heads!HeadSpec

=============================================================================
