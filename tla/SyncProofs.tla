----------------------------- MODULE SyncProofs -----------------------------
(***************************************************************************)
(* Proofs about Sync: over any tree, a node that knows part of its peer's  *)
(* chain has all of it once nothing is on its way (ChainsSync).            *)
(*                                                                         *)
(* What a node lacks of a chain begins with one block, the child of the    *)
(* last block the two have in common.  While the peer takes the node for   *)
(* syncing, the node is on its way to that block (Working): a SYNC packet  *)
(* that counts something below its predecessor has not been read, or the   *)
(* children of the predecessor or the block itself are asked for.  Once    *)
(* the peer has had SET_FILTER, every block the node lacks is in a packet, *)
(* behind its predecessor's (Sent).                                        *)
(***************************************************************************)
EXTENDS Sync, FiniteSetTheorems, SequenceTheorems, WellFoundedInduction, TLAPS

-----------------------------------------------------------------------------
(* Numbers *)

(* Every set of naturals that is not empty has a least element. *)
LEMMA LeastNatural ==
    ASSUME NEW T \in SUBSET Nat, T # {}
    PROVE  \E m \in T : \A x \in T : m <= x
<1>1. IsWellFoundedOn(OpToRel(<, Nat), Nat)
  BY NatLessThanWellFounded
<1>2. PICK m \in T : \A y \in T : ~(<<y, m>> \in OpToRel(<, Nat))
  BY <1>1, WFMin
<1>3. \A y \in T : ~(y < m)
  BY <1>2 DEF OpToRel
<1> QED BY <1>3

(* Induction up to a number. *)
LEMMA UpTo ==
    ASSUME NEW n \in Nat, NEW S, 0 \in S, \A j \in 0 .. n - 1 : j \in S => j + 1 \in S
    PROVE  \A j \in 0 .. n : j \in S
<1> DEFINE T == (0 .. n) \ S
<1>1. SUFFICES ASSUME T # {} PROVE FALSE
  OBVIOUS
<1>2. PICK m \in T : \A x \in T : m <= x
  <2>1. T \in SUBSET Nat
    OBVIOUS
  <2> HIDE DEF T
  <2> QED BY <1>1, <2>1, LeastNatural
<1>3. m \in 0 .. n /\ m \notin S /\ m # 0
  BY <1>2
<1>4. m - 1 \in 0 .. n - 1 /\ m - 1 \notin T /\ (m - 1) + 1 = m
  BY <1>2, <1>3
<1> QED BY <1>3, <1>4

(* A function defined by recursion up to n exists: it starts at c, and     *)
(* each value follows from the one before by a function of its own.        *)
StepsIn(G, n, V) == G \in [1 .. n -> [V -> V]]
FollowsFrom(f, c, G, n, V) ==
    f \in [0 .. n -> V] /\ f[0] = c /\ \A k \in 1 .. n : f[k] = G[k][f[k - 1]]

LEMMA RecursionWorks ==
    ASSUME NEW n \in Nat, NEW V, NEW c \in V, NEW G, StepsIn(G, n, V)
    PROVE  \E f : FollowsFrom(f, c, G, n, V)
<1>0. G \in [1 .. n -> [V -> V]]
  BY DEF StepsIn
<1> DEFINE Goes(f, j) == f[0] = c /\ \A k \in 1 .. j : f[k] = G[k][f[k - 1]]
           S == {j \in 0 .. n : \E f \in [0 .. j -> V] : Goes(f, j)}
<1>1. 0 \in S
  <2>1. [k \in 0 .. 0 |-> c] \in [0 .. 0 -> V] /\ Goes([k \in 0 .. 0 |-> c], 0)
    OBVIOUS
  <2> HIDE DEF Goes
  <2> QED BY <2>1
<1>2. ASSUME NEW j \in 0 .. n - 1, j \in S PROVE j + 1 \in S
  <2>1. PICK f \in [0 .. j -> V] : Goes(f, j)
    BY <1>2
  <2> DEFINE g == [k \in 0 .. j + 1 |-> IF k <= j THEN f[k] ELSE G[j + 1][f[j]]]
  <2>2. G[j + 1] \in [V -> V] /\ f[j] \in V
    BY <1>0, <2>1
  <2>3. g \in [0 .. j + 1 -> V]
    BY <2>1, <2>2
  <2>4. Goes(g, j + 1)
    <3>1. g[0] = c
      BY <2>1
    <3>2. ASSUME NEW k \in 1 .. j + 1 PROVE g[k] = G[k][g[k - 1]]
      <4>1. CASE k <= j
        BY <2>1, <4>1
      <4>2. CASE k = j + 1
        <5>1. g[k] = G[k][f[k - 1]]
          BY <4>2
        <5>2. g[k - 1] = f[k - 1]
          BY <4>2
        <5> HIDE DEF g
        <5> QED BY <5>1, <5>2
      <4> HIDE DEF g
      <4> QED BY <4>1, <4>2
    <3> HIDE DEF g
    <3> QED BY <3>1, <3>2
  <2>5. j + 1 \in 0 .. n
    OBVIOUS
  <2> HIDE DEF g, Goes
  <2> QED BY <2>3, <2>4, <2>5
<1>3. n \in S
  <2>1. \A j \in 0 .. n : j \in S
    <3> HIDE DEF S
    <3> QED BY <1>1, <1>2, UpTo
  <2> HIDE DEF S
  <2> QED BY <2>1
<1> QED BY <1>3 DEF FollowsFrom

-----------------------------------------------------------------------------
(* The tree *)

Steps == Cardinality(Tree)

(* The way up from b. *)
IsUp(f, b, n) == f = [k \in 0 .. n |-> IF k = 0 THEN b ELSE Parent[f[k - 1]]]
Up(b, n) == CHOOSE f : IsUp(f, b, n)

LEMMA TreeFacts ==
    ASSUME SyncAssumption
    PROVE  /\ Steps \in Nat /\ Parent \in [Tree -> Tree] /\ Genesis \in Tree
           /\ Parent[Genesis] = Genesis
BY FS_CardinalityType DEF SyncAssumption, Steps

(* The recursion of Depth and AtDepth defines a function. *)
LEMMA UpExists ==
    ASSUME SyncAssumption, NEW b \in Tree, NEW n \in Nat
    PROVE  /\ Up(b, n) \in [0 .. n -> Tree] /\ Up(b, n)[0] = b
           /\ \A k \in 1 .. n : Up(b, n)[k] = Parent[Up(b, n)[k - 1]]
<1> DEFINE G == [k \in 1 .. n |-> Parent]
<1>1. StepsIn(G, n, Tree)
  BY TreeFacts DEF StepsIn
<1>2. PICK f : FollowsFrom(f, b, G, n, Tree)
  <2> HIDE DEF G
  <2> QED BY <1>1, RecursionWorks
<1>3. f \in [0 .. n -> Tree] /\ f[0] = b /\ \A k \in 1 .. n : f[k] = Parent[f[k - 1]]
  BY <1>2 DEF FollowsFrom
<1>4. IsUp(f, b, n)
  <2>1. f = [k \in 0 .. n |-> f[k]]
    BY <1>3
  <2>2. ASSUME NEW k \in 0 .. n PROVE f[k] = IF k = 0 THEN b ELSE Parent[f[k - 1]]
    <3>1. k # 0 => k \in 1 .. n
      OBVIOUS
    <3> QED BY <1>3, <3>1
  <2>3. f = [k \in 0 .. n |-> IF k = 0 THEN b ELSE Parent[f[k - 1]]]
    BY <2>1, <2>2
  <2> QED BY <2>3 DEF IsUp
<1> DEFINE u == Up(b, n)
<1>5. IsUp(u, b, n)
  BY <1>4 DEF Up
<1> HIDE DEF u
<1>6. u = [k \in 0 .. n |-> IF k = 0 THEN b ELSE Parent[u[k - 1]]]
  BY <1>5 DEF IsUp
<1>7. \A k \in 0 .. n : u[k] = IF k = 0 THEN b ELSE Parent[u[k - 1]]
  BY <1>6
<1>8. DOMAIN u = 0 .. n
  BY <1>6
<1> DEFINE T == {k \in 0 .. n : u[k] = f[k]}
<1>9. 0 \in T
  BY <1>3, <1>7
<1>10. ASSUME NEW j \in 0 .. n - 1, j \in T PROVE j + 1 \in T
  <2>1. j + 1 \in 0 .. n /\ j + 1 \in 1 .. n /\ (j + 1) - 1 = j /\ j + 1 # 0
    OBVIOUS
  <2>2. u[j + 1] = Parent[u[j]] /\ f[j + 1] = Parent[f[j]]
    BY <1>3, <1>7, <2>1
  <2> QED BY <1>10, <2>1, <2>2
<1>11. \A k \in 0 .. n : k \in T
  <2> HIDE DEF T
  <2> QED BY <1>9, <1>10, UpTo
<1>12. u = f
  <2>1. u = [k \in 0 .. n |-> u[k]]
    BY <1>6, <1>8
  <2> QED BY <1>3, <1>11, <2>1
<1> QED BY <1>3, <1>12 DEF u

(* A longer way up begins like a shorter one. *)
LEMMA UpUnique ==
    ASSUME SyncAssumption, NEW b \in Tree, NEW n \in Nat, NEW m \in 0 .. n
    PROVE  \A k \in 0 .. m : Up(b, m)[k] = Up(b, n)[k]
<1> DEFINE u == Up(b, n)
           v == Up(b, m)
           T == {k \in 0 .. m : v[k] = u[k]}
<1>1. /\ u[0] = b /\ \A k \in 1 .. n : u[k] = Parent[u[k - 1]]
      /\ v[0] = b /\ \A k \in 1 .. m : v[k] = Parent[v[k - 1]]
  BY UpExists
<1> HIDE DEF u, v
<1>2. 0 \in T
  BY <1>1
<1>3. ASSUME NEW j \in 0 .. m - 1, j \in T PROVE j + 1 \in T
  <2>1. j + 1 \in 0 .. m /\ j + 1 \in 1 .. m /\ j + 1 \in 1 .. n /\ (j + 1) - 1 = j
    OBVIOUS
  <2>2. v[j + 1] = Parent[v[j]] /\ u[j + 1] = Parent[u[j]]
    BY <1>1, <2>1
  <2> QED BY <1>3, <2>1, <2>2
<1>4. \A k \in 0 .. m : k \in T
  <2> HIDE DEF T
  <2> QED BY <1>2, <1>3, UpTo
<1> QED BY <1>4 DEF u, v

(* Genesis is reached from every block. *)
LEMMA UpReaches ==
    ASSUME SyncAssumption, NEW b \in Tree
    PROVE  \E d \in 0 .. Steps : Up(b, Steps)[d] = Genesis
<1> DEFINE u == Up(b, Steps)
           I == 0 .. Steps
<1>0. Steps \in Nat
  BY TreeFacts
<1>1. u \in [I -> Tree] /\ \A k \in 1 .. Steps : u[k] = Parent[u[k - 1]]
  BY <1>0, UpExists
<1>2. IsFiniteSet(I) /\ Cardinality(I) = Steps + 1
  BY <1>0, FS_Interval
<1>3. IsFiniteSet(Tree) /\ Cardinality(Tree) < Cardinality(I)
  BY <1>0, <1>2 DEF SyncAssumption, Steps
<1>4. PICK i \in I, j \in I : i < j /\ u[i] = u[j]
  <2>1. \E x, y \in I : x # y /\ u[x] = u[y]
    <3> HIDE DEF I, u
    <3> QED BY <1>1, <1>2, <1>3, FS_PigeonHole
  <2>2. PICK x \in I, y \in I : x # y /\ u[x] = u[y]
    BY <2>1
  <2> HIDE DEF u
  <2>3. x < y \/ y < x
    BY <2>2
  <2> QED BY <2>2, <2>3
<1> HIDE DEF u
<1> DEFINE S == {u[k] : k \in 0 .. j - 1}
<1>5. S \in SUBSET Tree /\ u[i] \in S
  <2>1. \A k \in 0 .. j - 1 : k \in I
    BY <1>0
  <2>2. \A k \in 0 .. j - 1 : u[k] \in Tree
    BY <1>1, <2>1
  <2>3. i \in 0 .. j - 1
    BY <1>0, <1>4
  <2> QED BY <2>2, <2>3
<1>6. \A x \in S : Parent[x] \in S
  <2> SUFFICES ASSUME NEW k \in 0 .. j - 1 PROVE Parent[u[k]] \in S
    OBVIOUS
  <2>1. Parent[u[k]] = u[k + 1]
    <3>1. k + 1 \in 1 .. Steps /\ (k + 1) - 1 = k
      BY <1>0
    <3> QED BY <1>1, <3>1
  <2>2. CASE k = j - 1
    BY <1>4, <1>5, <2>1, <2>2
  <2>3. CASE k # j - 1
    <3>1. k + 1 \in 0 .. j - 1
      BY <2>3
    <3> QED BY <2>1, <3>1
  <2> QED BY <2>2, <2>3
<1>7. Genesis \in S
  <2> HIDE DEF S
  <2> QED BY <1>5, <1>6 DEF SyncAssumption
<1>8. PICK k \in 0 .. j - 1 : u[k] = Genesis
  BY <1>7
<1>9. k \in 0 .. Steps
  BY <1>0
<1> QED BY <1>8, <1>9 DEF u

-----------------------------------------------------------------------------
(* Depths *)

(* d is the number of steps from b up to genesis. *)
IsDepth(b, d) ==
    /\ d \in 0 .. Steps
    /\ Up(b, Steps)[d] = Genesis /\ \A k \in 0 .. d - 1 : Up(b, Steps)[k] # Genesis

LEMMA DepthIs ==
    ASSUME SyncAssumption, NEW b \in Tree
    PROVE  IsDepth(b, Depth[b])
<1> DEFINE u == Up(b, Steps)
<1>0. Steps \in Nat
  BY TreeFacts
<1>1. Depth[b] = CHOOSE d \in 0 .. Steps : u[d] = Genesis /\ \A k \in 0 .. d - 1 : u[k] # Genesis
  BY Zenon DEF Depth, Up, IsUp, Steps
<1> DEFINE T == {d \in 0 .. Steps : u[d] = Genesis}
<1>2. T # {} /\ T \in SUBSET Nat
  BY <1>0, UpReaches
<1>3. PICK m \in T : \A x \in T : m <= x
  <2> HIDE DEF T
  <2> QED BY <1>2, LeastNatural
<1>4. m \in 0 .. Steps /\ u[m] = Genesis /\ \A k \in 0 .. m - 1 : u[k] # Genesis
  <2> HIDE DEF u
  <2>1. m \in 0 .. Steps /\ u[m] = Genesis
    OBVIOUS
  <2>2. ASSUME NEW k \in 0 .. m - 1 PROVE u[k] # Genesis
    <3>1. k \in 0 .. Steps /\ ~(m <= k)
      BY <1>0
    <3> QED BY <1>3, <3>1
  <2> QED BY <2>1, <2>2
<1>5. /\ Depth[b] \in 0 .. Steps
      /\ u[Depth[b]] = Genesis /\ \A k \in 0 .. Depth[b] - 1 : u[k] # Genesis
  <2> HIDE DEF u
  <2> QED BY <1>1, <1>4
<1> QED BY <1>5 DEF IsDepth

LEMMA DepthUnique ==
    ASSUME SyncAssumption, NEW b \in Tree, NEW d, IsDepth(b, d)
    PROVE  Depth[b] = d
<1> DEFINE e == Depth[b]
<1>1. IsDepth(b, e)
  BY DepthIs
<1> HIDE DEF e
<1>2. d \in Nat /\ e \in Nat /\ Steps \in Nat
  BY <1>1, TreeFacts DEF IsDepth
<1>3. ~(d < e) /\ ~(e < d)
  <2>1. ASSUME d < e PROVE FALSE
    <3>1. d \in 0 .. e - 1
      BY <1>2, <2>1
    <3> QED BY <1>1, <3>1 DEF IsDepth
  <2>2. ASSUME e < d PROVE FALSE
    <3>1. e \in 0 .. d - 1
      BY <1>2, <2>2
    <3> QED BY <1>1, <3>1 DEF IsDepth
  <2> QED BY <2>1, <2>2
<1> QED BY <1>2, <1>3 DEF e

(* One step up. *)
LEMMA DepthSteps ==
    ASSUME SyncAssumption, NEW b \in Tree
    PROVE  /\ Depth[b] \in Nat
           /\ Depth[b] = 0 <=> b = Genesis
           /\ b # Genesis => Depth[b] = Depth[Parent[b]] + 1
<1> DEFINE u == Up(b, Steps)
           d == Depth[b]
<1>0. Steps \in Nat /\ Parent[b] \in Tree
  BY TreeFacts
<1>1. u[0] = b /\ \A k \in 1 .. Steps : u[k] = Parent[u[k - 1]]
  BY <1>0, UpExists
<1>2. d \in 0 .. Steps /\ u[d] = Genesis /\ \A k \in 0 .. d - 1 : u[k] # Genesis
  BY DepthIs DEF IsDepth
<1>3. d = 0 <=> b = Genesis
  <2> HIDE DEF u, d
  <2>1. d = 0 => b = Genesis
    BY <1>1, <1>2
  <2>2. ASSUME d # 0 PROVE b # Genesis
    <3>1. 0 \in 0 .. d - 1
      BY <1>0, <1>2, <2>2
    <3> QED BY <1>1, <1>2, <3>1
  <2> QED BY <2>1, <2>2
<1>4. ASSUME b # Genesis PROVE d = Depth[Parent[b]] + 1
  <2> DEFINE v == Up(Parent[b], Steps)
             T == {k \in 0 .. d - 1 : v[k] = u[k + 1]}
  <2>1. v[0] = Parent[b] /\ \A k \in 1 .. Steps : v[k] = Parent[v[k - 1]]
    BY <1>0, UpExists
  <2> HIDE DEF u, v, d
  <2>2. d # 0 /\ d - 1 \in Nat /\ d - 1 \in 0 .. Steps
    BY <1>0, <1>2, <1>3, <1>4
  <2>3. 0 \in T
    <3>1. 1 \in 1 .. Steps /\ 1 - 1 = 0 /\ 0 + 1 = 1 /\ 0 \in 0 .. d - 1
      BY <1>0, <1>2, <2>2
    <3> QED BY <1>1, <2>1, <3>1
  <2>4. ASSUME NEW j \in 0 .. (d - 1) - 1, j \in T PROVE j + 1 \in T
    <3>1. /\ j + 1 \in 0 .. d - 1 /\ j + 1 \in 1 .. Steps /\ (j + 1) - 1 = j
          /\ (j + 1) + 1 \in 1 .. Steps /\ ((j + 1) + 1) - 1 = j + 1
      BY <1>0, <1>2, <2>2
    <3>2. v[j + 1] = Parent[v[j]]
      BY <2>1, <3>1
    <3>3. u[(j + 1) + 1] = Parent[u[j + 1]]
      BY <1>1, <3>1
    <3>4. v[j] = u[j + 1]
      BY <2>4
    <3> QED BY <3>1, <3>2, <3>3, <3>4
  <2>5. \A k \in 0 .. d - 1 : k \in T
    <3> HIDE DEF T
    <3> QED BY <2>2, <2>3, <2>4, UpTo
  <2>6. v[d - 1] = Genesis
    <3>1. d - 1 \in 0 .. d - 1 /\ (d - 1) + 1 = d
      BY <1>0, <1>2, <2>2
    <3> QED BY <1>2, <2>5, <3>1
  <2>7. ASSUME NEW k \in 0 .. (d - 1) - 1 PROVE v[k] # Genesis
    <3>1. k \in 0 .. d - 1 /\ k + 1 \in 0 .. d - 1
      BY <2>2
    <3> QED BY <1>2, <2>5, <3>1
  <2>8. IsDepth(Parent[b], d - 1)
    BY <2>2, <2>6, <2>7 DEF IsDepth, v
  <2>9. Depth[Parent[b]] = d - 1
    BY <1>0, <2>8, DepthUnique
  <2> QED BY <1>2, <2>2, <2>9
<1>5. d \in Nat
  BY <1>0, <1>2
<1> QED BY <1>3, <1>4, <1>5

(* The ancestor of b at the depth e. *)
LEMMA AtDepthIs ==
    ASSUME SyncAssumption, NEW b \in Tree, NEW e \in 0 .. Depth[b]
    PROVE  AtDepth(b, e) = Up(b, Steps)[Depth[b] - e]
<1> DEFINE d == Depth[b]
<1>1. d \in 0 .. Steps /\ Steps \in Nat
  BY DepthIs, TreeFacts DEF IsDepth
<1>2. AtDepth(b, e) = Up(b, d)[d - e]
  BY Zenon DEF AtDepth, Up, IsUp
<1> HIDE DEF d
<1>3. e \in 0 .. d
  BY DEF d
<1>4. d - e \in 0 .. d
  BY <1>1, <1>3
<1>5. Up(b, d)[d - e] = Up(b, Steps)[d - e]
  BY <1>1, <1>4, UpUnique
<1> QED BY <1>2, <1>5 DEF d

(* The ancestors of b: one at each depth, each the parent of the next. *)
LEMMA AtDepthFacts ==
    ASSUME SyncAssumption, NEW b \in Tree
    PROVE  /\ AtDepth(b, Depth[b]) = b
           /\ \A e \in 0 .. Depth[b] : AtDepth(b, e) \in Tree /\ Depth[AtDepth(b, e)] = e
           /\ \A e \in 1 .. Depth[b] : Parent[AtDepth(b, e)] = AtDepth(b, e - 1)
<1> DEFINE u == Up(b, Steps)
           d == Depth[b]
<1>0. Steps \in Nat
  BY TreeFacts
<1>1. u \in [0 .. Steps -> Tree] /\ u[0] = b /\ \A k \in 1 .. Steps : u[k] = Parent[u[k - 1]]
  BY <1>0, UpExists
<1>2. d \in 0 .. Steps /\ u[d] = Genesis /\ \A k \in 0 .. d - 1 : u[k] # Genesis
  BY DepthIs DEF IsDepth
<1>3. \A e \in 0 .. d : AtDepth(b, e) = u[d - e]
  BY AtDepthIs
<1>4. Depth[b] = d
  OBVIOUS
<1> HIDE DEF u, d
<1> DEFINE T == {k \in 0 .. d : Depth[u[k]] = d - k}
<1>5. 0 \in T
  BY <1>1, <1>2, <1>4
<1>6. ASSUME NEW j \in 0 .. d - 1, j \in T PROVE j + 1 \in T
  <2>1. /\ j + 1 \in 0 .. d /\ j + 1 \in 1 .. Steps /\ (j + 1) - 1 = j /\ j \in 0 .. Steps
        /\ j + 1 \in 0 .. Steps
    BY <1>0, <1>2
  <2>2. u[j] \in Tree /\ u[j] # Genesis /\ u[j + 1] = Parent[u[j]] /\ u[j + 1] \in Tree
    BY <1>1, <1>2, <2>1
  <2>3. Depth[u[j]] = Depth[u[j + 1]] + 1 /\ Depth[u[j + 1]] \in Nat /\ Depth[u[j]] = d - j
    BY <1>6, <2>2, DepthSteps
  <2>4. Depth[u[j + 1]] = d - (j + 1)
    BY <1>0, <1>2, <2>3
  <2> QED BY <2>1, <2>4
<1>7. \A k \in 0 .. d : k \in T
  <2>1. d \in Nat
    BY <1>0, <1>2
  <2> HIDE DEF T
  <2> QED BY <1>5, <1>6, <2>1, UpTo
<1>8. AtDepth(b, d) = b
  <2>1. d \in 0 .. d /\ d - d = 0
    BY <1>0, <1>2
  <2> QED BY <1>1, <1>3, <2>1
<1>9. ASSUME NEW e \in 0 .. d PROVE AtDepth(b, e) \in Tree /\ Depth[AtDepth(b, e)] = e
  <2>1. d - e \in 0 .. d /\ d - e \in 0 .. Steps /\ d - (d - e) = e
    BY <1>0, <1>2
  <2>2. AtDepth(b, e) = u[d - e] /\ u[d - e] \in Tree
    BY <1>1, <1>3, <2>1
  <2>3. Depth[u[d - e]] = d - (d - e)
    BY <1>7, <2>1
  <2> QED BY <2>1, <2>2, <2>3
<1>10. ASSUME NEW e \in 1 .. d PROVE Parent[AtDepth(b, e)] = AtDepth(b, e - 1)
  <2>1. /\ e \in 0 .. d /\ e - 1 \in 0 .. d /\ d - (e - 1) \in 1 .. Steps
        /\ (d - (e - 1)) - 1 = d - e
    BY <1>0, <1>2
  <2>2. AtDepth(b, e) = u[d - e] /\ AtDepth(b, e - 1) = u[d - (e - 1)]
    BY <1>3, <2>1
  <2>3. u[d - (e - 1)] = Parent[u[(d - (e - 1)) - 1]]
    BY <1>1, <2>1
  <2> QED BY <2>1, <2>2, <2>3
<1> QED BY <1>4, <1>8, <1>9, <1>10

-----------------------------------------------------------------------------
(* Sets of blocks a node can know *)

Closed(K) == K \in SUBSET Tree /\ Genesis \in K /\ \A b \in K : Parent[b] \in K
Linear(K) == \A x, y \in K : Depth[x] <= Depth[y] => AtDepth(y, Depth[x]) = x

(* Whoever knows b knows its ancestors. *)
LEMMA ClosedAbove ==
    ASSUME SyncAssumption, NEW K, Closed(K), NEW b \in K, NEW e \in 0 .. Depth[b]
    PROVE  AtDepth(b, e) \in K
<1> DEFINE d == Depth[b]
           T == {k \in 0 .. d : AtDepth(b, d - k) \in K}
<1>0. b \in Tree
  BY DEF Closed
<1>1. d \in Nat
  BY <1>0, DepthSteps
<1>2. AtDepth(b, d) = b /\ \A f \in 1 .. d : Parent[AtDepth(b, f)] = AtDepth(b, f - 1)
  BY <1>0, AtDepthFacts
<1>3. e \in 0 .. d
  OBVIOUS
<1> HIDE DEF d
<1>4. 0 \in T
  BY <1>1, <1>2
<1>5. ASSUME NEW j \in 0 .. d - 1, j \in T PROVE j + 1 \in T
  <2>1. j + 1 \in 0 .. d /\ d - j \in 1 .. d /\ (d - j) - 1 = d - (j + 1)
    BY <1>1
  <2>2. AtDepth(b, d - (j + 1)) = Parent[AtDepth(b, d - j)]
    BY <1>2, <2>1
  <2> QED BY <1>5, <2>1, <2>2 DEF Closed
<1>6. \A k \in 0 .. d : k \in T
  <2> HIDE DEF T
  <2> QED BY <1>1, <1>4, <1>5, UpTo
<1>7. d - e \in 0 .. d /\ d - (d - e) = e
  BY <1>1, <1>3
<1> QED BY <1>6, <1>7

(* In a chain each block precedes every deeper one. *)
LEMMA ChainLinear ==
    ASSUME SyncAssumption, NEW K \in SUBSET Tree, IsChain(K)
    PROVE  Linear(K)
<1>1. PICK h \in K : K = Path(h)
  BY DEF IsChain
<1> DEFINE d == Depth[h]
<1>2. d \in Nat /\ h \in Tree /\ \A e \in 0 .. d : AtDepth(h, e) \in K /\ Depth[AtDepth(h, e)] = e
  BY <1>1, DepthSteps, AtDepthFacts DEF Path
<1>3. \A e \in 1 .. d : Parent[AtDepth(h, e)] = AtDepth(h, e - 1)
  BY <1>2, AtDepthFacts
<1>4. \A x \in K : Depth[x] \in 0 .. d /\ x = AtDepth(h, Depth[x])
  <2> SUFFICES ASSUME NEW x \in K PROVE Depth[x] \in 0 .. d /\ x = AtDepth(h, Depth[x])
    OBVIOUS
  <2>1. PICK e \in 0 .. d : x = AtDepth(h, e)
    BY <1>1 DEF Path
  <2> HIDE DEF d
  <2> QED BY <1>2, <2>1
<1> HIDE DEF d
<1>5. ASSUME NEW x \in K, NEW y \in K, Depth[x] <= Depth[y]
      PROVE  AtDepth(y, Depth[x]) = x
  <2> DEFINE e == Depth[y]
             T == {k \in 0 .. e : AtDepth(y, e - k) = AtDepth(h, e - k)}
  <2>1. e \in 0 .. d /\ e \in Nat /\ y = AtDepth(h, e)
    BY <1>2, <1>4
  <2>2. AtDepth(y, e) = y /\ \A f \in 1 .. e : Parent[AtDepth(y, f)] = AtDepth(y, f - 1)
    BY AtDepthFacts
  <2>3. Depth[x] \in 0 .. e /\ x = AtDepth(h, Depth[x])
    BY <1>2, <1>4, <1>5
  <2> HIDE DEF e
  <2>4. 0 \in T
    BY <2>1, <2>2
  <2>5. ASSUME NEW j \in 0 .. e - 1, j \in T PROVE j + 1 \in T
    <3>1. j + 1 \in 0 .. e /\ e - j \in 1 .. e /\ e - j \in 1 .. d /\ (e - j) - 1 = e - (j + 1)
      BY <1>2, <2>1
    <3>2. AtDepth(y, e - (j + 1)) = Parent[AtDepth(y, e - j)]
      BY <2>2, <3>1
    <3>3. AtDepth(h, e - (j + 1)) = Parent[AtDepth(h, e - j)]
      BY <1>3, <3>1
    <3> QED BY <2>5, <3>1, <3>2, <3>3
  <2>6. \A k \in 0 .. e : k \in T
    <3> HIDE DEF T
    <3> QED BY <2>1, <2>4, <2>5, UpTo
  <2>7. e - Depth[x] \in 0 .. e /\ e - (e - Depth[x]) = Depth[x]
    BY <2>1, <2>3
  <2> QED BY <2>3, <2>6, <2>7
<1> QED BY <1>5 DEF Linear

(* What K lacks of P and could take next. *)
Missing(K, P) == {b \in P \ K : Parent[b] \in K}

(* Something missing means there is a block to take next. *)
LEMMA MissingExists ==
    ASSUME SyncAssumption, NEW K, NEW P, Closed(K), Closed(P), K \subseteq P, K # P
    PROVE  Missing(K, P) # {}
<1> DEFINE D == {Depth[b] : b \in P \ K}
<1>1. D \in SUBSET Nat /\ D # {}
  <2>1. \A b \in P \ K : Depth[b] \in Nat
    BY DepthSteps DEF Closed
  <2> QED BY <2>1
<1>2. PICK m \in D : \A x \in D : m <= x
  <2> HIDE DEF D
  <2> QED BY <1>1, LeastNatural
<1>3. PICK b \in P \ K : m = Depth[b]
  OBVIOUS
<1>4. b # Genesis /\ b \in Tree /\ Parent[b] \in P /\ Parent[b] \in Tree
  BY DEF Closed
<1>5. Depth[b] = Depth[Parent[b]] + 1 /\ Depth[Parent[b]] \in Nat
  BY <1>4, DepthSteps
<1>6. Parent[b] \in K
  <2>1. ASSUME Parent[b] \notin K PROVE FALSE
    <3>1. m <= Depth[Parent[b]]
      BY <1>2, <1>4, <2>1
    <3> HIDE DEF D
    <3> QED BY <1>3, <1>5, <3>1
  <2> QED BY <2>1
<1> QED BY <1>3, <1>6 DEF Missing

LEMMA OneChild ==
    ASSUME SyncAssumption, NEW P \in SUBSET Tree, Linear(P), NEW x \in P, NEW y \in P,
           x # Genesis, y # Genesis, Parent[x] = Parent[y]
    PROVE  x = y
<1>1. Depth[x] = Depth[y] /\ Depth[x] \in Nat
  BY DepthSteps
<1>2. AtDepth(y, Depth[x]) = x
  BY <1>1 DEF Linear
<1>3. AtDepth(y, Depth[y]) = y
  BY AtDepthFacts
<1> QED BY <1>1, <1>2, <1>3

(* The block to take next goes below the deepest one known. *)
LEMMA NothingBelow ==
    ASSUME SyncAssumption, NEW K, NEW P, Closed(K), Closed(P), Linear(P), K \subseteq P,
           NEW b \in Missing(K, P), NEW c \in K
    PROVE  /\ b \in Tree /\ b # Genesis /\ Parent[b] \in K
           /\ Depth[b] = Depth[Parent[b]] + 1 /\ Depth[Parent[b]] \in Nat
           /\ Depth[c] \in Nat /\ Depth[c] <= Depth[Parent[b]]
<1>1. b \in P /\ b \notin K /\ Parent[b] \in K /\ b \in Tree /\ b # Genesis
  BY DEF Missing, Closed
<1>2. c \in P /\ c \in Tree /\ Parent[b] \in Tree
  BY <1>1 DEF Closed
<1>3. /\ Depth[b] = Depth[Parent[b]] + 1 /\ Depth[Parent[b]] \in Nat
      /\ Depth[c] \in Nat
  BY <1>1, <1>2, DepthSteps
<1>4. ASSUME ~(Depth[c] <= Depth[Parent[b]]) PROVE FALSE
  <2>1. Depth[b] \in 0 .. Depth[c] /\ Depth[b] <= Depth[c]
    BY <1>3, <1>4
  <2>2. AtDepth(c, Depth[b]) = b
    BY <1>1, <1>2, <2>1 DEF Linear
  <2>3. AtDepth(c, Depth[b]) \in K
    BY <2>1, ClosedAbove
  <2> QED BY <1>1, <2>2, <2>3
<1> QED BY <1>1, <1>3, <1>4

(* Of a chain there is one block to take next. *)
LEMMA OneMissing ==
    ASSUME SyncAssumption, NEW K, NEW P, Closed(K), Closed(P), Linear(P), K \subseteq P,
           NEW x \in Missing(K, P), NEW y \in Missing(K, P)
    PROVE  x = y
<1>1. /\ x \in P /\ y \in P /\ Parent[x] \in K /\ Parent[y] \in K
  BY DEF Missing
<1>2. /\ x # Genesis /\ y # Genesis
      /\ Depth[Parent[x]] <= Depth[Parent[y]] /\ Depth[Parent[y]] <= Depth[Parent[x]]
      /\ Depth[Parent[x]] \in Nat /\ Depth[Parent[y]] \in Nat
  BY <1>1, NothingBelow
<1>3. Depth[Parent[x]] = Depth[Parent[y]]
  BY <1>2
<1>4. AtDepth(Parent[y], Depth[Parent[x]]) = Parent[x]
  BY <1>1, <1>2 DEF Linear
<1>5. AtDepth(Parent[y], Depth[Parent[y]]) = Parent[y]
  <2>1. Parent[y] \in Tree
    BY <1>1 DEF Closed
  <2> QED BY <2>1, AtDepthFacts
<1>6. Parent[x] = Parent[y]
  BY <1>3, <1>4, <1>5
<1> QED BY <1>1, <1>2, <1>6, OneChild DEF Closed

(* The counts that are compared. *)
LEMMA CountIs ==
    ASSUME SyncAssumption, NEW K \in SUBSET Tree, NEW t \in Tree, NEW X
    PROVE  num_children(K, t, X) \in Nat
<1> DEFINE S == {c \in K : c # t /\ block_preceeds(t, c) /\ \A e \in X : ~block_preceeds(e, c)}
<1>1. IsFiniteSet(S)
  BY FS_Subset DEF SyncAssumption
<1>2. Cardinality(S) \in Nat /\ Steps + 1 \in Nat
  <2> HIDE DEF S
  <2> QED BY <1>1, FS_CardinalityType, TreeFacts
<1>3. num_children(K, t, X) = IF \E c \in S : Depth[c] - Depth[t] >= MaxCount
                              THEN Steps + 1 ELSE Cardinality(S)
  BY Zenon DEF num_children, Steps
<1> HIDE DEF S
<1> QED BY <1>2, <1>3

(* num_children() of its parent is 0 for the one who lacks it... *)
LEMMA CountOwn ==
    ASSUME SyncAssumption, NEW K, NEW P, Closed(K), Closed(P), Linear(P), K \subseteq P,
           NEW b \in Missing(K, P)
    PROVE  num_children(K, Parent[b], {}) = 0
<1> DEFINE t == Parent[b]
           S == {c \in K : c # t /\ block_preceeds(t, c) /\ \A e \in {} : ~block_preceeds(e, c)}
<1>1. ASSUME NEW c \in K, c # t, block_preceeds(t, c) PROVE FALSE
  <2>1. Depth[t] <= Depth[c] /\ AtDepth(c, Depth[t]) = t
    BY <1>1 DEF block_preceeds
  <2>2. Depth[c] <= Depth[t] /\ Depth[c] \in Nat /\ Depth[t] \in Nat
    BY NothingBelow
  <2>3. c \in Tree
    BY DEF Closed
  <2>4. AtDepth(c, Depth[c]) = c
    BY <2>3, AtDepthFacts
  <2>5. Depth[c] = Depth[t]
    BY <2>1, <2>2
  <2> HIDE DEF t
  <2> QED BY <1>1, <2>1, <2>4, <2>5
<1>2. S = {}
  BY <1>1
<1>3. num_children(K, t, {}) = IF \E c \in S : Depth[c] - Depth[t] >= MaxCount
                               THEN Cardinality(Tree) + 1 ELSE Cardinality(S)
  BY Zenon DEF num_children
<1> HIDE DEF S
<1>4. num_children(K, t, {}) = Cardinality({})
  BY <1>2, <1>3
<1> QED BY <1>4, FS_EmptySet

(* ...and not for the one who has it. *)
LEMMA CountOther ==
    ASSUME SyncAssumption, NEW P \in SUBSET Tree, NEW b \in P, b # Genesis
    PROVE  num_children(P, Parent[b], {}) \in Nat \ {0}
<1> DEFINE t == Parent[b]
           S == {c \in P : c # t /\ block_preceeds(t, c) /\ \A e \in {} : ~block_preceeds(e, c)}
<1>0. t \in Tree
  BY TreeFacts
<1>1. b \in S
  <2>1. Depth[b] = Depth[t] + 1 /\ Depth[t] \in Nat
    BY <1>0, DepthSteps
  <2> HIDE DEF t
  <2>2. Depth[t] <= Depth[b] /\ b # t /\ Depth[b] - 1 = Depth[t] /\ Depth[b] \in 1 .. Depth[b]
    BY <2>1
  <2>3. AtDepth(b, Depth[b] - 1) = Parent[AtDepth(b, Depth[b])] /\ AtDepth(b, Depth[b]) = b
    BY <2>2, AtDepthFacts
  <2>4. AtDepth(b, Depth[t]) = t
    BY <2>2, <2>3 DEF t
  <2>5. block_preceeds(t, b)
    BY <2>2, <2>4 DEF block_preceeds
  <2> QED BY <2>2, <2>5
<1>2. IsFiniteSet(S)
  BY FS_Subset DEF SyncAssumption
<1>3. num_children(P, t, {}) = IF \E c \in S : Depth[c] - Depth[t] >= MaxCount
                               THEN Steps + 1 ELSE Cardinality(S)
  BY Zenon DEF num_children, Steps
<1> HIDE DEF S
<1>4. Cardinality(S) \in Nat \ {0}
  BY <1>1, <1>2, FS_CardinalityType, FS_EmptySet
<1>5. Steps + 1 \in Nat \ {0}
  BY TreeFacts
<1> QED BY <1>3, <1>4, <1>5

(* A chain that grows by what its subset has already is that subset. *)
LEMMA CaughtUp ==
    ASSUME SyncAssumption, NEW P, NEW x, NEW K, Closed(P), x \in Tree,
           Linear(P \cup {x}), Closed(K), K \subseteq P \cup {x}, ~(K \subseteq P)
    PROVE  K = P \cup {x}
<1>1. x \in K /\ x \notin P
  OBVIOUS
<1>2. ASSUME NEW y \in P PROVE y \in K
  <2>0. y \in Tree
    BY DEF Closed
  <2>1. Depth[x] \in Nat /\ Depth[y] \in Nat
    BY <2>0, DepthSteps
  <2>2. CASE Depth[x] <= Depth[y]
    <3>1. AtDepth(y, Depth[x]) = x
      BY <2>2 DEF Linear
    <3>2. Depth[x] \in 0 .. Depth[y]
      BY <2>1, <2>2
    <3>3. AtDepth(y, Depth[x]) \in P
      BY <3>2, ClosedAbove
    <3> QED BY <1>1, <3>1, <3>3
  <2>3. CASE ~(Depth[x] <= Depth[y])
    <3>1. Depth[y] \in 0 .. Depth[x] /\ Depth[y] <= Depth[x]
      BY <2>1, <2>3
    <3>2. AtDepth(x, Depth[y]) = y
      BY <3>1 DEF Linear
    <3>3. AtDepth(x, Depth[y]) \in K
      BY <1>1, <3>1, ClosedAbove
    <3> QED BY <3>2, <3>3
  <2> QED BY <2>2, <2>3
<1> QED BY <1>1, <1>2

-----------------------------------------------------------------------------
(* The welcome blocks *)

LEMMA PowerIsNat == ASSUME NEW n \in Nat PROVE 2^n \in Nat
<1> DEFINE S == 1 .. n
<1>1. IsFiniteSet(S) /\ Cardinality(S) = n
  BY FS_Interval
<1> HIDE DEF S
<1>2. IsFiniteSet(SUBSET S) /\ Cardinality(SUBSET S) = 2^Cardinality(S)
  BY <1>1, FS_SUBSET
<1>3. Cardinality(SUBSET S) \in Nat
  BY <1>2, FS_CardinalityType
<1>4. 2^Cardinality(S) = 2^n
  BY <1>1
<1> QED BY <1>2, <1>3, <1>4, Zenon

Wide(k) == IF k - 1 < Dense THEN 1 ELSE 2 ^ (k - Dense)
IsStepTo(f) == f = [k \in 1 .. Steps + 1 |-> IF k = 1 THEN 0 ELSE f[k - 1] + Wide(k)]

(* A welcome begins at the head. *)
LEMMA StepToFacts ==
    ASSUME SyncAssumption
    PROVE  StepTo \in [1 .. Steps + 1 -> Nat] /\ StepTo[1] = 0
<1>0. Steps \in Nat /\ Dense \in Nat
  BY TreeFacts DEF SyncAssumption
<1> DEFINE G == [k \in 1 .. Steps |-> [x \in Nat |-> x + Wide(k + 1)]]
<1>1. \A k \in 1 .. Steps + 1 : Wide(k) \in Nat
  <2> SUFFICES ASSUME NEW k \in 1 .. Steps + 1 PROVE Wide(k) \in Nat
    OBVIOUS
  <2>1. CASE k - 1 < Dense
    BY <2>1 DEF Wide
  <2>2. CASE ~(k - 1 < Dense)
    <3>1. k - Dense \in Nat
      BY <1>0, <2>2
    <3>2. 2^(k - Dense) \in Nat
      BY <3>1, PowerIsNat
    <3> QED BY <2>2, <3>2 DEF Wide
  <2> QED BY <2>1, <2>2
<1>2. StepsIn(G, Steps, Nat)
  <2>1. \A k \in 1 .. Steps : Wide(k + 1) \in Nat
    BY <1>0, <1>1
  <2>2. \A k \in 1 .. Steps : \A x \in Nat : x + Wide(k + 1) \in Nat
    BY <2>1
  <2> QED BY <2>2 DEF StepsIn
<1>3. PICK g : FollowsFrom(g, 0, G, Steps, Nat)
  <2> HIDE DEF G
  <2> QED BY <1>0, <1>2, RecursionWorks
<1>4. g \in [0 .. Steps -> Nat] /\ g[0] = 0 /\ \A k \in 1 .. Steps : g[k] = G[k][g[k - 1]]
  BY <1>3 DEF FollowsFrom
<1>5. \A k \in 1 .. Steps : g[k] = g[k - 1] + Wide(k + 1)
  <2> SUFFICES ASSUME NEW k \in 1 .. Steps PROVE g[k] = g[k - 1] + Wide(k + 1)
    OBVIOUS
  <2>1. g[k - 1] \in Nat
    <3>1. k - 1 \in 0 .. Steps
      BY <1>0
    <3> QED BY <1>4, <3>1
  <2> QED BY <1>4, <2>1
<1> HIDE DEF G
<1> DEFINE f == [k \in 1 .. Steps + 1 |-> g[k - 1]]
<1>6. IsStepTo(f)
  <2>1. ASSUME NEW k \in 1 .. Steps + 1
        PROVE  g[k - 1] = IF k = 1 THEN 0 ELSE f[k - 1] + Wide(k)
    <3>1. CASE k = 1
      BY <1>4, <3>1
    <3>2. CASE k # 1
      <4>1. k - 1 \in 1 .. Steps /\ k - 1 \in 1 .. Steps + 1 /\ (k - 1) + 1 = k
        BY <1>0, <3>2
      <4>2. f[k - 1] = g[(k - 1) - 1]
        BY <4>1
      <4>3. g[k - 1] = g[(k - 1) - 1] + Wide((k - 1) + 1)
        BY <1>5, <4>1
      <4> HIDE DEF f
      <4> QED BY <3>2, <4>1, <4>2, <4>3
    <3> QED BY <3>1, <3>2
  <2>2. f = [k \in 1 .. Steps + 1 |-> IF k = 1 THEN 0 ELSE f[k - 1] + Wide(k)]
    BY <2>1
  <2> HIDE DEF f
  <2> QED BY <2>2 DEF IsStepTo
<1> HIDE DEF f
<1>7. StepTo = CHOOSE h : IsStepTo(h)
  BY Zenon DEF StepTo, IsStepTo, Steps, Wide
<1>8. IsStepTo(StepTo)
  BY <1>6, <1>7
<1> DEFINE s == StepTo
<1>9. s = [k \in 1 .. Steps + 1 |-> IF k = 1 THEN 0 ELSE s[k - 1] + Wide(k)]
  BY <1>8 DEF IsStepTo
<1> HIDE DEF s
<1>10. DOMAIN s = 1 .. Steps + 1
  BY <1>9
<1>11. \A k \in 1 .. Steps + 1 : s[k] = IF k = 1 THEN 0 ELSE s[k - 1] + Wide(k)
  BY <1>9
<1> DEFINE T == {k \in 0 .. Steps : s[k + 1] \in Nat}
<1>12. s[1] = 0
  BY <1>0, <1>11
<1>13. 0 \in T
  BY <1>0, <1>12
<1>14. ASSUME NEW j \in 0 .. Steps - 1, j \in T PROVE j + 1 \in T
  <2>1. j + 1 \in 0 .. Steps /\ (j + 1) + 1 \in 1 .. Steps + 1 /\ (j + 1) + 1 # 1 /\ ((j + 1) + 1) - 1 = j + 1
    BY <1>0
  <2>2. s[(j + 1) + 1] = s[j + 1] + Wide((j + 1) + 1)
    BY <1>11, <2>1
  <2>3. Wide((j + 1) + 1) \in Nat /\ s[j + 1] \in Nat
    BY <1>1, <1>14, <2>1
  <2> QED BY <2>1, <2>2, <2>3
<1>15. \A k \in 0 .. Steps : k \in T
  <2> HIDE DEF T
  <2> QED BY <1>0, <1>13, <1>14, UpTo
<1>16. \A k \in 1 .. Steps + 1 : s[k] \in Nat
  <2> SUFFICES ASSUME NEW k \in 1 .. Steps + 1 PROVE s[k] \in Nat
    OBVIOUS
  <2>1. k - 1 \in 0 .. Steps /\ (k - 1) + 1 = k
    BY <1>0
  <2> QED BY <1>15, <2>1
<1>17. s = [k \in 1 .. Steps + 1 |-> s[k]]
  BY <1>9, <1>10
<1>18. s \in [1 .. Steps + 1 -> Nat]
  BY <1>16, <1>17
<1> QED BY <1>12, <1>18 DEF s

(* It lists blocks its sender knows, the head and genesis among them. *)
LEMMA WelcomeFacts ==
    ASSUME SyncAssumption, NEW K, Closed(K), NEW head \in K
    PROVE  /\ \A b \in add_welcome_blocks(head) :
                 b \in K /\ Depth[b] <= Depth[head] /\ (Depth[b] = Depth[head] => b = head)
           /\ head \in add_welcome_blocks(head) /\ Genesis \in add_welcome_blocks(head)
<1> DEFINE d == Depth[head]
           I == {k \in DOMAIN StepTo : StepTo[k] <= d}
<1>0. head \in Tree /\ Genesis \in K /\ Steps \in Nat
  BY TreeFacts DEF Closed
<1>1. d \in Nat
  BY <1>0, DepthSteps
<1>2. AtDepth(head, d) = head /\ \A e \in 0 .. d : Depth[AtDepth(head, e)] = e /\ AtDepth(head, e) \in K
  BY <1>0, AtDepthFacts, ClosedAbove
<1>3. Depth[Genesis] = 0
  BY TreeFacts, DepthSteps
<1>4. d = 0 => head = Genesis
  BY <1>0, DepthSteps
<1>5. add_welcome_blocks(head) = {AtDepth(head, d - StepTo[k]) : k \in I} \cup {Genesis}
  BY DEF add_welcome_blocks
<1>6. StepTo \in [1 .. Steps + 1 -> Nat] /\ StepTo[1] = 0
  BY StepToFacts
<1> HIDE DEF d
<1>7. 1 \in I /\ d - StepTo[1] = d
  BY <1>0, <1>1, <1>6
<1>8. \A k \in I : d - StepTo[k] \in 0 .. d
  BY <1>1, <1>6
<1> HIDE DEF I
<1>9. head \in add_welcome_blocks(head) /\ Genesis \in add_welcome_blocks(head)
  BY <1>2, <1>5, <1>7
<1>10. ASSUME NEW b \in add_welcome_blocks(head)
       PROVE  b \in K /\ Depth[b] <= d /\ (Depth[b] = d => b = head)
  <2>1. CASE b = Genesis
    BY <1>0, <1>1, <1>3, <1>4, <2>1
  <2>2. CASE b # Genesis
    <3>1. PICK k \in I : b = AtDepth(head, d - StepTo[k])
      BY <1>5, <2>2
    <3> DEFINE e == d - StepTo[k]
    <3>2. e \in 0 .. d /\ b = AtDepth(head, e)
      BY <1>8, <3>1
    <3> HIDE DEF e
    <3> QED BY <1>1, <1>2, <3>2
  <2> QED BY <2>1, <2>2
<1> QED BY <1>9, <1>10 DEF d

(* mutual_block_search() finds a block both know: the head if it can. *)
LEMMA MutualFacts ==
    ASSUME SyncAssumption, NEW K, Closed(K), NEW O, Closed(O), NEW head \in K
    PROVE  LET m == mutual_block_search(O, head) IN
           m \in K /\ m \in O /\ (head \in O => m = head)
<1> DEFINE S == add_welcome_blocks(head) \cap O
           m == mutual_block_search(O, head)
           D == {Depth[head] - Depth[b] : b \in S}
<1>1. \A b \in S : /\ b \in K /\ b \in O /\ Depth[b] \in Nat /\ Depth[b] <= Depth[head]
                   /\ (Depth[b] = Depth[head] => b = head)
  <2> SUFFICES ASSUME NEW b \in S
               PROVE  /\ b \in K /\ b \in O /\ Depth[b] \in Nat /\ Depth[b] <= Depth[head]
                      /\ (Depth[b] = Depth[head] => b = head)
    OBVIOUS
  <2>1. b \in K /\ Depth[b] <= Depth[head] /\ (Depth[b] = Depth[head] => b = head)
    BY WelcomeFacts
  <2>2. Depth[b] \in Nat
    BY <2>1, DepthSteps DEF Closed
  <2> QED BY <2>1, <2>2
<1>2. Genesis \in S /\ (head \in O => head \in S)
  BY WelcomeFacts DEF Closed
<1>3. Depth[head] \in Nat
  BY DepthSteps DEF Closed
<1>4. m = CHOOSE b \in S : \A c \in S : Depth[c] <= Depth[b]
  BY DEF mutual_block_search
<1> HIDE DEF S, m
<1>5. \E b \in S : \A c \in S : Depth[c] <= Depth[b]
  <2>1. D \in SUBSET Nat /\ D # {}
    BY <1>1, <1>2, <1>3
  <2>2. PICK x \in D : \A y \in D : x <= y
    <3> HIDE DEF D
    <3> QED BY <2>1, LeastNatural
  <2>3. PICK b \in S : x = Depth[head] - Depth[b]
    OBVIOUS
  <2>4. ASSUME NEW c \in S PROVE Depth[c] <= Depth[b]
    <3>1. x <= Depth[head] - Depth[c]
      BY <2>2
    <3> HIDE DEF D
    <3> QED BY <1>1, <1>3, <2>3, <3>1
  <2> QED BY <2>4
<1>6. m \in S /\ \A c \in S : Depth[c] <= Depth[m]
  BY <1>4, <1>5
<1>7. m \in K /\ m \in O
  BY <1>1, <1>6
<1>8. ASSUME head \in O PROVE m = head
  <2>1. Depth[head] <= Depth[m] /\ Depth[m] <= Depth[head] /\ Depth[m] \in Nat
    BY <1>1, <1>2, <1>6, <1>8
  <2> QED BY <1>1, <1>3, <1>6, <2>1
<1> QED BY <1>7, <1>8 DEF m

-----------------------------------------------------------------------------
(* The invariant *)

In(p, s) == \E i \in 1 .. Len(s) : s[i] = p
Blk(b) == [type |-> "BLOCK", block |-> b]

Packet ==
    [type : {"SYNC"}, blocks : SUBSET (Tree \X Nat)]
    \cup [type : {"GET_CHILDREN", "GET_BLOCK", "BLOCK"}, block : Tree]
    \cup [type : {"CHILDREN"}, block : Tree, list : Seq(Tree \X Nat)]
    \cup [type : {"SET_FILTER"}]
Request == {"GET_CHILDREN", "GET_BLOCK"} \X Tree

Want(n) == waiting[n] \cup asked[n]

SyncTypes ==
    /\ have \in [SyncNodes -> SUBSET Tree] /\ \A n \in SyncNodes : Closed(have[n])
    /\ waiting \in [SyncNodes -> SUBSET Request] /\ asked \in [SyncNodes -> SUBSET Request]
    /\ failed \in [SyncNodes -> {{}}] /\ first \in [SyncNodes -> SUBSET Tree]
    /\ net \in [SyncNodes -> Seq(Packet)]
    /\ weSync \in [SyncNodes -> BOOLEAN] /\ theySync \in [SyncNodes -> BOOLEAN]

(* What a packet on its way to n says is true of what the two know. *)
PacketFor(n, p) ==
    /\ p.type = "SYNC" => \A e \in p.blocks : e[1] \in have[n]
    /\ p.type = "GET_CHILDREN" => p.block \in have[Other(n)]
    /\ p.type = "GET_BLOCK" => p.block \in have[n]
    /\ p.type = "BLOCK" => p.block \in have[Other(n)]
    /\ p.type = "CHILDREN" =>
           /\ p.block \in have[n]
           /\ \A i \in 1 .. Len(p.list) :
                 p.list[i][1] \in have[Other(n)] \ {Genesis} /\ Parent[p.list[i][1]] = p.block
    /\ p.type = "SET_FILTER" => ~weSync[Other(n)]
SyncPackets(n) == \A p \in Packet : In(p, net[n]) => PacketFor(n, p)

(* A SYNC packet is the first to arrive. *)
SyncFirst(s) == \A i \in 2 .. Len(s) : s[i].type # "SYNC"

(* n asks for the children of what it knows and for blocks the other has. *)
RequestsFor(n) ==
    \A b \in Tree : /\ GetChildren(b) \in Want(n) => b \in have[n]
                    /\ GetBlock(b) \in Want(n) => b \in have[Other(n)]

(* The first entry of a CHILDREN packet is known or asked for. *)
FirstFor(n) ==
    \A b \in first[n] : Parent[b] \in have[n] /\ (b \in have[n] \/ GetBlock(b) \in Want(n))

(* All that n knows is on the chain the other one has. *)
Ahead(n) == ~early /\ Linear(have[Other(n)]) /\ have[n] \subseteq have[Other(n)]

(* n is on its way to b, the next block it lacks. *)
Tells(p, b) ==
    /\ p.type = "SYNC" => \E e \in p.blocks : e[1] = Parent[b] /\ 0 < e[2]
    /\ p.type = "CHILDREN" /\ p.block = Parent[b] => p.list # <<>> /\ p.list[1][1] = b
Asking(n, b) ==
    /\ weSync[n]
    /\ \/ \E p \in Packet : In(p, net[n]) /\ p.type = "SYNC"
       \/ GetChildren(Parent[b]) \in Want(n) \/ GetBlock(b) \in Want(n)
    /\ \A p \in Packet : In(p, net[n]) => Tells(p, b)
Working(n) ==
    Ahead(n) /\ theySync[Other(n)] => \A b \in Missing(have[n], have[Other(n)]) : Asking(n, b)

(* What n lacks is on its way to it, each block after the one before it. *)
Delivered(s, D) ==
    /\ \A y \in D : In(Blk(y), s)
    /\ \A y \in D : Parent[y] \in D => \A j \in 1 .. Len(s) : s[j] = Blk(y) =>
           \E i \in 1 .. j - 1 : s[i] = Blk(Parent[y])
Sent(n) ==
    Ahead(n) /\ ~theySync[Other(n)] => Delivered(net[n], have[Other(n)] \ have[n])

Sound(n) ==
    /\ SyncPackets(n) /\ SyncFirst(net[n]) /\ RequestsFor(n)
    /\ ~theySync[Other(n)] => ~weSync[n]

(* Flags and packets agree, and n gets what it lacks. *)
SyncInv ==
    /\ SyncTypes
    /\ \A n \in SyncNodes : Sound(n) /\ FirstFor(n) /\ Working(n) /\ Sent(n)

-----------------------------------------------------------------------------
(* Two nodes *)

LEMMA TwoNodes ==
    ASSUME SyncAssumption, NEW n \in SyncNodes
    PROVE  /\ Other(n) \in SyncNodes /\ Other(n) # n /\ Other(Other(n)) = n
           /\ SyncNodes = {n, Other(n)}
<1>1. IsFiniteSet(SyncNodes) /\ Cardinality(SyncNodes) = 2
  BY DEF SyncAssumption
<1>2. IsFiniteSet(SyncNodes \ {n}) /\ Cardinality(SyncNodes \ {n}) = 1
  BY <1>1, FS_RemoveElement
<1>3. PICK m : SyncNodes \ {n} = {m}
  BY <1>2, FS_Singleton
<1>4. m \in SyncNodes /\ m # n /\ SyncNodes = {n, m}
  BY <1>3
<1>5. Other(n) = m
  BY <1>4 DEF Other
<1>6. Other(m) = n
  BY <1>4 DEF Other
<1> QED BY <1>4, <1>5, <1>6

-----------------------------------------------------------------------------
(* Packets *)

LEMMA PacketKinds ==
    ASSUME NEW p \in Packet
    PROVE  /\ p.type = "SYNC" => p.blocks \in SUBSET (Tree \X Nat)
           /\ p.type \in {"GET_CHILDREN", "GET_BLOCK", "BLOCK", "CHILDREN"} => p.block \in Tree
           /\ p.type = "CHILDREN" => p.list \in Seq(Tree \X Nat)
           /\ p.type = "BLOCK" => p = Blk(p.block)
<1>1. CASE p \in [type : {"SYNC"}, blocks : SUBSET (Tree \X Nat)]
  BY <1>1
<1>2. CASE p \in [type : {"GET_CHILDREN", "GET_BLOCK", "BLOCK"}, block : Tree]
  BY <1>2 DEF Blk
<1>3. CASE p \in [type : {"CHILDREN"}, block : Tree, list : Seq(Tree \X Nat)]
  BY <1>3
<1>4. CASE p \in [type : {"SET_FILTER"}]
  BY <1>4
<1> QED BY <1>1, <1>2, <1>3, <1>4 DEF Packet

LEMMA NewPackets ==
    /\ \A b \in Tree : \A t \in {"GET_CHILDREN", "GET_BLOCK", "BLOCK"} :
          [type |-> t, block |-> b] \in Packet
    /\ \A b \in Tree : \A l \in Seq(Tree \X Nat) :
          [type |-> "CHILDREN", block |-> b, list |-> l] \in Packet
    /\ \A B \in SUBSET (Tree \X Nat) : [type |-> "SYNC", blocks |-> B] \in Packet
    /\ [type |-> "SET_FILTER"] \in Packet
BY DEF Packet

(* A packet is consumed. *)
LEMMA OnTail ==
    ASSUME NEW s \in Seq(Packet), s # <<>>
    PROVE  /\ Head(s) \in Packet /\ In(Head(s), s) /\ Tail(s) \in Seq(Packet)
           /\ Len(s) \in Nat /\ 1 <= Len(s) /\ Len(Tail(s)) = Len(s) - 1 /\ s[1] = Head(s)
           /\ \A i \in 1 .. Len(s) - 1 : Tail(s)[i] = s[i + 1]
           /\ \A p : In(p, Tail(s)) => In(p, s)
           /\ \A p : In(p, s) => p = Head(s) \/ In(p, Tail(s))
           /\ SyncFirst(s) => /\ SyncFirst(Tail(s))
                              /\ \A p : In(p, Tail(s)) => p.type # "SYNC"
<1> DEFINE t == Tail(s)
           n == Len(s)
<1>1. /\ Head(s) \in Packet /\ s[1] = Head(s) /\ n \in Nat /\ 1 <= n
      /\ t \in Seq(Packet) /\ Len(t) = n - 1 /\ \A i \in 1 .. n - 1 : t[i] = s[i + 1]
  OBVIOUS
<1> HIDE DEF t, n
<1>2. In(Head(s), s)
  BY <1>1 DEF In, n
<1>3. ASSUME NEW p, In(p, t) PROVE In(p, s)
  <2>1. PICK i \in 1 .. n - 1 : s[i + 1] = p
    BY <1>1, <1>3 DEF In
  <2>2. i + 1 \in 1 .. n
    BY <1>1
  <2> QED BY <2>1, <2>2 DEF In, n
<1>4. ASSUME NEW p, In(p, s), p # Head(s) PROVE In(p, t)
  <2>1. PICK i \in 1 .. n : s[i] = p
    BY <1>4 DEF In, n
  <2>2. i # 1
    BY <1>1, <1>4, <2>1
  <2>3. i - 1 \in 1 .. n - 1 /\ (i - 1) + 1 = i
    BY <1>1, <2>2
  <2>4. t[i - 1] = p
    BY <1>1, <2>1, <2>3
  <2> QED BY <1>1, <2>3, <2>4 DEF In
<1>5. ASSUME SyncFirst(s) PROVE SyncFirst(t) /\ \A p : In(p, t) => p.type # "SYNC"
  <2>1. \A i \in 1 .. n - 1 : t[i].type # "SYNC"
    <3> SUFFICES ASSUME NEW i \in 1 .. n - 1 PROVE t[i].type # "SYNC"
      OBVIOUS
    <3>1. i + 1 \in 2 .. n
      BY <1>1
    <3> QED BY <1>1, <1>5, <3>1 DEF SyncFirst, n
  <2>2. \A i \in 2 .. n - 1 : i \in 1 .. n - 1
    BY <1>1
  <2> QED BY <1>1, <2>1, <2>2 DEF SyncFirst, In
<1> QED BY <1>1, <1>2, <1>3, <1>4, <1>5 DEF t, n

(* A packet is sent. *)
LEMMA OnAppend ==
    ASSUME NEW s \in Seq(Packet), NEW x \in Packet, x.type # "SYNC"
    PROVE  /\ s \o <<x>> \in Seq(Packet) /\ Append(s, x) = s \o <<x>>
           /\ Len(s) \in Nat /\ Len(s \o <<x>>) = Len(s) + 1
           /\ \A i \in 1 .. Len(s) : (s \o <<x>>)[i] = s[i]
           /\ (s \o <<x>>)[Len(s) + 1] = x
           /\ \A p : In(p, s \o <<x>>) <=> In(p, s) \/ p = x
           /\ SyncFirst(s) => SyncFirst(s \o <<x>>)
<1> DEFINE t == s \o <<x>>
           n == Len(s)
<1>1. /\ t \in Seq(Packet) /\ Append(s, x) = t /\ n \in Nat /\ Len(t) = n + 1
      /\ \A i \in 1 .. n : t[i] = s[i]
      /\ t[n + 1] = x
  OBVIOUS
<1> HIDE DEF t, n
<1>2. \A i \in 1 .. n + 1 : i \in 1 .. n \/ i = n + 1
  BY <1>1
<1>3. \A i \in 1 .. n : i \in 1 .. n + 1
  BY <1>1
<1>4. \A p : In(p, t) <=> In(p, s) \/ p = x
  <2> SUFFICES ASSUME NEW p PROVE In(p, t) <=> In(p, s) \/ p = x
    OBVIOUS
  <2>1. n + 1 \in 1 .. n + 1
    BY <1>1
  <2>2. In(p, s) <=> \E i \in 1 .. n : s[i] = p
    BY DEF In, n
  <2>3. In(p, t) <=> \E i \in 1 .. n + 1 : t[i] = p
    BY <1>1 DEF In
  <2> QED BY <1>1, <1>2, <1>3, <2>1, <2>2, <2>3
<1>5. ASSUME SyncFirst(s) PROVE SyncFirst(t)
  <2>1. \A i \in 2 .. n + 1 : i \in 2 .. n \/ i = n + 1
    BY <1>1
  <2>2. \A i \in 2 .. n : i \in 1 .. n
    BY <1>1
  <2>3. \A i \in 2 .. n : s[i].type # "SYNC"
    BY <1>5 DEF SyncFirst, n
  <2> QED BY <1>1, <2>1, <2>2, <2>3 DEF SyncFirst
<1> QED BY <1>1, <1>4, <1>5 DEF t, n

-----------------------------------------------------------------------------
(* Blocks on their way *)

(* The first packet is consumed; it carries none of E. *)
LEMMA DeliveredTail ==
    ASSUME NEW s \in Seq(Packet), s # <<>>, NEW D, NEW E \in SUBSET D, Delivered(s, D),
           \A y \in E : Head(s) # Blk(y)
    PROVE  Delivered(Tail(s), E)
<1> DEFINE t == Tail(s)
           n == Len(s)
<1>1. /\ n \in Nat /\ 1 <= n /\ Len(t) = n - 1 /\ s[1] = Head(s)
      /\ \A i \in 1 .. n - 1 : t[i] = s[i + 1]
      /\ \A p : In(p, s) => p = Head(s) \/ In(p, t)
  BY OnTail
<1>2. /\ \A y \in D : In(Blk(y), s)
      /\ \A y \in D : Parent[y] \in D => \A j \in 1 .. n : s[j] = Blk(y) =>
             \E i \in 1 .. j - 1 : s[i] = Blk(Parent[y])
  BY DEF Delivered
<1> HIDE DEF t, n
<1>3. \A y \in E : In(Blk(y), t)
  BY <1>1, <1>2
<1>4. ASSUME NEW y \in E, Parent[y] \in E, NEW j \in 1 .. n - 1, t[j] = Blk(y)
      PROVE  \E i \in 1 .. j - 1 : t[i] = Blk(Parent[y])
  <2>1. j + 1 \in 1 .. n /\ s[j + 1] = Blk(y)
    BY <1>1, <1>4
  <2>2. PICK i \in 1 .. (j + 1) - 1 : s[i] = Blk(Parent[y])
    BY <1>2, <1>4, <2>1
  <2>3. i # 1
    BY <1>1, <1>4, <2>2
  <2>4. i - 1 \in 1 .. j - 1 /\ i - 1 \in 1 .. n - 1 /\ (i - 1) + 1 = i
    BY <1>1, <2>3
  <2>5. t[i - 1] = Blk(Parent[y])
    BY <1>1, <2>2, <2>4
  <2> QED BY <2>4, <2>5
<1> QED BY <1>1, <1>3, <1>4 DEF Delivered, t

(* A packet is sent: with the new block z, or with nothing new. *)
LEMMA DeliveredMore ==
    ASSUME NEW s \in Seq(Packet), NEW x \in Packet, x.type # "SYNC",
           NEW D, NEW z, Delivered(s, D),
           z \notin D => x = Blk(z) /\ \A p \in Packet : In(p, s) /\ p.type = "BLOCK" =>
                                          p.block # z /\ Parent[p.block] # z,
           z \notin D => Parent[z] # z
    PROVE  Delivered(s \o <<x>>, D \cup {z})
<1> DEFINE t == s \o <<x>>
           n == Len(s)
           E == D \cup {z}
<1>1. /\ n \in Nat /\ Len(t) = n + 1 /\ \A i \in 1 .. n : t[i] = s[i]
      /\ t[n + 1] = x /\ \A p : In(p, t) <=> In(p, s) \/ p = x
  BY OnAppend
<1>2. /\ \A y \in D : In(Blk(y), s)
      /\ \A y \in D : Parent[y] \in D => \A j \in 1 .. n : s[j] = Blk(y) =>
             \E i \in 1 .. j - 1 : s[i] = Blk(Parent[y])
  BY DEF Delivered
<1>6. \A i \in 1 .. n : s[i] \in Packet /\ In(s[i], s)
  BY DEF In
<1> HIDE DEF t, n
<1>3. \A y \in E : In(Blk(y), t)
  BY <1>1, <1>2
<1>4. ASSUME NEW y \in E, Parent[y] \in E, NEW j \in 1 .. n + 1, t[j] = Blk(y)
      PROVE  \E i \in 1 .. j - 1 : t[i] = Blk(Parent[y])
  <2>1. CASE j = n + 1 /\ Parent[y] \in D
    <3>1. PICK i \in 1 .. n : s[i] = Blk(Parent[y])
      BY <1>2, <2>1 DEF In, n
    <3>2. i \in 1 .. j - 1
      BY <1>1, <2>1
    <3> QED BY <1>1, <3>1, <3>2
  <2>2. CASE j = n + 1 /\ Parent[y] \notin D
    <3>1. Parent[y] = z /\ z \notin D /\ x = Blk(z) /\ x = Blk(y)
      BY <1>1, <1>4, <2>2
    <3>2. y = z
      BY <3>1 DEF Blk
    <3> QED BY <3>1, <3>2
  <2>3. CASE j # n + 1
    <3>1. j \in 1 .. n /\ s[j] = Blk(y)
      BY <1>1, <1>4, <2>3
    <3>2. s[j].type = "BLOCK" /\ s[j].block = y /\ s[j] \in Packet /\ In(s[j], s)
      BY <1>6, <3>1 DEF Blk
    <3>3. y \in D /\ Parent[y] \in D
      BY <1>4, <3>2
    <3>4. PICK i \in 1 .. j - 1 : s[i] = Blk(Parent[y])
      BY <1>2, <3>1, <3>3
    <3>5. i \in 1 .. n
      BY <1>1, <3>1
    <3> QED BY <1>1, <3>4, <3>5
  <2> QED BY <2>1, <2>2, <2>3
<1> QED BY <1>1, <1>3, <1>4 DEF Delivered, t

-----------------------------------------------------------------------------
(* What a step does to each part of the invariant *)

(* n gets the packets of `new', and those of `gone' are consumed. *)
NetStep(n, new, gone) ==
    /\ net'[n] \in Seq(Packet) /\ SyncFirst(net'[n])
    /\ \A p : In(p, net'[n]) => In(p, net[n]) \/ p \in new
    /\ \A p : In(p, net[n]) => In(p, net'[n]) \/ p \in gone

LEMMA NetSame ==
    ASSUME NEW n \in SyncNodes, net[n] \in Seq(Packet), SyncFirst(net[n]), net'[n] = net[n]
    PROVE  NetStep(n, {}, {})
BY DEF NetStep

LEMMA NetTail ==
    ASSUME NEW n \in SyncNodes, net[n] \in Seq(Packet), SyncFirst(net[n]), net[n] # <<>>,
           net'[n] = Tail(net[n])
    PROVE  NetStep(n, {}, {Head(net[n])}) /\ \A p : In(p, net'[n]) => p.type # "SYNC"
BY OnTail DEF NetStep

LEMMA NetMore ==
    ASSUME NEW n \in SyncNodes, net[n] \in Seq(Packet), SyncFirst(net[n]),
           NEW x \in Packet, x.type # "SYNC", net'[n] = net[n] \o <<x>>
    PROVE  NetStep(n, {x}, {})
<1>1. /\ net'[n] \in Seq(Packet) /\ SyncFirst(net'[n])
      /\ \A p : In(p, net'[n]) <=> In(p, net[n]) \/ p = x
  BY OnAppend
<1> QED BY <1>1 DEF NetStep

LEMMA SoundStep ==
    ASSUME NEW n \in SyncNodes, Sound(n), NEW new, NEW gone, NetStep(n, new, gone),
           have[n] \subseteq have'[n], have[Other(n)] \subseteq have'[Other(n)],
           weSync'[Other(n)] => weSync[Other(n)],
           \A p \in new : PacketFor(n, p)',
           \A b \in Tree : GetChildren(b) \in Want(n)' =>
                               GetChildren(b) \in Want(n) \/ b \in have'[n],
           \A b \in Tree : GetBlock(b) \in Want(n)' =>
                               GetBlock(b) \in Want(n) \/ b \in have'[Other(n)],
           ~theySync'[Other(n)] => ~weSync'[n]
    PROVE  Sound(n)'
<1>1. SyncFirst(net'[n])
  BY DEF NetStep
<1>2. RequestsFor(n)'
  <2>1. RequestsFor(n)
    BY DEF Sound
  <2> QED BY <2>1 DEF RequestsFor
<1>3. ASSUME NEW p \in Packet, In(p, net'[n]) PROVE PacketFor(n, p)'
  <2>1. CASE p \in new
    BY <2>1
  <2>2. CASE In(p, net[n])
    <3>1. PacketFor(n, p)
      BY <2>2 DEF Sound, SyncPackets
    <3> QED BY <3>1 DEF PacketFor
  <2> QED BY <1>3, <2>1, <2>2 DEF NetStep
<1>4. SyncPackets(n)'
  BY <1>3 DEF SyncPackets
<1> QED BY <1>1, <1>2, <1>4 DEF Sound

LEMMA FirstStep ==
    ASSUME NEW n \in SyncNodes, FirstFor(n), have[n] \subseteq have'[n],
           \A b \in first[n] : Parent[b] \in have[n] /\ GetBlock(b) \in Want(n) =>
               b \in have'[n] \/ GetBlock(b) \in Want(n)',
           \A b \in first'[n] : b \in first[n] \/
               (Parent[b] \in have'[n] /\ (b \in have'[n] \/ GetBlock(b) \in Want(n)'))
    PROVE  FirstFor(n)'
BY DEF FirstFor

(* Steps that leave what is known alone. *)
LEMMA WorkingStep ==
    ASSUME NEW n \in SyncNodes, Working(n), have' = have, early' = early,
           theySync'[Other(n)] => theySync[Other(n)],
           NEW new \in SUBSET Packet, NEW gone, NetStep(n, new, gone),
           \A b \in Missing(have[n], have[Other(n)]) :
               Ahead(n) /\ Asking(n, b) =>
               /\ weSync'[n]
               /\ \A p \in new : Tells(p, b)
               /\ \/ \E p \in Packet : In(p, net'[n]) /\ p.type = "SYNC"
                  \/ GetChildren(Parent[b]) \in Want(n)' \/ GetBlock(b) \in Want(n)'
    PROVE  Working(n)'
<1> SUFFICES ASSUME Ahead(n)', theySync'[Other(n)],
                    NEW b \in Missing(have'[n], have'[Other(n)])
             PROVE  Asking(n, b)'
  BY DEF Working
<1>1. Ahead(n)
  BY DEF Ahead
<1>2. b \in Missing(have[n], have[Other(n)])
  BY DEF Missing
<1>3. Asking(n, b)
  BY <1>1, <1>2 DEF Working
<1>4. ASSUME NEW p \in Packet, In(p, net'[n]) PROVE Tells(p, b)
  <2>1. CASE p \in new
    BY <1>1, <1>2, <1>3, <2>1
  <2>2. CASE In(p, net[n])
    BY <1>3, <2>2 DEF Asking
  <2> QED BY <1>4, <2>1, <2>2 DEF NetStep
<1> QED BY <1>1, <1>2, <1>3, <1>4 DEF Asking, Tells

(* Requests that stay. *)
LEMMA StillAsking ==
    ASSUME NEW n \in SyncNodes, NEW b, Asking(n, b), weSync'[n] = weSync[n],
           NEW new, NEW gone, NetStep(n, new, gone), \A p \in gone : p.type # "SYNC",
           Want(n) \subseteq Want(n)'
    PROVE  /\ weSync'[n]
           /\ \/ \E p \in Packet : In(p, net'[n]) /\ p.type = "SYNC"
              \/ GetChildren(Parent[b]) \in Want(n)' \/ GetBlock(b) \in Want(n)'
BY DEF Asking, NetStep

LEMMA SentStep ==
    ASSUME NEW n \in SyncNodes, Sent(n), have' = have, early' = early,
           theySync'[Other(n)] = theySync[Other(n)], net[n] \in Seq(Packet),
           \/ net'[n] = net[n]
           \/ /\ net[n] # <<>> /\ net'[n] = Tail(net[n])
              /\ Ahead(n) /\ ~theySync[Other(n)] /\ Head(net[n]).type = "BLOCK" =>
                     Head(net[n]).block \in have[n]
           \/ \E x \in Packet : x.type # "SYNC" /\ net'[n] = net[n] \o <<x>>
    PROVE  Sent(n)'
<1> DEFINE D == have[Other(n)] \ have[n]
<1> SUFFICES ASSUME Ahead(n)', ~theySync'[Other(n)]
             PROVE  Delivered(net'[n], D)
  BY DEF Sent, Delivered
<1>0. Ahead(n) /\ ~theySync[Other(n)]
  BY DEF Ahead
<1>1. Delivered(net[n], D)
  BY <1>0 DEF Sent
<1>2. CASE net'[n] = net[n]
  BY <1>1, <1>2
<1>3. CASE /\ net[n] # <<>> /\ net'[n] = Tail(net[n])
           /\ Ahead(n) /\ ~theySync[Other(n)] /\ Head(net[n]).type = "BLOCK" =>
                  Head(net[n]).block \in have[n]
  <2>1. \A y \in D : Head(net[n]) # Blk(y)
    BY <1>0, <1>3 DEF Blk
  <2> HIDE DEF D
  <2> QED BY <1>1, <1>3, <2>1, DeliveredTail
<1>4. CASE \E x \in Packet : x.type # "SYNC" /\ net'[n] = net[n] \o <<x>>
  <2>1. PICK x \in Packet : x.type # "SYNC" /\ net'[n] = net[n] \o <<x>>
    BY <1>4
  <2> HIDE DEF D
  <2>2. CASE D = {}
    BY <2>2 DEF Delivered
  <2>3. CASE D # {}
    <3>1. PICK z \in D : TRUE
      BY <2>3
    <3>2. Delivered(net[n] \o <<x>>, D \cup {z})
      BY <1>1, <2>1, <3>1, DeliveredMore
    <3>3. D \cup {z} = D
      BY <3>1
    <3> QED BY <2>1, <3>2, <3>3
  <2> QED BY <2>2, <2>3
<1> QED BY <1>2, <1>3, <1>4

-----------------------------------------------------------------------------
(* The step of a node *)

(* What the invariant says of one node. *)
LEMMA AtNode ==
    ASSUME SyncAssumption, SyncInv, NEW k \in SyncNodes
    PROVE  /\ Closed(have[k]) /\ net[k] \in Seq(Packet) /\ SyncFirst(net[k])
           /\ waiting[k] \in SUBSET Request /\ asked[k] \in SUBSET Request
           /\ Want(k) \in SUBSET Request /\ failed[k] = {}
           /\ weSync[k] \in BOOLEAN /\ theySync[k] \in BOOLEAN
           /\ SyncPackets(k) /\ RequestsFor(k) /\ (~theySync[Other(k)] => ~weSync[k])
           /\ Sound(k) /\ FirstFor(k) /\ Working(k) /\ Sent(k)
BY DEF SyncInv, SyncTypes, Sound, Want

LEMMA BothNodes ==
    ASSUME SyncAssumption, NEW k \in SyncNodes, NEW o \in SyncNodes, SyncNodes = {k, o}, SyncTypes',
           Sound(k)', FirstFor(k)', Working(k)', Sent(k)',
           Sound(o)', FirstFor(o)', Working(o)', Sent(o)'
    PROVE  SyncInv'
BY DEF SyncInv

LEMMA OnDeliver ==
    ASSUME SyncTypes, NEW k \in SyncNodes, NEW o \in SyncNodes, o = Other(k), o # k,
           SyncNodes = {k, o}, net[k] # <<>>
    PROVE  /\ Deliver(k, <<>>) =>
                  net' \in [SyncNodes -> Seq(Packet)] /\ net'[k] = Tail(net[k]) /\ net'[o] = net[o]
           /\ \A x \in Packet : Deliver(k, <<x>>) =>
                  /\ net' \in [SyncNodes -> Seq(Packet)]
                  /\ net'[k] = Tail(net[k]) /\ net'[o] = net[o] \o <<x>>
<1>1. net \in [SyncNodes -> Seq(Packet)]
  BY DEF SyncTypes
<1>2. net[k] \in Seq(Packet) /\ net[o] \in Seq(Packet)
  BY <1>1
<1>3. Tail(net[k]) \in Seq(Packet)
  BY <1>2
<1>4. net[o] \o <<>> = net[o]
  BY <1>2
<1>5. ASSUME Deliver(k, <<>>)
      PROVE  net' \in [SyncNodes -> Seq(Packet)] /\ net'[k] = Tail(net[k]) /\ net'[o] = net[o]
  <2>1. net' = [net EXCEPT ![k] = Tail(@), ![o] = @ \o <<>>]
    BY <1>5, Zenon DEF Deliver
  <2>2. net'[k] = Tail(net[k]) /\ net'[o] = net[o] \o <<>>
    BY <1>1, <2>1
  <2> QED BY <1>1, <1>2, <1>3, <1>4, <2>1, <2>2
<1>6. ASSUME NEW x \in Packet, Deliver(k, <<x>>)
      PROVE  /\ net' \in [SyncNodes -> Seq(Packet)]
             /\ net'[k] = Tail(net[k]) /\ net'[o] = net[o] \o <<x>>
  <2>1. net' = [net EXCEPT ![k] = Tail(@), ![o] = @ \o <<x>>]
    BY <1>6, Zenon DEF Deliver
  <2>2. net'[k] = Tail(net[k]) /\ net'[o] = net[o] \o <<x>>
    BY <1>1, <2>1
  <2>3. net[o] \o <<x>> \in Seq(Packet)
    BY <1>2
  <2> QED BY <1>1, <1>3, <2>1, <2>2, <2>3
<1> QED BY <1>5, <1>6

LEMMA OnAdd ==
    ASSUME SyncTypes, NEW k \in SyncNodes, NEW o \in SyncNodes, o # k,
           NEW R \in SUBSET Request, Add(k, R), asked' = asked
    PROVE  /\ waiting' \in [SyncNodes -> SUBSET Request]
           /\ Want(k)' = Want(k) \cup R /\ Want(o)' = Want(o)
<1>1. /\ waiting \in [SyncNodes -> SUBSET Request] /\ failed[k] = {}
  BY DEF SyncTypes
<1>2. /\ waiting'[k] = waiting[k] \cup (R \ Pending(k)) /\ waiting'[o] = waiting[o]
      /\ waiting' \in [SyncNodes -> SUBSET Request]
  BY <1>1 DEF Add
<1> QED BY <1>1, <1>2 DEF Pending, Want

LEMMA OnAddDone ==
    ASSUME SyncTypes, NEW k \in SyncNodes, NEW o \in SyncNodes, o # k,
           NEW R \in SUBSET Request, NEW done, AddDone(k, R, done)
    PROVE  /\ waiting' \in [SyncNodes -> SUBSET Request] /\ asked' \in [SyncNodes -> SUBSET Request]
           /\ failed' \in [SyncNodes -> {{}}]
           /\ Want(k)' = (Want(k) \ {done}) \cup R /\ Want(o)' = Want(o)
<1>1. /\ waiting \in [SyncNodes -> SUBSET Request] /\ asked \in [SyncNodes -> SUBSET Request]
      /\ failed \in [SyncNodes -> {{}}]
  BY DEF SyncTypes
<1>2. /\ waiting'[k] = (waiting[k] \ {done}) \cup (R \ (Pending(k) \ {done}))
      /\ waiting'[o] = waiting[o] /\ waiting' \in [SyncNodes -> SUBSET Request]
  BY <1>1 DEF AddDone
<1>3. /\ asked'[k] = asked[k] \ {done} /\ asked'[o] = asked[o]
      /\ asked' \in [SyncNodes -> SUBSET Request]
  BY <1>1 DEF AddDone
<1>4. failed[k] = {} /\ failed' = [failed EXCEPT ![k] = @ \ {done}]
  BY <1>1 DEF AddDone
<1>5. failed' \in [SyncNodes -> {{}}]
  BY <1>1, <1>4
<1>6. Want(k)' = (Want(k) \ {done}) \cup R /\ Want(o)' = Want(o)
  BY <1>2, <1>3, <1>4 DEF Pending, Want
<1> QED BY <1>2, <1>3, <1>5, <1>6

LEMMA Requests ==
    /\ \A b \in Tree : GetChildren(b) \in Request /\ GetBlock(b) \in Request
    /\ \A b, c : /\ (GetChildren(b) = GetChildren(c)) <=> b = c
                 /\ (GetBlock(b) = GetBlock(c)) <=> b = c
                 /\ GetChildren(b) # GetBlock(c)
    /\ \A r \in Request : \E b \in Tree : r = GetChildren(b) \/ r = GetBlock(b)
BY DEF Request, GetChildren, GetBlock

-----------------------------------------------------------------------------
(* The actions *)

(* The missing block is counted: its parent's children are asked for. *)
LEMMA RecvSyncStep ==
    ASSUME SyncAssumption, SyncInv, NEW k \in SyncNodes, recv_sync_pkt(k)
    PROVE  SyncInv'
<1>1. PICK o \in SyncNodes : o = Other(k) /\ k = Other(o) /\ o # k /\ SyncNodes = {k, o}
  BY TwoNodes
<1>2. net[k] \in Seq(Packet) /\ net[k] # <<>> /\ Head(net[k]).type = "SYNC"
  BY AtNode DEF recv_sync_pkt, Incoming
<1>3. PICK p \in Packet : p = Head(net[k]) /\ p.type = "SYNC" /\ In(p, net[k])
  BY <1>2, OnTail
<1>4. SyncTypes
  BY DEF SyncInv
<1>5. p.blocks \in SUBSET (Tree \X Nat) /\ \A e \in p.blocks : e[1] \in have[k]
  <2>1. PacketFor(k, p)
    BY <1>3, AtNode DEF SyncPackets
  <2> QED BY <1>3, <2>1, PacketKinds DEF PacketFor
<1>6. PICK R : R = {GetChildren(e[1]) : e \in
                        {e \in p.blocks : num_children(have[k], e[1], {}) < e[2]}}
  OBVIOUS
<1>7. R \in SUBSET Request /\ \A b : GetChildren(b) \in R => b \in have[k]
  <2>1. \A r \in R : \E e \in p.blocks : r = GetChildren(e[1])
    BY <1>6
  <2>2. \A e \in p.blocks : e[1] \in Tree
    BY <1>5
  <2> QED BY <1>5, <2>1, <2>2, Requests
<1>8. /\ Add(k, R) /\ Deliver(k, <<>>) /\ have' = have /\ asked' = asked /\ failed' = failed
      /\ weSync' = weSync /\ theySync' = theySync /\ first' = first /\ early' = early
  BY <1>3, <1>6 DEF recv_sync_pkt
<1>9. net' \in [SyncNodes -> Seq(Packet)] /\ net'[k] = Tail(net[k]) /\ net'[o] = net[o]
  BY <1>1, <1>2, <1>4, <1>8, OnDeliver
<1>10. /\ waiting' \in [SyncNodes -> SUBSET Request]
       /\ Want(k)' = Want(k) \cup R /\ Want(o)' = Want(o)
  BY <1>1, <1>4, <1>7, <1>8, OnAdd
<1>11. SyncTypes'
  BY <1>4, <1>8, <1>9, <1>10 DEF SyncTypes
<1>12. NetStep(k, {}, {p}) /\ NetStep(o, {}, {})
  BY <1>1, <1>2, <1>3, <1>9, AtNode, NetTail, NetSame
<1>13. Sound(k)' /\ Sound(o)'
  <2>1. \A b \in Tree : /\ GetChildren(b) \in Want(k)' => GetChildren(b) \in Want(k) \/ b \in have'[k]
                        /\ GetBlock(b) \in Want(k)' => GetBlock(b) \in Want(k)
    <3>1. \A b : GetBlock(b) \notin R
      BY <1>6, Requests
    <3> QED BY <1>7, <1>8, <1>10, <3>1
  <2>2. Sound(k)'
    BY <1>1, <1>8, <1>12, <2>1, AtNode, SoundStep
  <2>3. Sound(o)'
    BY <1>1, <1>8, <1>10, <1>12, AtNode, SoundStep
  <2> QED BY <2>2, <2>3
<1>14. FirstFor(k)' /\ FirstFor(o)'
  <2>1. FirstFor(k) /\ FirstFor(o)
    BY AtNode
  <2> QED BY <1>8, <1>10, <2>1 DEF FirstFor
<1>15. Working(k)' /\ Working(o)'
  <2>1. Working(o)'
    BY <1>1, <1>8, <1>10, <1>12, AtNode, WorkingStep, StillAsking
  <2>2. ASSUME NEW b \in Missing(have[k], have[o]), Ahead(k), Asking(k, b)
        PROVE  weSync'[k] /\ GetChildren(Parent[b]) \in Want(k)'
    <3>1. PICK e \in p.blocks : e[1] = Parent[b] /\ 0 < e[2]
      BY <1>3, <2>2 DEF Asking, Tells
    <3>2. num_children(have[k], Parent[b], {}) = 0
      BY <1>1, <2>2, AtNode, CountOwn DEF Ahead
    <3>3. GetChildren(Parent[b]) \in R
      BY <1>6, <3>1, <3>2
    <3> QED BY <1>8, <1>10, <2>2, <3>3 DEF Asking
  <2>3. Working(k)'
    BY <1>1, <1>8, <1>12, <2>2, AtNode, WorkingStep
  <2> QED BY <2>1, <2>3
<1>16. Sent(k)' /\ Sent(o)'
  <2>1. Sent(k)'
    BY <1>1, <1>2, <1>8, <1>9, AtNode, SentStep
  <2>2. Sent(o)'
    BY <1>1, <1>8, <1>9, AtNode, SentStep
  <2> QED BY <2>1, <2>2
<1> QED BY <1>1, <1>11, <1>13, <1>14, <1>15, <1>16, BothNodes

(* A request goes from waiting to asked. *)
LEMMA GetTodoStep ==
    ASSUME SyncAssumption, SyncInv, NEW k \in SyncNodes, NEW r \in waiting[k], send_todo_pkt(k, r)
    PROVE  SyncInv'
<1>1. PICK o \in SyncNodes : o = Other(k) /\ k = Other(o) /\ o # k /\ SyncNodes = {k, o}
  BY TwoNodes
<1>2. SyncTypes /\ net[o] \in Seq(Packet) /\ SyncFirst(net[o]) /\ r \in Request
  BY AtNode DEF SyncInv
<1>3. PICK x : x = [type |-> r[1], block |-> r[2]]
  OBVIOUS
<1>4. x \in Packet /\ x.type # "SYNC" /\ x.type # "CHILDREN" /\ PacketFor(o, x)
  <2>1. r \in Want(k) /\ RequestsFor(k)
    BY AtNode DEF Want
  <2>2. PICK b \in Tree : r = GetChildren(b) \/ r = GetBlock(b)
    BY <1>2, Requests
  <2>3. CASE r = GetChildren(b)
    <3>1. b \in have[k]
      BY <2>1, <2>3 DEF RequestsFor
    <3>2. x = [type |-> "GET_CHILDREN", block |-> b]
      BY <1>3, <2>3 DEF GetChildren
    <3> QED BY <1>1, <3>1, <3>2, NewPackets DEF PacketFor
  <2>4. CASE r = GetBlock(b)
    <3>1. b \in have[o]
      BY <1>1, <2>1, <2>4 DEF RequestsFor
    <3>2. x = [type |-> "GET_BLOCK", block |-> b]
      BY <1>3, <2>4 DEF GetBlock
    <3> QED BY <1>1, <3>1, <3>2, NewPackets DEF PacketFor
  <2> QED BY <2>2, <2>3, <2>4
<1>5. /\ have' = have /\ failed' = failed /\ weSync' = weSync /\ theySync' = theySync
      /\ first' = first /\ early' = early
      /\ waiting' = [waiting EXCEPT ![k] = @ \ {r}] /\ asked' = [asked EXCEPT ![k] = @ \cup {r}]
      /\ net' = [net EXCEPT ![o] = Append(@, x)]
  BY <1>1, <1>3 DEF send_todo_pkt
<1>6. /\ waiting' \in [SyncNodes -> SUBSET Request] /\ asked' \in [SyncNodes -> SUBSET Request]
      /\ Want(k)' = Want(k) /\ Want(o)' = Want(o)
  BY <1>1, <1>2, <1>5 DEF SyncTypes, Want
<1>7. net' \in [SyncNodes -> Seq(Packet)] /\ net'[k] = net[k] /\ net'[o] = net[o] \o <<x>>
  <2>1. net \in [SyncNodes -> Seq(Packet)]
    BY <1>2 DEF SyncTypes
  <2>2. Append(net[o], x) = net[o] \o <<x>> /\ net[o] \o <<x>> \in Seq(Packet)
    BY <1>2, <1>4, OnAppend
  <2> QED BY <1>1, <1>5, <2>1, <2>2
<1>8. SyncTypes'
  BY <1>2, <1>5, <1>6, <1>7 DEF SyncTypes
<1>9. NetStep(k, {}, {}) /\ NetStep(o, {x}, {})
  BY <1>1, <1>2, <1>4, <1>7, AtNode, NetMore, NetSame
<1>10. Sound(k)' /\ Sound(o)'
  <2>1. Sound(k)'
    BY <1>1, <1>5, <1>6, <1>9, AtNode, SoundStep
  <2>2. PacketFor(o, x)'
    BY <1>4, <1>5 DEF PacketFor
  <2>3. Sound(o)'
    BY <1>1, <1>5, <1>6, <1>9, <2>2, AtNode, SoundStep
  <2> QED BY <2>1, <2>3
<1>11. FirstFor(k)' /\ FirstFor(o)'
  <2>1. FirstFor(k) /\ FirstFor(o)
    BY AtNode
  <2> QED BY <1>5, <1>6, <2>1 DEF FirstFor
<1>12. Working(k)' /\ Working(o)'
  <2>1. Working(k)'
    BY <1>1, <1>5, <1>6, <1>9, AtNode, WorkingStep, StillAsking
  <2>2. \A b : Tells(x, b)
    BY <1>4 DEF Tells
  <2>3. {x} \in SUBSET Packet
    BY <1>4
  <2>4. Working(o)'
    BY <1>1, <1>5, <1>6, <1>9, <2>2, <2>3, AtNode, WorkingStep, StillAsking
  <2> QED BY <2>1, <2>4
<1>13. Sent(k)' /\ Sent(o)'
  <2>1. Sent(k)'
    BY <1>1, <1>5, <1>7, AtNode, SentStep
  <2>2. Sent(o)'
    BY <1>1, <1>2, <1>4, <1>5, <1>7, AtNode, SentStep
  <2> QED BY <2>1, <2>2
<1> QED BY <1>1, <1>8, <1>10, <1>11, <1>12, <1>13, BothNodes

(* An answer with the children of b, in any order. *)
Listed(K, s) == [i \in DOMAIN s |-> <<s[i], num_children(K, s[i], {})>>]

AreChildren(S, K, b) == S = {c \in K \ {Genesis} : Parent[c] = b}

(* What a list l of the children S of b in K is. *)
ListOf(l, S, K, b) ==
    /\ l \in Seq(Tree \X Nat)
    /\ \A i \in 1 .. Len(l) : l[i][1] \in K \ {Genesis} /\ Parent[l[i][1]] = b
    /\ S # {} => Len(l) # 0

LEMMA ChildrenList ==
    ASSUME SyncAssumption, NEW K \in SUBSET Tree, NEW b \in Tree,
           NEW S, AreChildren(S, K, b),
           NEW s \in Orders(S), NEW l, l = Listed(K, s)
    PROVE  ListOf(l, S, K, b)
<1> DEFINE n == Cardinality(S)
<1>0. \A c : c \in S <=> c \in K \ {Genesis} /\ Parent[c] = b
  BY DEF AreChildren
<1>1. IsFiniteSet(S) /\ n \in Nat /\ (n = 0 <=> S = {})
  <2>1. IsFiniteSet(S)
    BY <1>0, FS_Subset DEF SyncAssumption
  <2> QED BY <2>1, FS_CardinalityType, FS_EmptySet
<1>2. s \in [1 .. n -> S]
  BY DEF Orders
<1>3. \A c \in S : c \in K \ {Genesis} /\ c \in Tree /\ Parent[c] = b
  BY <1>0
<1> HIDE DEF n
<1>4. \A i \in 1 .. n : s[i] \in S /\ l[i] = <<s[i], num_children(K, s[i], {})>>
  BY <1>2 DEF Listed
<1>5. \A i \in 1 .. n : l[i] \in Tree \X Nat
  <2> SUFFICES ASSUME NEW i \in 1 .. n PROVE l[i] \in Tree \X Nat
    OBVIOUS
  <2>1. s[i] \in Tree
    BY <1>3, <1>4
  <2>2. num_children(K, s[i], {}) \in Nat
    BY <2>1, CountIs
  <2> QED BY <1>4, <2>1, <2>2
<1>6. l = [i \in 1 .. n |-> l[i]]
  BY <1>2 DEF Listed
<1>7. l \in Seq(Tree \X Nat) /\ Len(l) = n
  <2>1. l \in [1 .. n -> Tree \X Nat]
    BY <1>5, <1>6
  <2> QED BY <1>1, <2>1
<1>8. S # {} => Len(l) # 0
  BY <1>1, <1>7
<1>9. ASSUME NEW i \in 1 .. Len(l) PROVE l[i][1] \in K \ {Genesis} /\ Parent[l[i][1]] = b
  <2>1. s[i] \in S /\ l[i] = <<s[i], num_children(K, s[i], {})>>
    BY <1>4, <1>7
  <2>2. l[i][1] = s[i]
    BY <2>1
  <2> QED BY <1>3, <2>1, <2>2
<1> QED BY <1>7, <1>8, <1>9 DEF ListOf

(* The other one lists the missing block, its only child there, first. *)
LEMMA RecvGetChildrenStep ==
    ASSUME SyncAssumption, SyncInv, NEW k \in SyncNodes, recv_get_children(k)
    PROVE  SyncInv'
<1>1. PICK o \in SyncNodes : o = Other(k) /\ k = Other(o) /\ o # k /\ SyncNodes = {k, o}
  BY TwoNodes
<1>2. /\ SyncTypes /\ net[o] \in Seq(Packet) /\ SyncFirst(net[o]) /\ Closed(have[k])
      /\ net[k] \in Seq(Packet) /\ net[k] # <<>> /\ Head(net[k]).type = "GET_CHILDREN"
  BY AtNode DEF recv_get_children, Incoming, SyncInv
<1>3. PICK p \in Packet : p = Head(net[k]) /\ p.type = "GET_CHILDREN" /\ In(p, net[k])
  BY <1>2, OnTail
<1>4. p.block \in Tree /\ p.block \in have[o]
  <2>1. PacketFor(k, p)
    BY <1>3, AtNode DEF SyncPackets
  <2> QED BY <1>1, <1>3, <2>1, PacketKinds DEF PacketFor
<1>5. /\ have' = have /\ waiting' = waiting /\ asked' = asked /\ failed' = failed
      /\ weSync' = weSync /\ theySync' = theySync /\ first' = first /\ early' = early
  BY DEF recv_get_children
<1> DEFINE S == {c \in have[k] \ {Genesis} : Parent[c] = p.block}
<1>6. PICK s \in Orders(S) :
          Deliver(k, <<[type |-> "CHILDREN", block |-> p.block,
              list |-> [i \in DOMAIN s |-> <<s[i], num_children(have[k], s[i], {})>>]]>>)
  BY <1>3 DEF recv_get_children
<1>7. PICK l : l = Listed(have[k], s)
  OBVIOUS
<1>8. PICK x : x = [type |-> "CHILDREN", block |-> p.block, list |-> l]
  OBVIOUS
<1>9. /\ l \in Seq(Tree \X Nat)
      /\ \A i \in 1 .. Len(l) : l[i][1] \in have[k] \ {Genesis} /\ Parent[l[i][1]] = p.block
      /\ S # {} => Len(l) # 0
  <2>1. have[k] \in SUBSET Tree
    BY <1>2 DEF Closed
  <2>2. PICK K : K = have[k]
    OBVIOUS
  <2>3. PICK b \in Tree : b = p.block
    BY <1>4
  <2>4. AreChildren(S, K, b) /\ l = Listed(K, s) /\ K \in SUBSET Tree
    BY <1>7, <2>1, <2>2, <2>3 DEF AreChildren
  <2> HIDE DEF S
  <2>5. ListOf(l, S, K, b)
    BY <2>4, ChildrenList
  <2> QED BY <2>2, <2>3, <2>5 DEF ListOf
<1>10. /\ x \in Packet /\ x.type = "CHILDREN" /\ x.block = p.block /\ x.list = l
       /\ PacketFor(o, x)
  BY <1>1, <1>4, <1>8, <1>9, NewPackets DEF PacketFor
<1>11. net' \in [SyncNodes -> Seq(Packet)] /\ net'[k] = Tail(net[k]) /\ net'[o] = net[o] \o <<x>>
  <2>1. Deliver(k, <<x>>)
    BY <1>6, <1>7, <1>8 DEF Listed
  <2> QED BY <1>1, <1>2, <1>10, <2>1, OnDeliver
<1>12. SyncTypes'
  BY <1>2, <1>5, <1>11 DEF SyncTypes
<1>13. NetStep(k, {}, {p}) /\ NetStep(o, {x}, {})
  <2>1. NetStep(k, {}, {p})
    BY <1>2, <1>3, <1>11, AtNode, NetTail
  <2>2. NetStep(o, {x}, {})
    BY <1>2, <1>10, <1>11, NetMore
  <2> QED BY <2>1, <2>2
<1>14. Want(k)' = Want(k) /\ Want(o)' = Want(o)
  BY <1>5 DEF Want
<1>15. Sound(k)' /\ Sound(o)'
  <2>1. Sound(k)'
    BY <1>1, <1>5, <1>13, <1>14, AtNode, SoundStep
  <2>2. PacketFor(o, x)'
    BY <1>5, <1>10 DEF PacketFor
  <2>3. Sound(o)'
    BY <1>1, <1>5, <1>13, <1>14, <2>2, AtNode, SoundStep
  <2> QED BY <2>1, <2>3
<1>16. FirstFor(k)' /\ FirstFor(o)'
  <2>1. FirstFor(k) /\ FirstFor(o)
    BY AtNode
  <2> QED BY <1>5, <1>14, <2>1 DEF FirstFor
<1>17. Working(k)' /\ Working(o)'
  <2>1. Working(k)'
    <3>1. \A q \in {p} : q.type # "SYNC"
      BY <1>3
    <3> QED BY <1>1, <1>5, <1>13, <1>14, <3>1, AtNode, WorkingStep, StillAsking
  <2>2. ASSUME NEW b \in Missing(have[o], have[k]), Ahead(o) PROVE Tells(x, b)
    <3> SUFFICES ASSUME p.block = Parent[b] PROVE l # <<>> /\ l[1][1] = b
      BY <1>10 DEF Tells
    <3>1. b \in have[k] \ {Genesis} /\ have[k] \in SUBSET Tree /\ Linear(have[k])
      BY <1>1, <1>2, <2>2, AtNode DEF Missing, Closed, Ahead
    <3>2. Len(l) \in Nat /\ Len(l) # 0 /\ l # <<>>
      <4>1. b \in S
        BY <3>1
      <4> HIDE DEF S
      <4> QED BY <1>9, <4>1
    <3>3. 1 \in 1 .. Len(l)
      BY <1>9, <3>2
    <3>4. l[1][1] \in have[k] \ {Genesis} /\ Parent[l[1][1]] = Parent[b]
      BY <1>9, <3>3
    <3> QED BY <3>1, <3>2, <3>4, OneChild
  <2>3. {x} \in SUBSET Packet
    BY <1>10
  <2>4. Working(o)'
    BY <1>1, <1>5, <1>13, <1>14, <2>2, <2>3, AtNode, WorkingStep, StillAsking
  <2> QED BY <2>1, <2>4
<1>18. Sent(k)' /\ Sent(o)'
  <2>1. Sent(k)'
    BY <1>1, <1>2, <1>5, <1>11, AtNode, SentStep
  <2>2. Sent(o)'
    BY <1>1, <1>2, <1>5, <1>10, <1>11, AtNode, SentStep
  <2> QED BY <2>1, <2>2
<1> QED BY <1>1, <1>12, <1>15, <1>16, <1>17, <1>18, BothNodes

(* The missing block is asked for. *)
LEMMA RecvChildrenStep ==
    ASSUME SyncAssumption, SyncInv, NEW k \in SyncNodes, recv_children(k)
    PROVE  SyncInv'
<1>1. PICK o \in SyncNodes : o = Other(k) /\ k = Other(o) /\ o # k /\ SyncNodes = {k, o}
  BY TwoNodes
<1>2. /\ SyncTypes /\ Closed(have[k]) /\ Closed(have[o]) /\ first \in [SyncNodes -> SUBSET Tree]
      /\ net[k] \in Seq(Packet) /\ net[k] # <<>> /\ Head(net[k]).type = "CHILDREN"
  BY AtNode DEF recv_children, Incoming, SyncInv, SyncTypes
<1>3. PICK p \in Packet : p = Head(net[k]) /\ p.type = "CHILDREN" /\ In(p, net[k])
  BY <1>2, OnTail
<1>4. PICK c : c = p.list[1][1]
  OBVIOUS
<1>5. /\ p.block \in have[k] /\ p.list \in Seq(Tree \X Nat)
      /\ p.list # <<>> => c \in have[o] /\ c \in Tree /\ Parent[c] = p.block
  <2>1. PacketFor(k, p)
    BY <1>3, AtNode DEF SyncPackets
  <2>2. p.block \in have[k] /\ p.list \in Seq(Tree \X Nat)
    BY <1>3, <2>1, PacketKinds DEF PacketFor
  <2>3. ASSUME p.list # <<>> PROVE c \in have[o] /\ Parent[c] = p.block
    <3>1. 1 \in 1 .. Len(p.list)
      BY <2>2, <2>3
    <3> QED BY <1>1, <1>3, <1>4, <2>1, <3>1 DEF PacketFor
  <2> QED BY <1>2, <2>2, <2>3 DEF Closed
<1>6. PICK R : R = IF p.list = <<>> THEN {}
                   ELSE IF c \notin have[k] THEN {GetBlock(c)}
                   ELSE IF \E i \in DOMAIN p.list : num_children(have[k], c, {}) < p.list[i][2]
                        THEN {GetChildren(c)} ELSE {}
  OBVIOUS
<1>7. /\ R \in SUBSET Request
      /\ \A b : GetChildren(b) \in R => b \in have[k]
      /\ \A b : GetBlock(b) \in R => b \in have[o]
      /\ p.list # <<>> /\ c \notin have[k] => GetBlock(c) \in R
  BY <1>5, <1>6, Requests
<1>8. /\ AddDone(k, R, GetChildren(p.block)) /\ Deliver(k, <<>>) /\ have' = have
      /\ weSync' = weSync /\ theySync' = theySync /\ early' = early
      /\ first' = [first EXCEPT ![k] = @ \cup IF p.list = <<>> THEN {} ELSE {c}]
  BY <1>3, <1>4, <1>6 DEF recv_children
<1>9. net' \in [SyncNodes -> Seq(Packet)] /\ net'[k] = Tail(net[k]) /\ net'[o] = net[o]
  BY <1>1, <1>2, <1>8, OnDeliver
<1>10. /\ waiting' \in [SyncNodes -> SUBSET Request] /\ asked' \in [SyncNodes -> SUBSET Request]
       /\ failed' \in [SyncNodes -> {{}}]
       /\ Want(k)' = (Want(k) \ {GetChildren(p.block)}) \cup R /\ Want(o)' = Want(o)
  BY <1>1, <1>2, <1>7, <1>8, OnAddDone
<1>11. /\ first' \in [SyncNodes -> SUBSET Tree] /\ first'[o] = first[o]
       /\ first'[k] = first[k] \cup IF p.list = <<>> THEN {} ELSE {c}
  BY <1>1, <1>2, <1>5, <1>8
<1>12. SyncTypes'
  BY <1>2, <1>8, <1>9, <1>10, <1>11 DEF SyncTypes
<1>13. NetStep(k, {}, {p}) /\ NetStep(o, {}, {})
  BY <1>1, <1>2, <1>3, <1>9, AtNode, NetTail, NetSame
<1>14. Sound(k)' /\ Sound(o)'
  <2>1. \A b \in Tree : /\ GetChildren(b) \in Want(k)' => GetChildren(b) \in Want(k) \/ b \in have'[k]
                        /\ GetBlock(b) \in Want(k)' => GetBlock(b) \in Want(k) \/ b \in have'[o]
    BY <1>7, <1>8, <1>10
  <2>2. Sound(k)'
    BY <1>1, <1>8, <1>13, <2>1, AtNode, SoundStep
  <2>3. Sound(o)'
    BY <1>1, <1>8, <1>10, <1>13, AtNode, SoundStep
  <2> QED BY <2>2, <2>3
<1>15. FirstFor(k)' /\ FirstFor(o)'
  <2>1. FirstFor(k) /\ FirstFor(o)
    BY AtNode
  <2>2. \A b : GetBlock(b) \in Want(k) => GetBlock(b) \in Want(k)'
    BY <1>10, Requests
  <2>3. ASSUME NEW b \in first'[k]
        PROVE  Parent[b] \in have'[k] /\ (b \in have'[k] \/ GetBlock(b) \in Want(k)')
    <3>1. CASE b \in first[k]
      BY <1>8, <2>1, <2>2, <3>1 DEF FirstFor
    <3>2. CASE b = c /\ p.list # <<>>
      BY <1>5, <1>7, <1>8, <1>10, <3>2
    <3> QED BY <1>11, <3>1, <3>2
  <2>4. FirstFor(o)'
    BY <1>8, <1>10, <1>11, <2>1 DEF FirstFor
  <2> QED BY <2>3, <2>4 DEF FirstFor
<1>16. Working(k)' /\ Working(o)'
  <2>1. Working(o)'
    BY <1>1, <1>8, <1>10, <1>13, AtNode, WorkingStep, StillAsking
  <2>2. ASSUME NEW b \in Missing(have[k], have[o]), Ahead(k), Asking(k, b)
        PROVE  /\ weSync'[k]
               /\ \/ \E q \in Packet : In(q, net'[k]) /\ q.type = "SYNC"
                  \/ GetChildren(Parent[b]) \in Want(k)' \/ GetBlock(b) \in Want(k)'
    <3>1. CASE p.block = Parent[b]
      <4>1. p.list # <<>> /\ c = b
        BY <1>3, <1>4, <2>2, <3>1 DEF Asking, Tells
      <4>2. GetBlock(b) \in R
        BY <1>7, <4>1 DEF Missing
      <4> QED BY <1>8, <1>10, <2>2, <4>2 DEF Asking
    <3>2. CASE p.block # Parent[b]
      <4>1. CASE \E q \in Packet : In(q, net[k]) /\ q.type = "SYNC"
        BY <1>3, <1>8, <1>13, <2>2, <4>1 DEF Asking, NetStep
      <4>2. CASE GetChildren(Parent[b]) \in Want(k) \/ GetBlock(b) \in Want(k)
        BY <1>8, <1>10, <2>2, <3>2, <4>2, Requests DEF Asking
      <4> QED BY <2>2, <4>1, <4>2 DEF Asking
    <3> QED BY <3>1, <3>2
  <2>3. Working(k)'
    BY <1>1, <1>8, <1>13, <2>2, AtNode, WorkingStep
  <2> QED BY <2>1, <2>3
<1>17. Sent(k)' /\ Sent(o)'
  <2>1. Sent(k)'
    BY <1>1, <1>2, <1>8, <1>9, AtNode, SentStep
  <2>2. Sent(o)'
    BY <1>1, <1>8, <1>9, AtNode, SentStep
  <2> QED BY <2>1, <2>2
<1> QED BY <1>1, <1>12, <1>14, <1>15, <1>16, <1>17, BothNodes

(* It is sent. *)
LEMMA RecvGetBlockStep ==
    ASSUME SyncAssumption, SyncInv, NEW k \in SyncNodes, recv_get_block(k)
    PROVE  SyncInv'
<1>1. PICK o \in SyncNodes : o = Other(k) /\ k = Other(o) /\ o # k /\ SyncNodes = {k, o}
  BY TwoNodes
<1>2. /\ SyncTypes /\ net[o] \in Seq(Packet) /\ SyncFirst(net[o])
      /\ net[k] \in Seq(Packet) /\ net[k] # <<>> /\ Head(net[k]).type = "GET_BLOCK"
  BY AtNode DEF recv_get_block, Incoming, SyncInv
<1>3. PICK p \in Packet : p = Head(net[k]) /\ p.type = "GET_BLOCK" /\ In(p, net[k])
  BY <1>2, OnTail
<1>4. p.block \in Tree /\ p.block \in have[k]
  <2>1. PacketFor(k, p)
    BY <1>3, AtNode DEF SyncPackets
  <2> QED BY <1>1, <1>3, <2>1, PacketKinds DEF PacketFor
<1>5. PICK x : x = Blk(p.block)
  OBVIOUS
<1>6. x \in Packet /\ x.type = "BLOCK" /\ PacketFor(o, x)
  BY <1>1, <1>4, <1>5, NewPackets DEF PacketFor, Blk
<1>7. /\ have' = have /\ waiting' = waiting /\ asked' = asked /\ failed' = failed
      /\ weSync' = weSync /\ theySync' = theySync /\ first' = first /\ early' = early
      /\ Deliver(k, <<x>>)
  BY <1>3, <1>5 DEF recv_get_block, Blk
<1>8. net' \in [SyncNodes -> Seq(Packet)] /\ net'[k] = Tail(net[k]) /\ net'[o] = net[o] \o <<x>>
  BY <1>1, <1>2, <1>6, <1>7, OnDeliver
<1>9. SyncTypes'
  BY <1>2, <1>7, <1>8 DEF SyncTypes
<1>10. NetStep(k, {}, {p}) /\ NetStep(o, {x}, {})
  <2>1. NetStep(k, {}, {p})
    BY <1>2, <1>3, <1>8, AtNode, NetTail
  <2>2. NetStep(o, {x}, {})
    BY <1>2, <1>6, <1>8, NetMore
  <2> QED BY <2>1, <2>2
<1>11. Want(k)' = Want(k) /\ Want(o)' = Want(o)
  BY <1>7 DEF Want
<1>12. Sound(k)' /\ Sound(o)'
  <2>1. Sound(k)'
    BY <1>1, <1>7, <1>10, <1>11, AtNode, SoundStep
  <2>2. PacketFor(o, x)'
    BY <1>6, <1>7 DEF PacketFor
  <2>3. Sound(o)'
    BY <1>1, <1>7, <1>10, <1>11, <2>2, AtNode, SoundStep
  <2> QED BY <2>1, <2>3
<1>13. FirstFor(k)' /\ FirstFor(o)'
  <2>1. FirstFor(k) /\ FirstFor(o)
    BY AtNode
  <2> QED BY <1>7, <1>11, <2>1 DEF FirstFor
<1>14. Working(k)' /\ Working(o)'
  <2>1. Working(k)'
    <3>1. \A q \in {p} : q.type # "SYNC"
      BY <1>3
    <3> QED BY <1>1, <1>7, <1>10, <1>11, <3>1, AtNode, WorkingStep, StillAsking
  <2>2. \A b : Tells(x, b)
    BY <1>6 DEF Tells
  <2>3. {x} \in SUBSET Packet
    BY <1>6
  <2>4. Working(o)'
    BY <1>1, <1>7, <1>10, <1>11, <2>2, <2>3, AtNode, WorkingStep, StillAsking
  <2> QED BY <2>1, <2>4
<1>15. Sent(k)' /\ Sent(o)'
  <2>1. Sent(k)'
    BY <1>1, <1>2, <1>7, <1>8, AtNode, SentStep
  <2>2. Sent(o)'
    BY <1>1, <1>2, <1>6, <1>7, <1>8, AtNode, SentStep
  <2> QED BY <2>1, <2>2
<1> QED BY <1>1, <1>9, <1>12, <1>13, <1>14, <1>15, BothNodes

(* Who stops syncing has nothing unread or asked for, so lacks nothing. *)
LEMMA FinishSyncingStep ==
    ASSUME SyncAssumption, SyncInv, NEW k \in SyncNodes, finish_syncing(k)
    PROVE  SyncInv'
<1>1. PICK o \in SyncNodes : o = Other(k) /\ k = Other(o) /\ o # k /\ SyncNodes = {k, o}
  BY TwoNodes
<1>2. SyncTypes /\ net[k] \in Seq(Packet) /\ net[o] \in Seq(Packet) /\ SyncFirst(net[o])
  BY AtNode DEF SyncInv
<1>3. PICK x : x = [type |-> "SET_FILTER"]
  OBVIOUS
<1>4. x \in Packet /\ x.type = "SET_FILTER"
  BY <1>3, NewPackets
<1>5. /\ have' = have /\ waiting' = waiting /\ asked' = asked /\ failed' = failed
      /\ theySync' = theySync /\ first' = first /\ early' = early
      /\ weSync' = [weSync EXCEPT ![k] = FALSE] /\ net' = [net EXCEPT ![o] = Append(@, x)]
      /\ Want(k) = {} /\ \A i \in DOMAIN net[k] : net[k][i].type # "SYNC"
  BY <1>1, <1>3 DEF finish_syncing, Want
<1>6. weSync' \in [SyncNodes -> BOOLEAN] /\ weSync'[k] = FALSE /\ weSync'[o] = weSync[o]
  BY <1>1, <1>2, <1>5 DEF SyncTypes
<1>7. net' \in [SyncNodes -> Seq(Packet)] /\ net'[k] = net[k] /\ net'[o] = net[o] \o <<x>>
  <2>1. net \in [SyncNodes -> Seq(Packet)]
    BY <1>2 DEF SyncTypes
  <2>2. Append(net[o], x) = net[o] \o <<x>> /\ net[o] \o <<x>> \in Seq(Packet)
    BY <1>2, <1>4, OnAppend
  <2> QED BY <1>1, <1>5, <2>1, <2>2
<1>8. SyncTypes'
  BY <1>2, <1>5, <1>6, <1>7 DEF SyncTypes
<1>9. NetStep(k, {}, {}) /\ NetStep(o, {x}, {})
  BY <1>1, <1>2, <1>4, <1>7, AtNode, NetMore, NetSame
<1>10. Want(k)' = Want(k) /\ Want(o)' = Want(o)
  BY <1>5 DEF Want
<1>11. Sound(k)' /\ Sound(o)'
  <2>1. Sound(k)'
    BY <1>1, <1>5, <1>6, <1>9, <1>10, AtNode, SoundStep
  <2>2. PacketFor(o, x)'
    BY <1>1, <1>4, <1>6 DEF PacketFor
  <2>3. Sound(o)'
    BY <1>1, <1>5, <1>6, <1>9, <1>10, <2>2, AtNode, SoundStep
  <2> QED BY <2>1, <2>3
<1>12. FirstFor(k)' /\ FirstFor(o)'
  <2>1. FirstFor(k) /\ FirstFor(o)
    BY AtNode
  <2> QED BY <1>5, <1>10, <2>1 DEF FirstFor
<1>13. Working(k)' /\ Working(o)'
  <2>1. \A b : ~Asking(k, b)
    <3> SUFFICES ASSUME NEW b, Asking(k, b) PROVE FALSE
      OBVIOUS
    <3>1. PICK q \in Packet : In(q, net[k]) /\ q.type = "SYNC"
      BY <1>5 DEF Asking
    <3> QED BY <1>2, <1>5, <3>1 DEF In
  <2>2. Working(k)'
    BY <1>1, <1>5, <1>9, <2>1, AtNode, WorkingStep
  <2>3. \A b : Tells(x, b)
    BY <1>4 DEF Tells
  <2>4. {x} \in SUBSET Packet
    BY <1>4
  <2>5. ASSUME NEW b, Asking(o, b)
        PROVE  /\ weSync'[o]
               /\ \/ \E p \in Packet : In(p, net'[o]) /\ p.type = "SYNC"
                  \/ GetChildren(Parent[b]) \in Want(o)' \/ GetBlock(b) \in Want(o)'
    BY <1>6, <1>9, <1>10, <2>5, StillAsking
  <2>6. Working(o)'
    BY <1>1, <1>5, <1>9, <2>3, <2>4, <2>5, AtNode, WorkingStep
  <2> QED BY <2>2, <2>6
<1>14. Sent(k)' /\ Sent(o)'
  <2>1. Sent(k)'
    BY <1>1, <1>5, <1>7, AtNode, SentStep
  <2>2. Sent(o)'
    BY <1>1, <1>2, <1>4, <1>5, <1>7, AtNode, SentStep
  <2> QED BY <2>1, <2>2
<1> QED BY <1>1, <1>8, <1>11, <1>12, <1>13, <1>14, BothNodes

(* From here on blocks are sent, and so far none is missing. *)
LEMMA RecvSetFilterStep ==
    ASSUME SyncAssumption, SyncInv, NEW k \in SyncNodes, recv_filter(k)
    PROVE  SyncInv'
<1>1. PICK o \in SyncNodes : o = Other(k) /\ k = Other(o) /\ o # k /\ SyncNodes = {k, o}
  BY TwoNodes
<1>2. /\ SyncTypes /\ Closed(have[k]) /\ Closed(have[o])
      /\ net[k] \in Seq(Packet) /\ net[k] # <<>> /\ Head(net[k]).type = "SET_FILTER"
  BY AtNode DEF recv_filter, Incoming, SyncInv
<1>3. PICK p \in Packet : p = Head(net[k]) /\ p.type = "SET_FILTER" /\ In(p, net[k])
  BY <1>2, OnTail
<1>4. ~weSync[o]
  <2>1. PacketFor(k, p)
    BY <1>3, AtNode DEF SyncPackets
  <2> QED BY <1>1, <1>3, <2>1 DEF PacketFor
<1>5. /\ have' = have /\ waiting' = waiting /\ asked' = asked /\ failed' = failed
      /\ weSync' = weSync /\ first' = first /\ early' = early
      /\ theySync' = [theySync EXCEPT ![k] = FALSE] /\ Deliver(k, <<>>)
  BY DEF recv_filter
<1>6. /\ theySync' \in [SyncNodes -> BOOLEAN] /\ theySync'[k] = FALSE
      /\ theySync'[o] = theySync[o]
  BY <1>1, <1>2, <1>5 DEF SyncTypes
<1>7. net' \in [SyncNodes -> Seq(Packet)] /\ net'[k] = Tail(net[k]) /\ net'[o] = net[o]
  BY <1>1, <1>2, <1>5, OnDeliver
<1>8. SyncTypes'
  BY <1>2, <1>5, <1>6, <1>7 DEF SyncTypes
<1>9. NetStep(k, {}, {p}) /\ NetStep(o, {}, {})
  BY <1>1, <1>2, <1>3, <1>7, AtNode, NetTail, NetSame
<1>10. Want(k)' = Want(k) /\ Want(o)' = Want(o)
  BY <1>5 DEF Want
<1>11. Sound(k)' /\ Sound(o)'
  <2>1. Sound(k)'
    BY <1>1, <1>5, <1>6, <1>9, <1>10, AtNode, SoundStep
  <2>2. Sound(o)'
    BY <1>1, <1>4, <1>5, <1>6, <1>9, <1>10, AtNode, SoundStep
  <2> QED BY <2>1, <2>2
<1>12. FirstFor(k)' /\ FirstFor(o)'
  <2>1. FirstFor(k) /\ FirstFor(o)
    BY AtNode
  <2> QED BY <1>5, <1>10, <2>1 DEF FirstFor
<1>13. Working(k)' /\ Working(o)'
  <2>1. Working(k)'
    <3>1. \A q \in {p} : q.type # "SYNC"
      BY <1>3
    <3> QED BY <1>1, <1>5, <1>6, <1>9, <1>10, <3>1, AtNode, WorkingStep, StillAsking
  <2>2. Working(o)'
    BY <1>1, <1>6 DEF Working
  <2> QED BY <2>1, <2>2
<1>14. Sent(k)' /\ Sent(o)'
  <2>1. Sent(k)'
    BY <1>1, <1>2, <1>3, <1>5, <1>6, <1>7, AtNode, SentStep
  <2>2. CASE ~theySync[k]
    <3>1. theySync'[Other(o)] = theySync[Other(o)]
      <4>1. theySync[k] = FALSE
        BY <2>2, AtNode, Zenon
      <4> QED BY <1>1, <1>6, <4>1
    <3> QED BY <1>1, <1>5, <1>7, <2>1, <3>1, AtNode, SentStep
  <2>3. CASE theySync[k]
    <3>1. ASSUME Ahead(o) PROVE have[k] \ have[o] = {}
      <4>1. \A b \in Missing(have[o], have[k]) : Asking(o, b)
        BY <1>1, <2>3, <3>1, AtNode DEF Working
      <4>2. Missing(have[o], have[k]) = {}
        BY <1>4, <4>1 DEF Asking
      <4>3. have[o] = have[k]
        BY <1>1, <1>2, <3>1, <4>2, MissingExists DEF Ahead
      <4> QED BY <4>3
    <3>2. Sent(o)'
      <4>1. Ahead(o)' => Ahead(o)
        BY <1>5 DEF Ahead
      <4>2. Ahead(o)' => Delivered(net'[o], have'[k] \ have'[o])
        BY <1>5, <3>1, <4>1 DEF Delivered
      <4> QED BY <1>1, <4>2 DEF Sent
    <3> QED BY <2>1, <3>2
  <2> QED BY <1>2, <2>2, <2>3 DEF SyncTypes
<1> QED BY <1>1, <1>8, <1>11, <1>12, <1>13, <1>14, BothNodes

(* The first block on its way is the next one its receiver lacks. *)
LEMMA FirstIsNext ==
    ASSUME NEW s \in Seq(Packet), s # <<>>, NEW D, Delivered(s, D), NEW y \in D, Head(s) = Blk(y)
    PROVE  Parent[y] \notin D
<1>1. Len(s) \in Nat /\ 1 \in 1 .. Len(s) /\ s[1] = Head(s)
  OBVIOUS
<1>2. Parent[y] \in D => \E i \in 1 .. 1 - 1 : s[i] = Blk(Parent[y])
  BY <1>1 DEF Delivered
<1> QED BY <1>2

(* A block that was known, or whose predecessor is not. *)
LEMMA RecvOldBlockStep ==
    ASSUME SyncAssumption, SyncInv, NEW k \in SyncNodes, recv_block_from_peer(k),
           Head(net[k]).block \in have[k] \/ Parent[Head(net[k]).block] \notin have[k]
    PROVE  SyncInv'
<1>1. PICK o \in SyncNodes : o = Other(k) /\ k = Other(o) /\ o # k /\ SyncNodes = {k, o}
  BY TwoNodes
<1>2. /\ SyncTypes /\ Closed(have[k]) /\ Closed(have[o]) /\ have \in [SyncNodes -> SUBSET Tree]
      /\ net[k] \in Seq(Packet) /\ net[k] # <<>> /\ Head(net[k]).type = "BLOCK"
  BY AtNode DEF recv_block_from_peer, Incoming, SyncInv, SyncTypes
<1>3. PICK p \in Packet : p = Head(net[k]) /\ p.type = "BLOCK" /\ In(p, net[k])
  BY <1>2, OnTail
<1>4. PICK b : b = p.block
  OBVIOUS
<1>5. b \in have[o] /\ b \in Tree /\ Parent[b] \in have[o] /\ p = Blk(b)
  <2>1. PacketFor(k, p)
    BY <1>3, AtNode DEF SyncPackets
  <2> QED BY <1>1, <1>2, <1>3, <1>4, <2>1, PacketKinds DEF PacketFor, Closed
<1>6. b \in have[k] \/ Parent[b] \notin have[k]
  BY <1>3, <1>4
<1>7. /\ have' = [have EXCEPT ![k] = @] /\ weSync' = weSync /\ theySync' = theySync
      /\ first' = first /\ early' = early /\ Deliver(k, <<>>)
      /\ \E R \in {{}, {GetBlock(Parent[b])}} : AddDone(k, R, GetBlock(b))
  BY <1>3, <1>4, <1>6 DEF recv_block_from_peer
<1>8. PICK R \in {{}, {GetBlock(Parent[b])}} : AddDone(k, R, GetBlock(b))
  BY <1>7
<1>9. have' = have
  BY <1>2, <1>7
<1>10. /\ R \in SUBSET Request /\ (\A c : GetChildren(c) \notin R)
       /\ \A c : GetBlock(c) \in R => c \in have[o]
  <2>1. Parent[b] \in Tree
    BY <1>5, TreeFacts
  <2> QED BY <1>5, <1>8, <2>1, Requests
<1>11. net' \in [SyncNodes -> Seq(Packet)] /\ net'[k] = Tail(net[k]) /\ net'[o] = net[o]
  BY <1>1, <1>2, <1>7, OnDeliver
<1>12. /\ waiting' \in [SyncNodes -> SUBSET Request] /\ asked' \in [SyncNodes -> SUBSET Request]
       /\ failed' \in [SyncNodes -> {{}}]
       /\ Want(k)' = (Want(k) \ {GetBlock(b)}) \cup R /\ Want(o)' = Want(o)
  BY <1>1, <1>2, <1>8, <1>10, OnAddDone
<1>13. SyncTypes'
  BY <1>2, <1>7, <1>9, <1>11, <1>12 DEF SyncTypes
<1>14. NetStep(k, {}, {p}) /\ NetStep(o, {}, {})
  BY <1>1, <1>2, <1>3, <1>11, AtNode, NetTail, NetSame
<1>15. Sound(k)' /\ Sound(o)'
  <2>1. \A c \in Tree : /\ GetChildren(c) \in Want(k)' => GetChildren(c) \in Want(k)
                        /\ GetBlock(c) \in Want(k)' => GetBlock(c) \in Want(k) \/ c \in have'[o]
    BY <1>9, <1>10, <1>12
  <2>2. Sound(k)'
    BY <1>1, <1>7, <1>9, <1>14, <2>1, AtNode, SoundStep
  <2>3. Sound(o)'
    BY <1>1, <1>7, <1>9, <1>12, <1>14, AtNode, SoundStep
  <2> QED BY <2>2, <2>3
<1>16. FirstFor(k)' /\ FirstFor(o)'
  <2>1. FirstFor(k) /\ FirstFor(o)
    BY AtNode
  <2>2. \A c : GetBlock(c) \in Want(k) /\ c # b => GetBlock(c) \in Want(k)'
    BY <1>12, Requests
  <2>3. FirstFor(k)'
    BY <1>6, <1>7, <1>9, <2>1, <2>2 DEF FirstFor
  <2>4. FirstFor(o)'
    BY <1>7, <1>9, <1>12, <2>1 DEF FirstFor
  <2> QED BY <2>3, <2>4
<1>17. Working(k)' /\ Working(o)'
  <2>1. Working(o)'
    BY <1>1, <1>7, <1>9, <1>12, <1>14, AtNode, WorkingStep, StillAsking
  <2>2. ASSUME NEW c \in Missing(have[k], have[o]), Ahead(k), Asking(k, c)
        PROVE  /\ weSync'[k]
               /\ \/ \E q \in Packet : In(q, net'[k]) /\ q.type = "SYNC"
                  \/ GetChildren(Parent[c]) \in Want(k)' \/ GetBlock(c) \in Want(k)'
    <3>1. c # b
      BY <1>6, <2>2 DEF Missing
    <3>2. CASE \E q \in Packet : In(q, net[k]) /\ q.type = "SYNC"
      BY <1>3, <1>7, <1>14, <2>2, <3>2 DEF Asking, NetStep
    <3>3. CASE GetChildren(Parent[c]) \in Want(k) \/ GetBlock(c) \in Want(k)
      BY <1>7, <1>12, <2>2, <3>1, <3>3, Requests DEF Asking
    <3> QED BY <2>2, <3>2, <3>3 DEF Asking
  <2>3. Working(k)'
    BY <1>1, <1>7, <1>9, <1>14, <2>2, AtNode, WorkingStep
  <2> QED BY <2>1, <2>3
<1>18. Sent(k)' /\ Sent(o)'
  <2>1. ASSUME Ahead(k), ~theySync[o] PROVE b \in have[k]
    <3>1. Delivered(net[k], have[o] \ have[k])
      BY <1>1, <2>1, AtNode DEF Sent
    <3>2. ASSUME b \notin have[k] PROVE FALSE
      <4>1. b \in have[o] \ have[k] /\ Parent[b] \in have[o] \ have[k]
        BY <1>5, <1>6, <3>2
      <4> QED BY <1>2, <1>3, <1>5, <3>1, <4>1, FirstIsNext
    <3> QED BY <3>2
  <2>2. Sent(k)'
    BY <1>1, <1>2, <1>3, <1>4, <1>7, <1>9, <1>11, <2>1, AtNode, SentStep
  <2>3. Sent(o)'
    BY <1>1, <1>7, <1>9, <1>11, AtNode, SentStep
  <2> QED BY <2>2, <2>3
<1> QED BY <1>1, <1>13, <1>15, <1>16, <1>17, <1>18, BothNodes

-----------------------------------------------------------------------------
(* A node that gets a block *)

(* What k knows grows by b. *)
Grows(k, b) ==
    /\ b \in Tree /\ b \notin have[k] /\ Parent[b] \in have[k]
    /\ have' = [have EXCEPT ![k] = @ \cup {b}]

LEMMA OnGrows ==
    ASSUME SyncAssumption, SyncInv, NEW k \in SyncNodes, NEW o \in SyncNodes, o # k,
           SyncNodes = {k, o}, NEW b, Grows(k, b)
    PROVE  /\ have' \in [SyncNodes -> SUBSET Tree]
           /\ have'[k] = have[k] \cup {b} /\ have'[o] = have[o]
           /\ Closed(have'[k]) /\ Closed(have'[o]) /\ Closed(have[k]) /\ Closed(have[o])
<1>1. have \in [SyncNodes -> SUBSET Tree]
  BY DEF SyncInv, SyncTypes
<1>2. /\ have' \in [SyncNodes -> SUBSET Tree]
      /\ have'[k] = have[k] \cup {b} /\ have'[o] = have[o]
  BY <1>1 DEF Grows
<1>3. Closed(have[k]) /\ Closed(have[o])
  BY AtNode
<1>4. Closed(have[k] \cup {b})
  BY <1>3 DEF Grows, Closed
<1>5. Closed(have'[k]) /\ Closed(have'[o])
  BY <1>2, <1>3, <1>4
<1> QED BY <1>2, <1>3, <1>5

(* The other one had it already, or is ahead no more. *)
LEMMA OtherCaughtUp ==
    ASSUME SyncAssumption, SyncInv, NEW k \in SyncNodes, NEW o \in SyncNodes, o # k,
           SyncNodes = {k, o}, k = Other(o), NEW b, Grows(k, b), Ahead(o)', b \in have[o]
    PROVE  have'[o] = have'[k]
<1>1. /\ have'[k] = have[k] \cup {b} /\ have'[o] = have[o] /\ Closed(have[k]) /\ Closed(have[o])
  BY OnGrows
<1>2. Linear(have[k] \cup {b}) /\ have[o] \subseteq have[k] \cup {b}
  <2>1. Linear(have'[k]) /\ have'[o] \subseteq have'[k]
    BY DEF Ahead, Linear
  <2> QED BY <1>1, <2>1
<1>3. b \in Tree /\ ~(have[o] \subseteq have[k])
  BY DEF Grows
<1>4. have[o] = have[k] \cup {b}
  BY <1>1, <1>2, <1>3, CaughtUp
<1> QED BY <1>1, <1>4

LEMMA SameBlocks ==
    ASSUME NEW n \in SyncNodes, Ahead(n)' => have'[n] = have'[Other(n)]
    PROVE  Working(n)' /\ Sent(n)'
<1>1. Working(n)'
  BY DEF Working, Missing
<1>2. Ahead(n)' => Delivered(net'[n], have'[Other(n)] \ have'[n])
  BY DEF Delivered
<1>3. Sent(n)'
  BY <1>2 DEF Sent
<1> QED BY <1>1, <1>3

(* The missing block arrives; its children are asked for while syncing. *)
LEMMA RecvNewBlockStep ==
    ASSUME SyncAssumption, SyncInv, NEW k \in SyncNodes, recv_block_from_peer(k),
           Head(net[k]).block \notin have[k], Parent[Head(net[k]).block] \in have[k]
    PROVE  SyncInv'
<1>1. PICK o \in SyncNodes : o = Other(k) /\ k = Other(o) /\ o # k /\ SyncNodes = {k, o}
  BY TwoNodes
<1>2. /\ SyncTypes /\ net[k] \in Seq(Packet) /\ net[k] # <<>> /\ Head(net[k]).type = "BLOCK"
      /\ weSync[k] \in BOOLEAN
  BY AtNode DEF recv_block_from_peer, Incoming, SyncInv
<1>3. PICK p \in Packet : p = Head(net[k]) /\ p.type = "BLOCK" /\ In(p, net[k])
  BY <1>2, OnTail
<1>4. PICK b : b = p.block
  OBVIOUS
<1>5. b \in have[o] /\ b \in Tree /\ p = Blk(b) /\ b \notin have[k] /\ Parent[b] \in have[k]
  <2>1. PacketFor(k, p)
    BY <1>3, AtNode DEF SyncPackets
  <2> QED BY <1>1, <1>3, <1>4, <2>1, PacketKinds DEF PacketFor
<1>6. PICK R : R = IF weSync[k] THEN {GetChildren(b)} ELSE {}
  OBVIOUS
<1>7. /\ have' = [have EXCEPT ![k] = @ \cup {b}] /\ weSync' = weSync /\ theySync' = theySync
      /\ first' = first /\ early' = early /\ Deliver(k, <<>>) /\ AddDone(k, R, GetBlock(b))
  BY <1>3, <1>4, <1>5, <1>6 DEF recv_block_from_peer
<1>8. /\ Grows(k, b) /\ have' \in [SyncNodes -> SUBSET Tree]
      /\ have'[k] = have[k] \cup {b} /\ have'[o] = have[o]
      /\ Closed(have'[k]) /\ Closed(have'[o]) /\ Closed(have[k]) /\ Closed(have[o])
  <2>1. Grows(k, b)
    BY <1>5, <1>7 DEF Grows
  <2> QED BY <1>1, <2>1, OnGrows
<1>9. R \in SUBSET Request /\ (\A c : GetBlock(c) \notin R) /\ (\A c : GetChildren(c) \in R => c = b)
  BY <1>5, <1>6, Requests
<1>10. net' \in [SyncNodes -> Seq(Packet)] /\ net'[k] = Tail(net[k]) /\ net'[o] = net[o]
  BY <1>1, <1>2, <1>7, OnDeliver
<1>11. /\ waiting' \in [SyncNodes -> SUBSET Request] /\ asked' \in [SyncNodes -> SUBSET Request]
       /\ failed' \in [SyncNodes -> {{}}]
       /\ Want(k)' = (Want(k) \ {GetBlock(b)}) \cup R /\ Want(o)' = Want(o)
  BY <1>1, <1>2, <1>7, <1>9, OnAddDone
<1>12. SyncTypes'
  <2>1. \A n \in SyncNodes : Closed(have'[n])
    BY <1>1, <1>8
  <2>2. \A n \in SyncNodes : Closed(have[n])'
    BY <2>1 DEF Closed
  <2> QED BY <1>2, <1>7, <1>8, <1>10, <1>11, <2>2 DEF SyncTypes
<1>13. NetStep(k, {}, {p}) /\ NetStep(o, {}, {}) /\ \A q : In(q, net'[k]) => q.type # "SYNC"
  BY <1>1, <1>2, <1>3, <1>10, AtNode, NetTail, NetSame
<1>14. Sound(k)' /\ Sound(o)'
  <2>1. \A c \in Tree : /\ GetChildren(c) \in Want(k)' => GetChildren(c) \in Want(k) \/ c \in have'[k]
                        /\ GetBlock(c) \in Want(k)' => GetBlock(c) \in Want(k)
    BY <1>8, <1>9, <1>11
  <2>2. have[k] \subseteq have'[k] /\ have[o] \subseteq have'[o]
    BY <1>8
  <2>3. Sound(k)'
    BY <1>1, <1>7, <1>13, <2>1, <2>2, AtNode, SoundStep
  <2>4. Sound(o)'
    BY <1>1, <1>7, <1>11, <1>13, <2>2, AtNode, SoundStep
  <2> QED BY <2>3, <2>4
<1>15. FirstFor(k)' /\ FirstFor(o)'
  <2>1. FirstFor(k) /\ FirstFor(o)
    BY AtNode
  <2>2. \A c : GetBlock(c) \in Want(k) /\ c # b => GetBlock(c) \in Want(k)'
    BY <1>11, Requests
  <2>3. FirstFor(k)'
    BY <1>7, <1>8, <2>1, <2>2 DEF FirstFor
  <2>4. FirstFor(o)'
    BY <1>7, <1>8, <1>11, <2>1 DEF FirstFor
  <2> QED BY <2>3, <2>4
<1>16. Working(o)' /\ Sent(o)'
  <2>1. Ahead(o)' => have'[o] = have'[Other(o)]
    BY <1>1, <1>5, <1>8, OtherCaughtUp
  <2> QED BY <2>1, SameBlocks
<1>17. Ahead(k)' => Ahead(k) /\ b \in Missing(have[k], have[o])
  <2> SUFFICES ASSUME Ahead(k)' PROVE Ahead(k) /\ b \in Missing(have[k], have[o])
    OBVIOUS
  <2>1. ~early' /\ Linear(have'[o]) /\ have'[k] \subseteq have'[o]
    BY <1>1 DEF Ahead, Linear
  <2> QED BY <1>1, <1>5, <1>7, <1>8, <2>1 DEF Ahead, Missing
<1>18. Working(k)'
  <2> SUFFICES ASSUME Ahead(k)', theySync'[o], NEW c \in Missing(have'[k], have'[o])
               PROVE  Asking(k, c)'
    BY <1>1 DEF Working
  <2>1. Asking(k, b)
    BY <1>1, <1>7, <1>17, AtNode DEF Working
  <2>2. Parent[c] = b
    <3>1. c \in have[o] /\ c \notin have[k] /\ c # b /\ Parent[c] \in have[k] \cup {b}
      BY <1>8 DEF Missing
    <3>2. ASSUME Parent[c] \in have[k] PROVE FALSE
      <4>1. c \in Missing(have[k], have[o])
        BY <3>1, <3>2 DEF Missing
      <4>2. c = b
        BY <1>1, <1>8, <1>17, <4>1, OneMissing DEF Ahead
      <4> QED BY <3>1, <4>2
    <3> QED BY <3>1, <3>2
  <2>3. weSync'[k] /\ GetChildren(b) \in Want(k)'
    BY <1>6, <1>7, <1>11, <2>1 DEF Asking
  <2>4. ASSUME NEW q \in Packet, In(q, net'[k]) PROVE Tells(q, c)
    <3>1. q.type # "SYNC" /\ In(q, net[k])
      BY <1>13, <2>4 DEF NetStep
    <3>2. PacketFor(k, q)
      BY <3>1, AtNode DEF SyncPackets
    <3>3. q.type = "CHILDREN" => q.block \in have[k]
      BY <3>2 DEF PacketFor
    <3> QED BY <1>5, <2>2, <3>1, <3>3 DEF Tells
  <2> QED BY <2>2, <2>3, <2>4 DEF Asking, Tells
<1>19. Sent(k)'
  <2> SUFFICES ASSUME Ahead(k)', ~theySync'[o]
               PROVE  Delivered(net'[k], have'[o] \ have'[k])
    BY <1>1 DEF Sent, Delivered
  <2> DEFINE D == have[o] \ have[k]
             E == D \ {b}
  <2>1. Delivered(net[k], D)
    BY <1>1, <1>7, <1>17, AtNode DEF Sent
  <2>2. \A y \in E : Head(net[k]) # Blk(y)
    BY <1>3, <1>5 DEF Blk
  <2>3. E \in SUBSET D
    OBVIOUS
  <2>4. have'[o] \ have'[k] = E
    BY <1>8
  <2> HIDE DEF D, E
  <2>5. Delivered(Tail(net[k]), E)
    BY <1>2, <2>1, <2>2, <2>3, DeliveredTail
  <2> QED BY <1>10, <2>4, <2>5
<1> QED BY <1>1, <1>12, <1>14, <1>15, <1>16, <1>18, <1>19, BothNodes

(* A block from elsewhere: known to the other, or sent after the rest. *)
LEMMA SendBlockStep ==
    ASSUME SyncAssumption, SyncInv, NEW k \in SyncNodes, NEW b \in Tree, send_block_to_peers(k, b)
    PROVE  SyncInv'
<1>1. PICK o \in SyncNodes : o = Other(k) /\ k = Other(o) /\ o # k /\ SyncNodes = {k, o}
  BY TwoNodes
<1>2. /\ SyncTypes /\ net[k] \in Seq(Packet) /\ net[o] \in Seq(Packet)
      /\ SyncFirst(net[k]) /\ SyncFirst(net[o])
      /\ net \in [SyncNodes -> Seq(Packet)]
  BY AtNode DEF SyncInv, SyncTypes
<1>3. PICK x : x = Blk(b)
  OBVIOUS
<1>4. x \in Packet /\ x.type = "BLOCK" /\ x.block = b
  BY <1>3, NewPackets DEF Blk
<1>5. /\ b \notin have[k] /\ Parent[b] \in have[k] /\ have' = [have EXCEPT ![k] = @ \cup {b}]
      /\ early' = (early \/ weSync[k] \/ theySync[k])
      /\ net' = IF theySync[k] THEN net ELSE [net EXCEPT ![o] = Append(@, x)]
      /\ waiting' = waiting /\ asked' = asked /\ failed' = failed
      /\ weSync' = weSync /\ theySync' = theySync /\ first' = first
  BY <1>1, <1>3 DEF send_block_to_peers, Blk
<1>6. /\ Grows(k, b) /\ have' \in [SyncNodes -> SUBSET Tree]
      /\ have'[k] = have[k] \cup {b} /\ have'[o] = have[o]
      /\ Closed(have'[k]) /\ Closed(have'[o]) /\ Closed(have[k]) /\ Closed(have[o])
  <2>1. Grows(k, b)
    BY <1>5 DEF Grows
  <2> QED BY <1>1, <2>1, OnGrows
<1>7. /\ net' \in [SyncNodes -> Seq(Packet)] /\ net'[k] = net[k]
      /\ theySync[k] => net'[o] = net[o]
      /\ ~theySync[k] => net'[o] = net[o] \o <<x>>
  <2>1. Append(net[o], x) = net[o] \o <<x>> /\ net[o] \o <<x>> \in Seq(Packet)
    BY <1>2, <1>4, OnAppend
  <2> QED BY <1>1, <1>2, <1>5, <2>1
<1>8. Want(k)' = Want(k) /\ Want(o)' = Want(o)
  BY <1>5 DEF Want
<1>9. SyncTypes'
  <2>1. \A n \in SyncNodes : Closed(have'[n])
    BY <1>1, <1>6
  <2>2. \A n \in SyncNodes : Closed(have[n])'
    BY <2>1 DEF Closed
  <2> QED BY <1>2, <1>5, <1>6, <1>7, <2>2 DEF SyncTypes
<1>10. NetStep(k, {}, {}) /\ NetStep(o, {x}, {})
  <2>1. NetStep(k, {}, {})
    BY <1>2, <1>7, NetSame
  <2>2. CASE theySync[k]
    BY <1>2, <1>7, <2>2 DEF NetStep
  <2>3. CASE ~theySync[k]
    <3>1. NetStep(o, {x}, {})
      BY <1>2, <1>4, <1>7, <2>3, NetMore
    <3> QED BY <2>1, <3>1
  <2> QED BY <2>1, <2>2, <2>3
<1>11. Sound(k)' /\ Sound(o)'
  <2>1. have[k] \subseteq have'[k] /\ have[o] \subseteq have'[o]
    BY <1>6
  <2>2. Sound(k)'
    BY <1>1, <1>5, <1>8, <1>10, <2>1, AtNode, SoundStep
  <2>3. PacketFor(o, x)'
    BY <1>1, <1>4, <1>6 DEF PacketFor
  <2>4. Sound(o)'
    BY <1>1, <1>5, <1>8, <1>10, <2>1, <2>3, AtNode, SoundStep
  <2> QED BY <2>2, <2>4
<1>12. FirstFor(k)' /\ FirstFor(o)'
  <2>1. FirstFor(k) /\ FirstFor(o)
    BY AtNode
  <2> QED BY <1>5, <1>6, <1>8, <2>1 DEF FirstFor
<1>13. ASSUME Ahead(k)' PROVE Ahead(k) /\ ~weSync[k] /\ ~theySync[k] /\ b \in Missing(have[k], have[o])
  <2>1. ~early' /\ Linear(have'[o]) /\ have'[k] \subseteq have'[o]
    BY <1>1, <1>13 DEF Ahead, Linear
  <2> QED BY <1>1, <1>5, <1>6, <2>1 DEF Ahead, Missing
<1>14. Working(k)'
  <2> SUFFICES ASSUME Ahead(k)', theySync'[o] PROVE FALSE
    BY <1>1 DEF Working
  <2>1. Asking(k, b)
    BY <1>1, <1>5, <1>13, AtNode DEF Working
  <2> QED BY <1>13, <2>1 DEF Asking
<1>15. Sent(k)'
  <2> SUFFICES ASSUME Ahead(k)', ~theySync'[o]
               PROVE  Delivered(net'[k], have'[o] \ have'[k])
    BY <1>1 DEF Sent, Delivered
  <2>1. Delivered(net[k], have[o] \ have[k])
    BY <1>1, <1>5, <1>13, AtNode DEF Sent
  <2>2. have'[o] \ have'[k] \subseteq have[o] \ have[k]
    BY <1>6
  <2> QED BY <1>7, <2>1, <2>2 DEF Delivered
<1>16. CASE b \in have[o]
  <2>1. Working(o)' /\ Sent(o)'
    <3>1. Ahead(o)' => have'[o] = have'[Other(o)]
      BY <1>1, <1>6, <1>16, OtherCaughtUp
    <3> QED BY <3>1, SameBlocks
  <2> QED BY <1>1, <1>9, <1>11, <1>12, <1>14, <1>15, <2>1, BothNodes
<1>17. CASE b \notin have[o]
  <2>1. ASSUME Ahead(o)' PROVE Ahead(o) /\ ~theySync[k]
    <3>1. ~early' /\ Linear(have'[k]) /\ have'[o] \subseteq have'[k]
      BY <1>1, <2>1 DEF Ahead, Linear
    <3>2. Linear(have[k])
      BY <1>6, <3>1 DEF Linear
    <3> QED BY <1>1, <1>5, <1>6, <1>17, <3>1, <3>2 DEF Ahead
  <2>2. Working(o)'
    BY <1>1, <1>5, <2>1 DEF Working
  <2>3. Sent(o)'
    <3> SUFFICES ASSUME Ahead(o)'
                 PROVE  Delivered(net'[o], have'[k] \ have'[o])
      BY <1>1 DEF Sent, Delivered
    <3> DEFINE D == have[k] \ have[o]
    <3>1. Delivered(net[o], D)
      BY <1>1, <2>1, AtNode DEF Sent
    <3>2. \A q \in Packet : In(q, net[o]) /\ q.type = "BLOCK" => q.block # b /\ Parent[q.block] # b
      <4> SUFFICES ASSUME NEW q \in Packet, In(q, net[o]), q.type = "BLOCK"
                   PROVE  q.block # b /\ Parent[q.block] # b
        OBVIOUS
      <4>1. PacketFor(o, q)
        BY AtNode DEF SyncPackets
      <4>2. q.block \in have[k] /\ Parent[q.block] \in have[k]
        BY <1>1, <1>6, <4>1 DEF PacketFor, Closed
      <4> QED BY <1>5, <4>2
    <3>3. Parent[b] # b
      BY <1>5
    <3>4. have'[k] \ have'[o] = D \cup {b}
      BY <1>6, <1>17
    <3> HIDE DEF D
    <3>5. Delivered(net[o] \o <<x>>, D \cup {b})
      BY <1>2, <1>3, <1>4, <3>1, <3>2, <3>3, DeliveredMore
    <3> QED BY <1>7, <2>1, <3>4, <3>5
  <2> QED BY <1>1, <1>9, <1>11, <1>12, <1>14, <1>15, <2>2, <2>3, BothNodes
<1> QED BY <1>16, <1>17

(* The SYNC packet of a node that knows K, to one that knows O and has the *)
(* head H.                                                                 *)
LEMMA SyncPacket ==
    ASSUME SyncAssumption, NEW K, Closed(K), NEW O, Closed(O), NEW H \in O, NEW p,
           p = sync_pkt(K, mutual_block_search(K, H))
    PROVE  /\ p \in Packet /\ p.type = "SYNC" /\ \A e \in p.blocks : e[1] \in O
           /\ H \in K => <<H, num_children(K, H, {})>> \in p.blocks
<1> DEFINE m == mutual_block_search(K, H)
           T(b) == num_children(K, b, TowardsBlock(b, m))
<1>1. m \in K /\ m \in O /\ (H \in K => m = H)
  BY MutualFacts
<1>2. p = [type |-> "SYNC", blocks |-> {<<b, T(b)>> : b \in Path(m)}]
  BY DEF sync_pkt
<1>3. K \in SUBSET Tree /\ O \in SUBSET Tree
  BY DEF Closed
<1> HIDE DEF m
<1>4. m \in Tree /\ Depth[m] \in Nat /\ \A d \in 0 .. Depth[m] : AtDepth(m, d) \in O
  BY <1>1, <1>3, DepthSteps, ClosedAbove
<1>5. Path(m) \subseteq O /\ m \in Path(m)
  <2>1. AtDepth(m, Depth[m]) = m /\ Depth[m] \in 0 .. Depth[m]
    BY <1>4, AtDepthFacts
  <2> QED BY <1>4, <2>1 DEF Path
<1>6. \A b \in Tree : T(b) \in Nat
  BY <1>3, CountIs
<1>7. T(m) = num_children(K, m, {})
  BY DEF TowardsBlock
<1> HIDE DEF T
<1>8. {<<b, T(b)>> : b \in Path(m)} \in SUBSET (Tree \X Nat)
  BY <1>3, <1>5, <1>6
<1>9. p \in Packet /\ p.type = "SYNC" /\ p.blocks = {<<b, T(b)>> : b \in Path(m)}
  BY <1>2, <1>8, NewPackets
<1>10. \A e \in p.blocks : e[1] \in O
  BY <1>5, <1>9
<1>11. <<m, num_children(K, m, {})>> \in p.blocks
  BY <1>5, <1>7, <1>9
<1> QED BY <1>1, <1>9, <1>10, <1>11

LEMMA SyncInitInv ==
    ASSUME SyncAssumption, SyncInit PROVE SyncInv
<1>1. PICK H \in [SyncNodes -> Tree] :
          /\ \A n \in SyncNodes : H[n] \in Deepest(have[n])
          /\ net = [n \in SyncNodes |->
                       <<sync_pkt(have[Other(n)], mutual_block_search(have[Other(n)], H[n]))>>]
  BY DEF SyncInit
<1>2. /\ have \in [SyncNodes -> SUBSET Tree] /\ \A n \in SyncNodes : Closed(have[n])
      /\ waiting = [n \in SyncNodes |-> {}] /\ asked = waiting /\ failed = waiting
      /\ first = waiting /\ weSync = [n \in SyncNodes |-> TRUE] /\ theySync = weSync
  BY DEF SyncInit, Closed
<1>3. \A n \in SyncNodes : /\ H[n] \in have[n] /\ \A c \in have[n] : Depth[c] <= Depth[H[n]]
                           /\ Other(n) \in SyncNodes /\ Closed(have[Other(n)])
  BY <1>1, <1>2, TwoNodes DEF Deepest
<1>4. \A n \in SyncNodes : /\ waiting[n] = {} /\ asked[n] = {} /\ first[n] = {}
                           /\ Want(n) = {} /\ weSync[n] /\ theySync[n]
  BY <1>2 DEF Want
<1>5. ASSUME NEW n \in SyncNodes, NEW K, K = have[Other(n)], NEW p,
             p = sync_pkt(K, mutual_block_search(K, H[n]))
      PROVE  /\ net[n] = <<p>> /\ p \in Packet /\ p.type = "SYNC"
             /\ \A e \in p.blocks : e[1] \in have[n]
             /\ H[n] \in K => <<H[n], num_children(K, H[n], {})>> \in p.blocks
  <2>1. net[n] = <<p>>
    BY <1>1, <1>5
  <2>2. Closed(K) /\ Closed(have[n]) /\ H[n] \in have[n]
    BY <1>2, <1>3, <1>5
  <2> QED BY <1>5, <2>1, <2>2, SyncPacket
<1>6. ASSUME NEW n \in SyncNodes
      PROVE  net[n] \in Seq(Packet) /\ Sound(n) /\ FirstFor(n) /\ Working(n) /\ Sent(n)
  <2>1. PICK K : K = have[Other(n)]
    OBVIOUS
  <2>2. PICK p : p = sync_pkt(K, mutual_block_search(K, H[n]))
    OBVIOUS
  <2>3. /\ net[n] = <<p>> /\ p \in Packet /\ p.type = "SYNC"
        /\ \A e \in p.blocks : e[1] \in have[n]
        /\ H[n] \in K => <<H[n], num_children(K, H[n], {})>> \in p.blocks
    BY <1>5, <2>1, <2>2
  <2>4. net[n] \in Seq(Packet) /\ Len(net[n]) = 1 /\ net[n][1] = p
    BY <2>3
  <2>5. \A q : In(q, net[n]) <=> q = p
    BY <2>4 DEF In
  <2>6. SyncFirst(net[n])
    BY <2>4 DEF SyncFirst
  <2>7. PacketFor(n, p)
    BY <2>3 DEF PacketFor
  <2>8. Sound(n)
    BY <1>3, <1>4, <2>5, <2>6, <2>7 DEF Sound, SyncPackets, RequestsFor
  <2>9. FirstFor(n)
    BY <1>4 DEF FirstFor
  <2>10. Sent(n)
    BY <1>3, <1>4 DEF Sent
  <2>11. Working(n)
    <3> SUFFICES ASSUME Ahead(n), NEW b \in Missing(have[n], K) PROVE Asking(n, b)
      BY <2>1 DEF Working
    <3>1. Closed(have[n]) /\ Closed(K) /\ Linear(K) /\ have[n] \subseteq K /\ H[n] \in have[n]
      BY <1>2, <1>3, <2>1 DEF Ahead
    <3> DEFINE t == Parent[b]
    <3>2. /\ b \in Tree /\ b # Genesis /\ t \in have[n] /\ Depth[t] \in Nat
          /\ Depth[H[n]] \in Nat /\ Depth[H[n]] <= Depth[t]
      BY <3>1, NothingBelow
    <3>3. Depth[t] <= Depth[H[n]] /\ t \in K /\ H[n] \in K /\ H[n] \in Tree /\ b \in K /\ K \in SUBSET Tree
      BY <1>3, <3>1, <3>2 DEF Closed, Missing
    <3> HIDE DEF t
    <3>4. Depth[t] = Depth[H[n]]
      BY <3>2, <3>3
    <3>5. AtDepth(H[n], Depth[t]) = t /\ AtDepth(H[n], Depth[H[n]]) = H[n]
      BY <3>1, <3>3, AtDepthFacts DEF Linear
    <3>6. H[n] = t
      BY <3>4, <3>5
    <3>7. PICK c : c = num_children(K, t, {})
      OBVIOUS
    <3>8. c \in Nat \ {0}
      BY <3>2, <3>3, <3>7, CountOther DEF t
    <3>9. <<t, c>> \in p.blocks
      BY <2>3, <3>3, <3>6, <3>7
    <3>10. Tells(p, b)
      BY <2>3, <3>8, <3>9 DEF Tells, t
    <3> QED BY <1>4, <2>3, <2>5, <3>10 DEF Asking
  <2> QED BY <2>4, <2>8, <2>9, <2>10, <2>11
<1>7. SyncTypes
  <2>1. net \in [SyncNodes -> Seq(Packet)]
    BY <1>1, <1>6
  <2> QED BY <1>2, <2>1 DEF SyncTypes
<1> QED BY <1>6, <1>7 DEF SyncInv

LEMMA SyncStep ==
    ASSUME SyncAssumption, SyncInv, [SyncNext]_syncVars PROVE SyncInv'
<1>1. CASE UNCHANGED syncVars
  <2>1. /\ have' = have /\ waiting' = waiting /\ asked' = asked /\ failed' = failed /\ net' = net
        /\ weSync' = weSync /\ theySync' = theySync /\ first' = first /\ early' = early
    BY <1>1 DEF syncVars
  <2>2. SyncTypes /\ \A n \in SyncNodes : Sound(n) /\ FirstFor(n) /\ Working(n) /\ Sent(n)
    BY DEF SyncInv
  <2>3. SyncTypes'
    BY <2>1, <2>2 DEF SyncTypes, Closed
  <2>4. ASSUME NEW n \in SyncNodes PROVE Sound(n)' /\ FirstFor(n)' /\ Working(n)' /\ Sent(n)'
    <3>1. Sound(n)'
      BY <2>1, <2>2 DEF Sound, SyncPackets, PacketFor, SyncFirst, RequestsFor, Want, In
    <3>2. FirstFor(n)'
      BY <2>1, <2>2 DEF FirstFor, Want
    <3>3. Working(n)'
      BY <2>1, <2>2 DEF Working, Asking, Tells, Ahead, Linear, Missing, Want, In
    <3>4. Sent(n)'
      BY <2>1, <2>2 DEF Sent, Delivered, Ahead, Linear, In
    <3> QED BY <3>1, <3>2, <3>3, <3>4
  <2> QED BY <2>3, <2>4 DEF SyncInv
<1>2. CASE SyncNext
  <2>1. PICK n \in SyncNodes :
            \/ recv_sync_pkt(n) \/ recv_get_children(n) \/ recv_children(n)
            \/ recv_get_block(n) \/ recv_block_from_peer(n)
            \/ recv_filter(n) \/ finish_syncing(n)
            \/ \E r \in waiting[n] : send_todo_pkt(n, r)
            \/ \E b \in Tree : send_block_to_peers(n, b)
    BY <1>2 DEF SyncNext
  <2>2. recv_block_from_peer(n) => SyncInv'
    BY RecvOldBlockStep, RecvNewBlockStep
  <2> QED BY <2>1, <2>2, RecvSyncStep, RecvGetChildrenStep, RecvChildrenStep, RecvGetBlockStep,
             RecvSetFilterStep, FinishSyncingStep, GetTodoStep, SendBlockStep
<1> QED BY <1>1, <1>2

LEMMA SyncInvEnough ==
    ASSUME SyncAssumption, SyncInv PROVE ChainsSync
<1>1. ASSUME Quiet, NEW n \in SyncNodes, ~early, IsChain(have[Other(n)]),
             have[n] \subseteq have[Other(n)]
      PROVE  have[n] = have[Other(n)]
  <2>1. PICK o \in SyncNodes : o = Other(n)
    BY TwoNodes
  <2>2. Closed(have[n]) /\ Closed(have[o]) /\ Working(n) /\ Sent(n)
    BY AtNode
  <2>3. Ahead(n)
    BY <1>1, <2>1, <2>2, ChainLinear DEF Ahead, Closed
  <2>4. net[n] = <<>> /\ Want(n) = {} /\ \A p : ~In(p, net[n])
    BY <1>1 DEF Quiet, Want, In
  <2>5. CASE theySync[o]
    <3>1. Missing(have[n], have[o]) = {}
      BY <2>1, <2>2, <2>3, <2>4, <2>5 DEF Working, Asking
    <3> QED BY <1>1, <2>1, <2>2, <3>1, MissingExists
  <2>6. CASE ~theySync[o]
    <3>1. have[o] \ have[n] = {}
      BY <2>1, <2>2, <2>3, <2>4, <2>6 DEF Sent, Delivered
    <3> QED BY <1>1, <2>1, <3>1
  <2> QED BY <2>5, <2>6
<1>2. WholeChainSynced
  BY <1>1 DEF WholeChainSynced
<1>3. FirstChildrenFound
  <2> SUFFICES ASSUME Quiet, NEW n \in SyncNodes, NEW b \in first[n] PROVE b \in have[n]
    BY DEF FirstChildrenFound
  <2>1. FirstFor(n) /\ Want(n) = {}
    BY AtNode DEF Quiet, Want
  <2> QED BY <2>1 DEF FirstFor
<1> QED BY <1>2, <1>3 DEF ChainsSync

(* When nothing is on its way, a node whose blocks are all on its peer's   *)
(* chain has the whole chain, if neither had got a block from elsewhere    *)
(* too early (recv_sync_pkt(), recv_children(), recv_block(),              *)
(* send_block_to_peers()), and it has the first block of every CHILDREN    *)
(* packet it got: for any tree, any MaxCount and any steps of a welcome.   *)
THEOREM SyncCorrect == ASSUME SyncAssumption PROVE SyncSpec => []ChainsSync
<1>1. SyncInit => SyncInv
  BY SyncInitInv
<1>2. SyncInv /\ [SyncNext]_syncVars => SyncInv'
  BY SyncStep
<1>3. SyncInv => ChainsSync
  BY SyncInvEnough
<1> QED BY <1>1, <1>2, <1>3, PTL DEF SyncSpec

(* A node that has stopped syncing lacks nothing of its peer's chain but   *)
(* what is in a BLOCK packet on its way: finish_syncing() is never early,  *)
(* and from then on send_block_to_peers() leaves nothing out.              *)
NothingLeftOut ==
    \A n \in SyncNodes :
        (~weSync[n] /\ ~early /\ IsChain(have[Other(n)]) /\ have[n] \subseteq have[Other(n)])
        => \A b \in have[Other(n)] \ have[n] : In(Blk(b), net[n])

THEOREM StopsInTime == ASSUME SyncAssumption PROVE SyncSpec => []NothingLeftOut
<1>1. SyncInit => SyncInv
  BY SyncInitInv
<1>2. SyncInv /\ [SyncNext]_syncVars => SyncInv'
  BY SyncStep
<1>3. ASSUME SyncInv PROVE NothingLeftOut
  <2> SUFFICES ASSUME NEW n \in SyncNodes, ~weSync[n], ~early, IsChain(have[Other(n)]),
                      have[n] \subseteq have[Other(n)], NEW b \in have[Other(n)] \ have[n]
               PROVE  In(Blk(b), net[n])
    BY DEF NothingLeftOut
  <2>1. Closed(have[n]) /\ Closed(have[Other(n)]) /\ Working(n) /\ Sent(n)
    BY <1>3, AtNode, TwoNodes
  <2>2. Ahead(n)
    BY <2>1, ChainLinear DEF Ahead, Closed
  <2>3. CASE theySync[Other(n)]
    <3>1. Missing(have[n], have[Other(n)]) = {}
      BY <2>1, <2>2, <2>3 DEF Working, Asking
    <3> QED BY <2>1, <3>1, MissingExists
  <2>4. CASE ~theySync[Other(n)]
    BY <2>1, <2>2, <2>4 DEF Sent, Delivered
  <2> QED BY <2>3, <2>4
<1> QED BY <1>1, <1>2, <1>3, PTL DEF SyncSpec

(* The types, and that every set of known blocks holds the ancestors of    *)
(* its members; a request never ends as failed.                            *)
THEOREM SyncTypeCorrect == ASSUME SyncAssumption PROVE SyncSpec => []SyncTypes
<1>1. SyncInit => SyncInv
  BY SyncInitInv
<1>2. SyncInv /\ [SyncNext]_syncVars => SyncInv'
  BY SyncStep
<1>3. SyncInv => SyncTypes
  BY DEF SyncInv
<1> QED BY <1>1, <1>2, <1>3, PTL DEF SyncSpec
=============================================================================
