--------------------------- MODULE LibraryProofs ---------------------------
(***************************************************************************)
(* What a node rests on, proved for every size: the accounts of a shard    *)
(* (Shard), packets cut out of a stream and the lengths in them (Wire),    *)
(* the table of the event loop (Io), proofs that a transaction is in a     *)
(* shard (Proof), and what a block says of earlier ones (Consensus).       *)
(***************************************************************************)
EXTENDS Consensus, Proof, Shard, Wire, Io, FiniteSetTheorems, SequenceTheorems,
        WellFoundedInduction, TLAPS

-----------------------------------------------------------------------------
(* Shard *)

HashSlots == {i \in Slots : slot[i] = "hash"}

ShardType ==
    /\ leaves \in Seq(ShardTxs)
    /\ slot \in [DOMAIN leaves -> {"null", "hash", "tx"}]
    /\ txcount \in Nat /\ hashcount \in Nat
    /\ proof \subseteq Slots /\ resolving \subseteq Slots
    /\ blamed \in BOOLEAN /\ aborted \in BOOLEAN

ShardInv == ShardType /\ ShardAccounts

(* The slots are 1 .. Len(leaves), and there are finitely many. *)
LEMMA SlotsFinite ==
    ASSUME ShardType
    PROVE  /\ Slots = 1 .. Len(leaves) /\ Len(leaves) \in Nat
           /\ IsFiniteSet(Slots) /\ IsFiniteSet(Known) /\ IsFiniteSet(HashSlots)
           /\ \A k \in Slots : leaves[k] \in ShardTxs
<1>1. Slots = 1 .. Len(leaves) /\ Len(leaves) \in Nat
  BY DEF ShardType, Slots
<1>2. IsFiniteSet(Slots)
  BY <1>1, FS_Interval
<1>3. Known \in SUBSET Slots /\ HashSlots \in SUBSET Slots
  BY DEF Known, HashSlots
<1>4. \A k \in Slots : leaves[k] \in ShardTxs
  BY <1>1, ElementOfSeq DEF ShardType
<1> QED BY <1>1, <1>2, <1>3, <1>4, FS_Subset

(* Every set of naturals that is not empty has a least element. *)
LEMMA LeastNatural ==
    ASSUME NEW T \in SUBSET Nat, T # {}
    PROVE  \E m \in T : \A x \in T : m <= x
<1>1. IsWellFoundedOn(OpToRel(<, Nat), Nat)
  BY NatLessThanWellFounded
<1>2. PICK m \in T : \A y \in T : ~(<<y, m>> \in OpToRel(<, Nat))
  BY <1>1, WFMin
<1>3. \A y \in T : ~(y < m)
  BY <1>2 DEF OpToRel
<1> QED BY <1>3

(* Among the known slots below i there is a last one, and among those      *)
(* above it a first one: the neighbours check_tx_ordering() looks at.      *)
LEMMA NearestBelow ==
    ASSUME ShardType, NEW i \in Slots, NEW j \in Known, j < i
    PROVE  \E m \in Known : m < i /\ j <= m /\ \A k \in Known : k <= m \/ k >= i
<1>1. Known \subseteq Nat /\ i \in Nat
  BY SlotsFinite DEF Known
<1> DEFINE T == {d \in Nat : \E k \in Known : k < i /\ k + d = i}
<1>2. \A k \in Known : k < i => i - k \in T
  BY <1>1
<1>3. PICK d \in T : \A x \in T : d <= x
  <2>1. T # {} /\ T \in SUBSET Nat
    BY <1>2
  <2> HIDE DEF T
  <2> QED BY <2>1, LeastNatural
<1>4. PICK m \in Known : m < i /\ m + d = i
  BY <1>3
<1>5. d \in Nat
  BY <1>3
<1>6. ASSUME NEW k \in Known, k < i PROVE k <= m
  <2>1. d <= i - k
    BY <1>2, <1>3, <1>6
  <2> QED BY <2>1, <1>1, <1>4, <1>5
<1> QED BY <1>1, <1>4, <1>6

(* If a slot above i is known, there is a nearest one. *)
LEMMA NearestAbove ==
    ASSUME ShardType, NEW i \in Slots, NEW j \in Known, j > i
    PROVE  \E m \in Known : m > i /\ m <= j /\ \A k \in Known : k >= m \/ k <= i
<1>1. Known \subseteq Nat /\ i \in Nat
  BY SlotsFinite DEF Known
<1> DEFINE T == {k \in Known : k > i}
<1>2. T # {} /\ T \in SUBSET Nat
  BY <1>1
<1>3. PICK m \in T : \A x \in T : m <= x
  <2> HIDE DEF T
  <2> QED BY <1>2, LeastNatural
<1> QED BY <1>1, <1>3

(* Comparing with the neighbours is comparing with all. *)
LEMMA OrderingEnough ==
    ASSUME ShardAssumption, ShardType, KnownInOrder, NEW i \in Slots, check_tx_ordering(i)
    PROVE  \A j \in Known : /\ j < i => leaves[j] < leaves[i]
                            /\ j > i => leaves[i] < leaves[j]
<1>1. \A k \in Slots : leaves[k] \in Nat
  BY SlotsFinite DEF ShardAssumption
<1>2. Known \subseteq Slots /\ Slots \subseteq Nat
  BY SlotsFinite DEF Known
<1>3. ASSUME NEW j \in Known, j < i PROVE leaves[j] < leaves[i]
  <2>1. PICK m \in Known : m < i /\ j <= m /\ \A k \in Known : k <= m \/ k >= i
    BY <1>3, NearestBelow
  <2>2. leaves[m] < leaves[i]
    BY <2>1 DEF check_tx_ordering
  <2>3. j = m \/ leaves[j] < leaves[m]
    BY <2>1, <1>2 DEF KnownInOrder
  <2>4. leaves[j] \in Nat /\ leaves[m] \in Nat /\ leaves[i] \in Nat
    BY <1>1, <1>2
  <2> QED BY <2>2, <2>3, <2>4
<1>4. ASSUME NEW j \in Known, j > i PROVE leaves[i] < leaves[j]
  <2>1. PICK m \in Known : m > i /\ m <= j /\ \A k \in Known : k >= m \/ k <= i
    BY <1>4, NearestAbove
  <2>2. leaves[i] < leaves[m]
    BY <2>1 DEF check_tx_ordering
  <2>3. j = m \/ leaves[m] < leaves[j]
    BY <2>1, <1>2 DEF KnownInOrder
  <2>4. leaves[j] \in Nat /\ leaves[m] \in Nat /\ leaves[i] \in Nat
    BY <1>1, <1>2
  <2> QED BY <2>2, <2>3, <2>4
<1> QED BY <1>3, <1>4

(* A slot whose transaction is refused as out of order shows a pair that   *)
(* the header has in the wrong order.                                      *)
LEMMA RefusedRightly ==
    ASSUME ShardAssumption, ShardType, NEW i \in Slots, ~check_tx_ordering(i)
    PROVE  \E k, l \in Slots : k < l /\ leaves[k] >= leaves[l]
<1>1. \A k \in Slots : leaves[k] \in Nat
  BY SlotsFinite DEF ShardAssumption
<1>2. Known \subseteq Slots /\ Slots \subseteq Nat
  BY SlotsFinite DEF Known
<1> QED BY <1>1, <1>2 DEF check_tx_ordering

-----------------------------------------------------------------------------
(* What the handlers do to the accounts. *)

(* put_tx_in_shard() of a transaction that is in order, with proofs that   *)
(* lack none there was.                                                    *)
LEMMA PutTxInv ==
    ASSUME ShardAssumption, ShardInv, ~aborted, NEW i \in Slots,
           NEW p \in SUBSET Slots, proof \subseteq p,
           check_tx_ordering(i), put_tx_in_shard(i, p),
           UNCHANGED <<leaves, blamed>>, resolving' \subseteq Slots
    PROVE  ShardInv'
<1> USE DEF ShardInv
<1>0. Slots' = Slots
  BY DEF Slots
<1>1. CASE slot[i] = "tx"
  <2>1. proof' = p /\ UNCHANGED <<slot, txcount, hashcount, aborted>>
    BY <1>1 DEF put_tx_in_shard
  <2>2. Known' = Known
    BY <2>1, <1>0 DEF Known
  <2>3. ShardType'
    BY <2>1, <1>0 DEF ShardType
  <2>4. \A j \in Known' : proof_available(j)'
    BY <2>1, <2>2 DEF ShardAccounts, proof_available, shard_all_hashes
  <2>5. {j \in Slots : slot[j] = "hash"}' = {j \in Slots : slot[j] = "hash"}
    BY <2>1, <1>0
  <2>6. KnownInOrder' /\ NoFalseMisorder'
    BY <2>1, <2>2, <1>0 DEF ShardAccounts, KnownInOrder, NoFalseMisorder
  <2> QED BY <2>1, <2>2, <2>3, <2>4, <2>5, <2>6 DEF ShardAccounts
<1>2. CASE slot[i] # "tx"
  <2>1. /\ slot' = [slot EXCEPT ![i] = "tx"]
        /\ txcount' = txcount + 1
        /\ hashcount' = HashesLeft(i)
        /\ proof' = IF shard_all_hashes(txcount', hashcount') THEN {} ELSE p
        /\ aborted' = ~check_block_shard(slot', txcount', hashcount', proof')
    BY <1>2 DEF put_tx_in_shard
  <2>2. Known' = Known \cup {i} /\ i \notin Known
    BY <2>1, <1>0, <1>2 DEF Known, ShardType, Slots
  <2>3. HashSlots' = HashSlots \ {i}
    BY <2>1, <1>0 DEF HashSlots, ShardType, Slots
  <2>4. txcount' = Cardinality(Known')
    BY <2>1, <2>2, SlotsFinite, FS_AddElement DEF ShardAccounts
  <2>5. hashcount' = Cardinality(HashSlots') /\ hashcount' \in Nat
    <3>1. hashcount' = Cardinality(HashSlots')
      <4>1. hashcount = Cardinality(HashSlots) /\ IsFiniteSet(HashSlots)
        BY SlotsFinite DEF ShardAccounts, HashSlots
      <4>2. i \in HashSlots <=> slot[i] = "hash"
        BY DEF HashSlots
      <4>3. Cardinality(HashSlots \ {i}) = IF i \in HashSlots THEN hashcount - 1 ELSE hashcount
        BY <4>1, FS_RemoveElement
      <4> QED BY <2>1, <2>3, <4>2, <4>3 DEF HashesLeft
    <3>2. IsFiniteSet(HashSlots')
      BY <2>3, SlotsFinite, FS_RemoveElement
    <3> QED BY <3>1, <3>2, FS_CardinalityType
  <2>6. ShardType'
    <3>1. aborted' \in BOOLEAN
      BY <2>1 DEF check_block_shard
    <3>2. slot' \in [DOMAIN leaves' -> {"null", "hash", "tx"}]
      BY <2>1, <1>0 DEF ShardType, Slots
    <3> QED BY <2>1, <2>5, <3>1, <3>2, <1>0 DEF ShardType
  <2>7. ~aborted' => \A j \in Known' : proof_available(j)'
    <3> SUFFICES ASSUME ~aborted', NEW j \in Known' PROVE proof_available(j)'
      OBVIOUS
    <3>1. check_block_shard(slot', txcount', hashcount', proof')
      BY <2>1
    <3>2. CASE shard_all_hashes(txcount', hashcount')
      BY <3>2 DEF proof_available, shard_all_hashes
    <3>3. CASE ~shard_all_hashes(txcount', hashcount')
      <4>1. txcount' # 0
        BY <2>1 DEF ShardType
      <4>2. proof' # {}
        BY <3>1, <3>3, <4>1 DEF check_block_shard
      <4>3. j \in Slots /\ slot'[j] = "tx"
        BY <1>0 DEF Known
      <4> QED BY <3>1, <4>2, <4>3 DEF check_block_shard, proof_available
    <3> QED BY <3>2, <3>3
  <2>8. KnownInOrder'
    <3> SUFFICES ASSUME NEW j \in Known', NEW k \in Known', j < k
                 PROVE  leaves[j] < leaves[k]
      BY DEF KnownInOrder
    <3>1. Known \subseteq Nat /\ i \in Nat
      BY SlotsFinite DEF Known
    <3>2. KnownInOrder
      BY DEF ShardAccounts
    <3> QED BY <2>2, <3>1, <3>2, OrderingEnough DEF KnownInOrder
  <2>9. NoFalseMisorder'
    BY <1>0 DEF ShardAccounts, NoFalseMisorder
  <2> QED BY <2>4, <2>5, <2>6, <2>7, <2>8, <2>9 DEF ShardAccounts, HashSlots
<1> QED BY <1>1, <1>2

(* Nothing but the complaint changes, and for a reason. *)
LEMMA OnlyBlamed ==
    ASSUME ShardInv, blamed' \in BOOLEAN, resolving' \subseteq Slots,
           UNCHANGED <<slot, txcount, hashcount, proof, aborted, leaves>>,
           blamed' => \/ blamed
                      \/ \E k, l \in Slots : k < l /\ leaves[k] >= leaves[l]
                      \/ \E k \in Slots : leaves[k] \in BadTxs
    PROVE  ShardInv'
<1>1. Slots' = Slots /\ Known' = Known
  BY DEF Slots, Known
<1>2. ShardType'
  BY <1>1 DEF ShardInv, ShardType
<1>3. {j \in Slots : slot[j] = "hash"}' = {j \in Slots : slot[j] = "hash"}
  BY <1>1
<1>4. ~aborted' => \A i \in Known' : proof_available(i)'
  BY <1>1 DEF ShardInv, ShardAccounts, proof_available, shard_all_hashes
<1>5. KnownInOrder' /\ NoFalseMisorder'
  BY <1>1 DEF ShardInv, ShardAccounts, KnownInOrder, NoFalseMisorder
<1> QED BY <1>1, <1>2, <1>3, <1>4, <1>5 DEF ShardInv, ShardAccounts

(* The transaction of a slot is at hand. *)
LEMMA StoreOrComplainInv ==
    ASSUME ShardAssumption, ShardInv, ~aborted, NEW i \in Slots,
           NEW p \in SUBSET Slots, proof \subseteq p,
           StoreOrComplain(i, p), UNCHANGED leaves, resolving' \subseteq Slots
    PROVE  ShardInv'
<1>1. CASE check_tx_ordering(i)
  BY <1>1, PutTxInv DEF StoreOrComplain
<1>2. CASE ~check_tx_ordering(i)
  <2>1. blamed' = TRUE /\ UNCHANGED <<slot, txcount, hashcount, proof, aborted, leaves>>
    BY <1>2 DEF StoreOrComplain
  <2>2. \E k, l \in Slots : k < l /\ leaves[k] >= leaves[l]
    BY <1>2, RefusedRightly DEF ShardInv
  <2> QED BY <2>1, <2>2, OnlyBlamed
<1> QED BY <1>1, <1>2

(* put_txhash_in_shard() of slots that held nothing; the proofs may grow   *)
(* afterwards.                                                             *)
LEMMA PutTxhashInv ==
    ASSUME ShardInv, NEW I \in SUBSET Slots, \A i \in I : slot[i] = "null",
           put_txhash_in_shard(I), UNCHANGED <<leaves, blamed>>,
           proof' \in SUBSET Slots, proof \subseteq proof', resolving' \subseteq Slots
    PROVE  ShardInv'
<1> USE DEF ShardInv
<1>0. /\ slot' = [i \in Slots |-> IF i \in I THEN "hash" ELSE slot[i]]
      /\ hashcount' = hashcount + Cardinality(I)
      /\ aborted' = ~check_block_shard(slot', txcount, hashcount', proof)
      /\ txcount' = txcount
  BY DEF put_txhash_in_shard
<1>1. Slots' = Slots
  BY DEF Slots
<1>2. Known' = Known
  BY <1>0, <1>1 DEF Known
<1>3. HashSlots' = HashSlots \cup I /\ HashSlots \cap I = {}
  BY <1>0, <1>1 DEF HashSlots
<1>4. hashcount' = Cardinality(HashSlots') /\ hashcount' \in Nat
  <2>1. IsFiniteSet(I) /\ Cardinality(I) \in Nat
    BY SlotsFinite, FS_Subset, FS_CardinalityType
  <2>2. IsFiniteSet(HashSlots) /\ hashcount = Cardinality(HashSlots) /\ hashcount \in Nat
    BY SlotsFinite DEF ShardAccounts, ShardType, HashSlots
  <2>3. Cardinality(HashSlots \cup I) = hashcount + Cardinality(I) - Cardinality(HashSlots \cap I)
    BY <2>1, <2>2, FS_Union
  <2>4. Cardinality(HashSlots \cap I) = 0
    BY <1>3, FS_EmptySet
  <2> QED BY <1>0, <1>3, <2>1, <2>2, <2>3, <2>4
<1>5. ShardType'
  <2>1. aborted' \in BOOLEAN
    BY <1>0 DEF check_block_shard
  <2>2. slot' \in [DOMAIN leaves' -> {"null", "hash", "tx"}]
    BY <1>0, <1>1 DEF ShardType, Slots
  <2> QED BY <1>0, <1>1, <1>4, <2>1, <2>2 DEF ShardType
<1>6. ~aborted' => \A j \in Known' : proof_available(j)'
  <2> SUFFICES ASSUME ~aborted', NEW j \in Known' PROVE proof_available(j)'
    OBVIOUS
  <2>1. check_block_shard(slot', txcount', hashcount', proof)
    BY <1>0
  <2>2. CASE shard_all_hashes(txcount', hashcount')
    BY <2>2 DEF proof_available, shard_all_hashes
  <2>3. CASE ~shard_all_hashes(txcount', hashcount')
    <3>1. txcount' # 0
      <4>1. Known # {} /\ txcount = Cardinality(Known)
        BY <1>2 DEF ShardAccounts
      <4> QED BY <1>0, <4>1, SlotsFinite, FS_EmptySet
    <3>2. proof # {}
      BY <2>1, <2>3, <3>1 DEF check_block_shard
    <3>3. j \in Slots /\ slot'[j] = "tx"
      BY <1>1 DEF Known
    <3> QED BY <2>1, <3>2, <3>3 DEF check_block_shard, proof_available
  <2> QED BY <2>2, <2>3
<1>7. KnownInOrder' /\ NoFalseMisorder'
  BY <1>1, <1>2 DEF ShardAccounts, KnownInOrder, NoFalseMisorder
<1>8. txcount' = Cardinality(Known')
  BY <1>0, <1>2 DEF ShardAccounts
<1> QED BY <1>4, <1>5, <1>6, <1>7, <1>8 DEF ShardAccounts, HashSlots

(* The block arrives: until then there was nothing to complain of. *)
LEMMA NewBlockInv ==
    ASSUME ShardInv, NEW k \in 1 .. MaxSize, NEW s \in [1 .. k -> ShardTxs],
           new_block_shard(s), ShardAssumption
    PROVE  ShardInv'
<1> USE DEF ShardInv
<1>1. s \in Seq(ShardTxs) /\ DOMAIN s = 1 .. k
  BY DEF ShardAssumption
<1>2. /\ leaves = <<>> /\ leaves' = s
      /\ slot' = [i \in DOMAIN s |-> "null"]
      /\ UNCHANGED <<txcount, hashcount, proof, blamed, elsewhere, resolving, aborted>>
  BY DEF new_block_shard
<1>3. Slots = {}
  BY <1>2 DEF Slots
<1>4. ~blamed
  BY <1>3 DEF ShardAccounts, NoFalseMisorder
<1>5. Known = {} /\ HashSlots = {} /\ Known' = {} /\ HashSlots' = {}
  BY <1>2, <1>3 DEF Known, HashSlots, Slots
<1>6. txcount' = Cardinality(Known') /\ hashcount' = Cardinality(HashSlots')
  BY <1>2, <1>5 DEF ShardAccounts, HashSlots
<1>7. ShardType'
  BY <1>1, <1>2, <1>3 DEF ShardType, Slots
<1> QED BY <1>2, <1>4, <1>5, <1>6, <1>7 DEF ShardAccounts, HashSlots, KnownInOrder, NoFalseMisorder

(* Every step of the shard keeps the accounts. *)
LEMMA ShardStep ==
    ASSUME ShardAssumption, ShardInv, [ShardNext]_shardVars
    PROVE  ShardInv'
<1>1. ASSUME NEW k \in 1 .. MaxSize, NEW s \in [1 .. k -> ShardTxs], new_block_shard(s)
      PROVE  ShardInv'
  BY <1>1, NewBlockInv
<1>2. ASSUME ~aborted, NEW i \in Slots, recv_tx(i)
      PROVE  ShardInv'
  <2>1. CASE StoreOrComplain(i, put_proof_in_shard(i))
    <3>1. put_proof_in_shard(i) \in SUBSET Slots /\ proof \subseteq put_proof_in_shard(i)
      BY DEF put_proof_in_shard, ShardInv, ShardType
    <3>2. UNCHANGED leaves /\ resolving' \subseteq Slots
      BY <1>2 DEF recv_tx, ShardInv, ShardType
    <3> QED BY <1>2, <2>1, <3>1, <3>2, StoreOrComplainInv
  <2>2. CASE /\ leaves[i] \in BadTxs /\ blamed' = TRUE
             /\ UNCHANGED <<slot, txcount, hashcount, proof, aborted>>
    <3>1. UNCHANGED leaves /\ resolving' \subseteq Slots
      BY <1>2 DEF recv_tx, ShardInv, ShardType
    <3> QED BY <2>2, <3>1, OnlyBlamed
  <2> QED BY <1>2, <2>1, <2>2 DEF recv_tx
<1>3. ASSUME NEW i \in Slots, recv_hashes_in_block(i)
      PROVE  ShardInv'
  <2>1. {i} \in SUBSET Slots /\ \A j \in {i} : slot[j] = "null"
    BY <1>3 DEF recv_hashes_in_block
  <2>2. /\ put_txhash_in_shard({i}) /\ UNCHANGED <<leaves, blamed>>
        /\ proof' \in SUBSET Slots /\ proof \subseteq proof' /\ resolving' \subseteq Slots
    BY <1>3 DEF recv_hashes_in_block, ShardInv, ShardType
  <2> QED BY <2>1, <2>2, PutTxhashInv
<1>4. CASE recv_shard
  <2> DEFINE I == {i \in Slots : slot[i] = "null"}
  <2>1. UNCHANGED <<leaves, proof, blamed>> /\ resolving' \subseteq Slots
    BY <1>4 DEF recv_shard
  <2>2. CASE I = {}
    <3>1. UNCHANGED <<slot, txcount, hashcount, aborted>>
      BY <1>4, <2>2 DEF recv_shard
    <3> QED BY <2>1, <3>1, OnlyBlamed DEF ShardInv, ShardType
  <2>3. CASE I # {}
    <3>1. put_txhash_in_shard(I)
      BY <1>4, <2>3 DEF recv_shard
    <3>2. I \in SUBSET Slots /\ \A i \in I : slot[i] = "null"
      OBVIOUS
    <3>3. proof' \in SUBSET Slots /\ proof \subseteq proof'
      BY <2>1 DEF ShardInv, ShardType
    <3> HIDE DEF I
    <3> QED BY <2>1, <3>1, <3>2, <3>3, PutTxhashInv
  <2> QED BY <2>2, <2>3
<1>5. ASSUME NEW t \in ShardTxs, LearnTx(t)
      PROVE  ShardInv'
  <2>1. UNCHANGED <<slot, txcount, hashcount, proof, aborted, leaves, blamed>> /\ resolving' \subseteq Slots
    BY <1>5 DEF LearnTx
  <2> QED BY <2>1, OnlyBlamed DEF ShardInv, ShardType
<1>6. CASE recheck_tx
  <2>1. /\ UNCHANGED <<slot, txcount, hashcount, proof, aborted, leaves, resolving>>
        /\ blamed' = TRUE /\ \E i \in Slots : leaves[i] \in BadTxs
    BY <1>6 DEF recheck_tx, Known
  <2> QED BY <2>1, OnlyBlamed DEF ShardInv, ShardType
<1>7. ASSUME ~aborted, NEW i \in resolving, try_resolve_hash(i)
      PROVE  ShardInv'
  <2>1. /\ i \in Slots /\ UNCHANGED leaves /\ resolving' \subseteq Slots
        /\ proof \in SUBSET Slots /\ proof \subseteq proof
    BY <1>7 DEF try_resolve_hash, ShardInv, ShardType
  <2>2. CASE StoreOrComplain(i, proof)
    BY <1>7, <2>1, <2>2, StoreOrComplainInv
  <2>3. CASE UNCHANGED <<slot, txcount, hashcount, proof, blamed, aborted>>
    BY <2>1, <2>3, OnlyBlamed DEF ShardInv, ShardType
  <2> QED BY <1>7, <2>2, <2>3 DEF try_resolve_hash
<1>8. CASE UNCHANGED shardVars
  <2>1. /\ UNCHANGED <<slot, txcount, hashcount, proof, blamed, aborted, leaves, resolving>>
    BY <1>8 DEF shardVars
  <2> QED BY <2>1, OnlyBlamed DEF ShardInv, ShardType
<1> QED BY <1>1, <1>2, <1>3, <1>4, <1>5, <1>6, <1>7, <1>8 DEF ShardNext

(* For a shard of any size and packets in any order: txcount and hashcount *)
(* count the slots, a proof can be made for every transaction stored, what *)
(* is stored is in order although it is compared with its neighbours only, *)
(* and no block is blamed without a fault (check_block.c, block_shard.c).  *)
THEOREM AccountsCorrect ==
    ASSUME ShardAssumption
    PROVE  ShardSpec => []ShardAccounts
<1>1. ShardInit => ShardInv
  <2> SUFFICES ASSUME ShardInit PROVE ShardInv
    OBVIOUS
  <2>1. Slots = {} /\ Known = {} /\ HashSlots = {}
    BY DEF ShardInit, Slots, Known, HashSlots
  <2>2. leaves \in Seq(ShardTxs)
    BY DEF ShardInit
  <2>3. slot = [i \in {} |-> "null"]
    BY DEF ShardInit
  <2>4. ShardType
    BY <2>1, <2>2, <2>3 DEF ShardInit, ShardType
  <2> QED BY <2>1, <2>4, FS_EmptySet
          DEF ShardInit, ShardInv, ShardAccounts, HashSlots, KnownInOrder, NoFalseMisorder
<1>2. ShardInv /\ [ShardNext]_shardVars => ShardInv'
  BY ShardStep
<1>3. ShardInv => ShardAccounts
  BY DEF ShardInv
<1> QED BY <1>1, <1>2, <1>3, PTL DEF ShardSpec

-----------------------------------------------------------------------------
(* Wire: lengths *)

(* Remainders of what is below the modulus, or above it by less than it. *)
LEMMA SmallRemainder == ASSUME NEW W \in Nat \ {0}, NEW x \in 0 .. W - 1 PROVE x % W = x
<1> QED OBVIOUS

LEMMA WrappedRemainder ==
    ASSUME NEW W \in Nat \ {0}, NEW x \in W .. 2 * W - 1 PROVE x % W = x - W
<1> QED OBVIOUS

(* add_overflows() finds every sum that wraps, and nothing else. *)
LEMMA AddChecked ==
    ASSUME WireAssumption, NEW a \in 0 .. Word - 1, NEW b \in 0 .. Word - 1
    PROVE  /\ ~add_overflows(a, b) <=> a + b < Word
           /\ a + b < Word => Add(a, b) = a + b
<1>0. Word \in Nat \ {0} /\ a + b \in Nat
  BY DEF WireAssumption
<1>1. CASE a + b < Word
  BY <1>0, <1>1, SmallRemainder DEF add_overflows, Add
<1>2. CASE ~(a + b < Word)
  <2>1. a + b \in Word .. 2 * Word - 1
    BY <1>0, <1>2
  <2>2. (a + b) % Word = (a + b) - Word
    <3> DEFINE x == a + b
    <3>1. x \in Word .. 2 * Word - 1
      BY <2>1
    <3> HIDE DEF x
    <3>2. x % Word = x - Word
      BY <1>0, <3>1, WrappedRemainder
    <3> QED BY <3>2 DEF x
  <2> QED BY <1>0, <1>2, <2>2 DEF add_overflows, Add
<1> QED BY <1>1, <1>2

(* mul_overflows() finds every product that wraps, and nothing else. *)
LEMMA MulChecked ==
    ASSUME WireAssumption, NEW a \in Nat, NEW b \in Nat
    PROVE  /\ ~mul_overflows(a, b) <=> a * b < Word
           /\ a * b < Word => Mul(a, b) = a * b
<1>0. Word \in Nat \ {0} /\ a * b \in Nat
  BY DEF WireAssumption
<1>1. CASE a * b < Word
  <2>1. Mul(a, b) = a * b
    BY <1>0, <1>1, SmallRemainder DEF Mul
  <2>2. b # 0 => (a * b) \div b = a
    OBVIOUS
  <2> QED BY <1>1, <2>1, <2>2 DEF mul_overflows
<1>2. CASE ~(a * b < Word)
  <2>1. b # 0
    BY <1>0, <1>2
  <2> DEFINE r == (a * b) % Word
             q == r \div b
  <2>2. r \in Nat /\ r < Word
    BY <1>0
  <2> HIDE DEF r
  <2>3. q \in Nat /\ q * b <= r
    BY <2>1, <2>2
  <2>4. q # a
    BY <1>0, <1>2, <2>2, <2>3
  <2> QED BY <1>2, <2>1, <2>4 DEF mul_overflows, Mul, r
<1> QED BY <1>1, <1>2

(* unmarshal_block_into() accepts exactly a block whose parts fill its     *)
(* size, as numbers that do not wrap.                                      *)
LEMMA BlockChecked ==
    ASSUME WireAssumption, NEW h, h.order \in Nat, h.count \in 0 .. Word - 1,
           NEW size \in 0 .. Word - 1
    PROVE  unmarshal_block_into(size, h) <=>
               /\ h.order <= MaxOrder
               /\ size = HDR + 2^h.order + SHA * 2^h.order + h.count + TAILER
<1>1. CASE ~(h.order <= MaxOrder)
  BY <1>1 DEF unmarshal_block_into
<1>2. CASE h.order <= MaxOrder
  <2> DEFINE L == 2^h.order
             m == Mul(L, SHA)
             len1 == Add(HDR, L)
             len2 == Add(len1, m)
             len3 == Add(len2, h.count)
             T == HDR + L + SHA * L + h.count + TAILER
  <2>1. /\ Word \in Nat \ {0} /\ L \in 1 .. Word - 1 /\ h.count \in 0 .. Word - 1
        /\ HDR \in 0 .. Word - 1 /\ SHA \in 0 .. Word - 1 /\ TAILER \in 0 .. Word - 1
    BY <1>2 DEF WireAssumption
  <2>2. unmarshal_block_into(size, h) <=>
            /\ size >= HDR
            /\ ~add_overflows(L, HDR) /\ ~mul_overflows(L, SHA)
            /\ ~add_overflows(len1, m) /\ ~add_overflows(len2, h.count)
            /\ ~add_overflows(len3, TAILER)
            /\ size = Add(len3, TAILER)
    BY <1>2 DEF unmarshal_block_into
  <2> DEFINE c == h.count
  <2>3. L * SHA = SHA * L /\ SHA * L \in Nat
    BY <2>1
  <2> HIDE DEF L, c
  <2>4. ~add_overflows(L, HDR) <=> HDR + L < Word
    BY <2>1, AddChecked
  <2>5. HDR + L < Word => len1 = HDR + L
    BY <2>1, AddChecked
  <2>6. (~mul_overflows(L, SHA) <=> SHA * L < Word) /\ (SHA * L < Word => m = SHA * L)
    BY <2>1, <2>3, MulChecked
  <2> HIDE DEF m, len1
  <2> DEFINE sl == SHA * L
  <2>7. sl \in Nat
    BY <2>3
  <2>8. ASSUME HDR + L < Word, sl < Word
        PROVE  /\ ~add_overflows(len1, m) <=> HDR + L + sl < Word
               /\ HDR + L + sl < Word => len2 = HDR + L + sl
    <3>1. len1 \in 0 .. Word - 1 /\ m \in 0 .. Word - 1 /\ len1 + m = HDR + L + sl
      BY <2>1, <2>5, <2>6, <2>7, <2>8
    <3> QED BY <3>1, AddChecked
  <2> HIDE DEF len2
  <2>9. ASSUME HDR + L + sl < Word, len2 = HDR + L + sl
        PROVE  /\ ~add_overflows(len2, c) <=> HDR + L + sl + c < Word
               /\ HDR + L + sl + c < Word => len3 = HDR + L + sl + c
    <3>1. len2 \in 0 .. Word - 1 /\ c \in 0 .. Word - 1 /\ len2 + c = HDR + L + sl + c
      BY <2>1, <2>7, <2>9 DEF c
    <3> QED BY <3>1, AddChecked DEF c
  <2> HIDE DEF len3
  <2>10. ASSUME HDR + L + sl + c < Word, len3 = HDR + L + sl + c
         PROVE  /\ ~add_overflows(len3, TAILER) <=> HDR + L + sl + c + TAILER < Word
                /\ HDR + L + sl + c + TAILER < Word
                     => Add(len3, TAILER) = HDR + L + sl + c + TAILER
    <3>1. /\ len3 \in 0 .. Word - 1 /\ TAILER \in 0 .. Word - 1
          /\ len3 + TAILER = HDR + L + sl + c + TAILER
      BY <2>1, <2>7, <2>10 DEF c
    <3> QED BY <3>1, AddChecked
  <2>11. T = HDR + L + sl + c + TAILER
    BY DEF c
  <2>12. c \in 0 .. Word - 1
    BY <2>1 DEF c
  <2> HIDE DEF sl
  <2>13. ASSUME unmarshal_block_into(size, h)
         PROVE  size = T
    <3>1. HDR + L < Word /\ sl < Word
      BY <2>2, <2>4, <2>6, <2>13 DEF sl
    <3>2. HDR + L + sl < Word /\ len2 = HDR + L + sl
      BY <2>2, <2>8, <2>13, <3>1
    <3>3. HDR + L + sl + c < Word /\ len3 = HDR + L + sl + c
      BY <2>2, <2>9, <2>13, <3>2 DEF c
    <3> QED BY <2>2, <2>10, <2>11, <2>13, <3>3
  <2>14. ASSUME size = T
         PROVE  unmarshal_block_into(size, h)
    <3>0. size = HDR + L + sl + c + TAILER /\ size < Word /\ size \in Nat
      BY <2>1, <2>11, <2>14
    <3>1. /\ HDR + L < Word /\ sl < Word /\ HDR + L + sl < Word
          /\ HDR + L + sl + c < Word /\ HDR + L + sl + c + TAILER < Word /\ size >= HDR
      BY <2>1, <2>7, <2>12, <3>0
    <3>2. ~add_overflows(L, HDR) /\ ~mul_overflows(L, SHA)
      BY <2>4, <2>6, <3>1 DEF sl
    <3>3. ~add_overflows(len1, m) /\ len2 = HDR + L + sl
      BY <2>8, <3>1
    <3>4. ~add_overflows(len2, h.count) /\ len3 = HDR + L + sl + c
      BY <2>9, <3>1, <3>3 DEF c
    <3>5. ~add_overflows(len3, TAILER) /\ Add(len3, TAILER) = size
      BY <2>10, <3>0, <3>1, <3>4
    <3> QED BY <2>2, <3>1, <3>2, <3>3, <3>4, <3>5
  <2> QED BY <1>2, <2>13, <2>14 DEF T, L
<1> QED BY <1>1, <1>2

(* unmarshal_tx() accepts exactly a transaction whose parts fill its size. *)
LEMMA TxChecked ==
    ASSUME WireAssumption, NEW t, t.kind \in DOMAIN TxSize, t.count \in 0 .. Word - 1,
           NEW size \in 0 .. Word - 1, unmarshal_tx(size, t)
    PROVE  size = TxSize[t.kind] + TxExtra[t.kind] * t.count
<1> DEFINE e == TxExtra[t.kind]
           b == TxSize[t.kind]
           c == t.count
<1>1. Word \in Nat \ {0} /\ e \in 0 .. Word - 1 /\ b \in 0 .. Word - 1 /\ c \in 0 .. Word - 1
  BY DEF WireAssumption
<1>2. ~mul_overflows(e, c) /\ ~add_overflows(b, Mul(e, c)) /\ size = Add(b, Mul(e, c))
  BY DEF unmarshal_tx
<1> HIDE DEF e, b, c
<1>3. e * c < Word /\ Mul(e, c) = e * c
  BY <1>1, <1>2, MulChecked
<1>4. Mul(e, c) \in 0 .. Word - 1
  BY <1>1, <1>3
<1>5. Add(b, Mul(e, c)) = b + Mul(e, c)
  BY <1>1, <1>2, <1>4, AddChecked
<1> QED BY <1>2, <1>3, <1>5 DEF e, b, c

(* What a packet is made of. *)
LEMMA PacketFields ==
    ASSUME WireAssumption, NEW p \in Packets
    PROVE  /\ p.len \in Nat \ {0} /\ p.order \in Nat /\ p.count \in 0 .. Word - 1
           /\ p.kind # "block" => p.kind \in DOMAIN TxSize
<1>1. CASE p \in [kind : {"block"}, order : Orders, count : Counts, len : Lens]
  BY <1>1 DEF WireAssumption
<1>2. CASE p \in [kind : DOMAIN TxSize, order : {0}, count : Counts, len : Lens]
  <2>1. p.kind \in DOMAIN TxSize /\ p.order = 0 /\ p.count \in Counts /\ p.len \in Lens
    BY <1>2
  <2>2. Word \in Nat /\ Counts \subseteq 0 .. Word - 1 /\ Lens \subseteq Nat \ {0}
    BY DEF WireAssumption
  <2>3. p.len \in Nat \ {0} /\ p.count \in 0 .. Word - 1
    BY <2>1, <2>2
  <2>4. p.order \in Nat
    BY <2>1
  <2> QED BY <2>1, <2>3, <2>4, Zenon
<1>3. ASSUME NEW o \in Orders, NEW c \in Counts, p = marshal_block(o, c)
      PROVE  /\ p.len \in Nat \ {0} /\ p.order \in Nat /\ p.count \in 0 .. Word - 1
             /\ p.kind = "block"
  <2> DEFINE h == [kind |-> "block", order |-> o, count |-> c, len |-> 0]
             v == marshal_block_len(h)
  <2>1. /\ 2^o \in Nat /\ SHA \in Nat /\ HDR \in Nat /\ TAILER \in Nat /\ PKT \in Nat /\ PKT > 0
        /\ c \in 0 .. Word - 1 /\ o \in Nat /\ Word \in Nat \ {0}
    BY DEF WireAssumption
  <2>2. v \in Nat
    <3> DEFINE T == HDR + 2^o + SHA * 2^o + c + TAILER
    <3>1. T \in Nat
      BY <2>1
    <3>2. v = T % Word
      BY DEF marshal_block_len, block_lengths
    <3> HIDE DEF T, v
    <3> QED BY <2>1, <3>1, <3>2
  <2>3. p = [h EXCEPT !.len = PKT + v]
    BY <1>3 DEF marshal_block
  <2> HIDE DEF v
  <2> QED BY <2>1, <2>2, <2>3
<1>4. CASE p \in {marshal_block(o, n) : o \in Orders, n \in Counts}
  <2>1. PICK o \in Orders, c \in Counts : p = marshal_block(o, c)
    BY <1>4
  <2>2. /\ p.len \in Nat \ {0} /\ p.order \in Nat /\ p.count \in 0 .. Word - 1
        /\ p.kind = "block"
    BY <1>3, <2>1
  <2> QED BY <2>2
<1> QED BY <1>1, <1>2, <1>4 DEF Packets

(* What the lengths of a packet say, as one fact of its fields. *)
LEMMA CountsOfPacket ==
    ASSUME WireAssumption, NEW p \in Packets
    PROVE  /\ p.len \in PKT .. MaxPacket /\ Accepted(p) => TrueLength(p) = p.len - PKT
           /\ p.kind = "block" /\ p.order <= MaxOrder /\ p = marshal_block(p.order, p.count)
                => (Accepted(p) <=> TrueLength(p) < Word)
           /\ p.kind # "block" /\ marshal_tx_len(p) # 0 => marshal_tx_len(p) = TrueLength(p)
<1>0. /\ Word \in Nat \ {0} /\ PKT \in Nat /\ MaxPacket \in 0 .. Word - 1
      /\ p.len \in Nat \ {0} /\ p.order \in Nat /\ p.count \in 0 .. Word - 1
      /\ p.kind # "block" => p.kind \in DOMAIN TxSize
  BY PacketFields DEF WireAssumption
<1>1. ASSUME p.len \in PKT .. MaxPacket, Accepted(p)
      PROVE  TrueLength(p) = p.len - PKT
  <2> DEFINE size == p.len - PKT
  <2>1. size \in 0 .. Word - 1
    BY <1>0, <1>1
  <2>2. size % Word = size
    <3> HIDE DEF size
    <3> QED BY <1>0, <2>1, SmallRemainder
  <2>3. CASE p.kind = "block"
    <3>1. unmarshal_block_into(size, p)
      BY <1>1, <2>2, <2>3 DEF Accepted, unmarshal_block
    <3> HIDE DEF size
    <3>2. size = HDR + 2^p.order + SHA * 2^p.order + p.count + TAILER
      BY <1>0, <2>1, <3>1, BlockChecked
    <3> QED BY <2>3, <3>2 DEF TrueLength, size
  <2>4. CASE p.kind # "block"
    <3>1. unmarshal_tx(size, p)
      BY <1>1, <2>2, <2>4 DEF Accepted
    <3> HIDE DEF size
    <3>2. size = TxSize[p.kind] + TxExtra[p.kind] * p.count
      BY <1>0, <2>1, <2>4, <3>1, TxChecked
    <3> QED BY <2>4, <3>2 DEF TrueLength, size
  <2> QED BY <2>3, <2>4
<1>2. ASSUME p.kind = "block", p.order <= MaxOrder, p = marshal_block(p.order, p.count)
      PROVE  Accepted(p) <=> TrueLength(p) < Word
  <2> DEFINE T == HDR + 2^p.order + SHA * 2^p.order + p.count + TAILER
             size == T % Word
  <2>1. T \in Nat
    <3>1. 2^p.order \in Nat /\ HDR \in Nat /\ SHA \in Nat /\ TAILER \in Nat
      BY <1>0, <1>2 DEF WireAssumption
    <3> DEFINE L == 2^p.order
    <3> HIDE DEF L
    <3>2. HDR + L + SHA * L + p.count + TAILER \in Nat
      BY <1>0, <3>1 DEF L
    <3> QED BY <3>2 DEF L
  <2>2. p.len = PKT + size
    <3> DEFINE h == [kind |-> "block", order |-> p.order, count |-> p.count, len |-> 0]
    <3>1. marshal_block_len(h) = size
      BY DEF marshal_block_len, block_lengths
    <3> HIDE DEF size
    <3>2. p = [h EXCEPT !.len = PKT + size]
      BY <1>2, <3>1 DEF marshal_block
    <3> QED BY <3>2
  <2> HIDE DEF T
  <2>3. size \in 0 .. Word - 1 /\ (T < Word => size = T)
    <3>1. T % Word \in 0 .. Word - 1
      BY <1>0, <2>1
    <3>2. T < Word => T \in 0 .. Word - 1
      BY <1>0, <2>1
    <3> QED BY <1>0, <3>1, <3>2, SmallRemainder
  <2> HIDE DEF size
  <2>4. p.len - PKT = size
    BY <1>0, <2>2, <2>3
  <2>5. size % Word = size
    BY <1>0, <2>3, SmallRemainder
  <2>6. Accepted(p) <=> unmarshal_block_into(size, p)
    BY <1>2, <2>4, <2>5 DEF Accepted, unmarshal_block
  <2>7. unmarshal_block_into(size, p) <=> p.order <= MaxOrder /\ size = T
    BY <1>0, <2>3, BlockChecked DEF T
  <2>8. TrueLength(p) = T
    BY <1>2 DEF TrueLength, T
  <2> QED BY <1>0, <1>2, <2>1, <2>3, <2>6, <2>7, <2>8
<1>3. ASSUME p.kind # "block", marshal_tx_len(p) # 0
      PROVE  marshal_tx_len(p) = TrueLength(p)
  BY <1>3 DEF marshal_tx_len, varsize, TrueLength
<1> QED BY <1>1, <1>2, <1>3

-----------------------------------------------------------------------------
(* Wire: the stream *)

(* The bytes q are those of the packets of S from number m on, to the end. *)
ByteAfter(S, x) == IF x[2] < S[x[1]].len THEN <<x[1], x[2] + 1>> ELSE <<x[1] + 1, 1>>

Runs(q, S, m) ==
    /\ q \in Seq(Nat \X Nat)
    /\ \A j \in 1 .. Len(q) : q[j][1] \in 1 .. Len(S) /\ q[j][2] \in 1 .. S[q[j][1]].len
    /\ \A j \in 1 .. Len(q) - 1 : q[j + 1] = ByteAfter(S, q[j])
    /\ Len(q) > 0 => q[1] = <<m, 1>> /\ q[Len(q)] = <<Len(S), S[Len(S)].len>>
    /\ Len(q) = 0 => m = Len(S) + 1

Sized(S) == S \in Seq(Packets) /\ \A i \in 1 .. Len(S) : S[i].len \in Nat \ {0}

(* The first bytes are those of packet m, one after the other. *)
LEMMA RunStart ==
    ASSUME NEW S, Sized(S), NEW q, NEW m \in Nat, Runs(q, S, m), NEW j \in 1 .. Len(q),
           j <= S[m].len
    PROVE  q[j] = <<m, j>>
<1>0. Len(q) \in Nat /\ m \in 1 .. Len(S) /\ Len(S) \in Nat /\ q[1] = <<m, 1>>
  <2>1. Len(q) \in Nat /\ Len(S) \in Nat
    BY LenProperties DEF Runs, Sized
  <2>2. q[1] = <<m, 1>> /\ q[1][1] \in 1 .. Len(S)
    BY <2>1 DEF Runs
  <2> QED BY <2>1, <2>2
<1> DEFINE l == S[m].len
           T == {k \in Nat : k \in 1 .. Len(q) /\ k <= l /\ q[k] # <<m, k>>}
<1>1. l \in Nat \ {0}
  BY <1>0 DEF Sized
<1> HIDE DEF l
<1>2. T = {}
  <2> SUFFICES ASSUME T # {} PROVE FALSE
    OBVIOUS
  <2>1. PICK k \in T : \A x \in T : k <= x
    <3>1. T \in SUBSET Nat
      OBVIOUS
    <3> HIDE DEF T
    <3> QED BY <3>1, LeastNatural
  <2>2. k \in Nat /\ k \in 1 .. Len(q) /\ k <= l /\ q[k] # <<m, k>> /\ k # 1
    BY <1>0, <2>1
  <2> DEFINE i == k - 1
  <2>3. i \in 1 .. Len(q) - 1 /\ i \in Nat /\ i + 1 = k /\ i < l
    BY <1>0, <1>1, <2>2
  <2>4. q[i] = <<m, i>>
    <3> HIDE DEF i, T
    <3>0. k \in Nat /\ Len(q) \in Nat
      BY <1>0, <2>2
    <3>1. i \in Nat /\ i \in 1 .. Len(q) /\ i <= l /\ ~(k <= i)
      BY <1>1, <2>3, <3>0
    <3>2. i \notin T
      <4> HIDE DEF T
      <4> QED BY <2>1, <3>1
    <3> QED BY <3>1, <3>2 DEF T
  <2> HIDE DEF i
  <2>5. q[i + 1] = ByteAfter(S, q[i])
    BY <2>3 DEF Runs
  <2>6. ByteAfter(S, <<m, i>>) = <<m, i + 1>>
    BY <2>3 DEF ByteAfter, l
  <2> QED BY <2>2, <2>3, <2>4, <2>5, <2>6
<1>3. j \in Nat /\ j <= l
  BY <1>0 DEF l
<1> QED BY <1>2, <1>3

(* A packet is there as a whole, and behind it the next one begins. *)
LEMMA RunWhole ==
    ASSUME NEW S, Sized(S), NEW q, NEW m \in Nat, Runs(q, S, m), Len(q) > 0
    PROVE  /\ m \in 1 .. Len(S) /\ S[m].len \in Nat \ {0} /\ S[m].len <= Len(q)
           /\ S[m].len = Len(q) => m = Len(S)
           /\ S[m].len < Len(q) => q[S[m].len + 1] = <<m + 1, 1>>
<1>0. Len(q) \in Nat /\ m \in 1 .. Len(S) /\ Len(S) \in Nat
  <2>1. Len(q) \in Nat /\ Len(S) \in Nat
    BY LenProperties DEF Runs, Sized
  <2>2. q[1] = <<m, 1>> /\ q[1][1] \in 1 .. Len(S)
    BY <2>1 DEF Runs
  <2> QED BY <2>1, <2>2
<1> DEFINE l == S[m].len
           n == Len(q)
<1>1. l \in Nat \ {0} /\ n \in Nat /\ n > 0
  BY <1>0 DEF Sized
<1>2. q[n] = <<Len(S), S[Len(S)].len>>
  BY DEF Runs
<1>3. n <= l => q[n] = <<m, n>>
  BY <1>0, <1>1, RunStart
<1>4. l <= n => q[l] = <<m, l>>
  BY <1>0, <1>1, RunStart
<1>5. l < n => q[l + 1] = ByteAfter(S, q[l])
  <2>1. l < n => l \in 1 .. Len(q) - 1
    BY <1>1
  <2> QED BY <2>1 DEF Runs
<1>6. ByteAfter(S, <<m, l>>) = <<m + 1, 1>>
  BY <1>1 DEF ByteAfter
<1>7. n <= l => m = Len(S) /\ n = l
  <2>1. n <= l => <<m, n>> = <<Len(S), S[Len(S)].len>>
    BY <1>2, <1>3
  <2> QED BY <2>1
<1> HIDE DEF l, n
<1>8. l <= n
  BY <1>1, <1>7
<1>9. l = n => m = Len(S)
  BY <1>1, <1>7
<1>10. l < n => q[l + 1] = <<m + 1, 1>>
  BY <1>1, <1>4, <1>5, <1>6
<1> QED BY <1>0, <1>1, <1>8, <1>9, <1>10 DEF l, n

(* Without its first packet. *)
LEMMA RunDrop ==
    ASSUME NEW S, Sized(S), NEW q, NEW m \in Nat, Runs(q, S, m), Len(q) > 0
    PROVE  Runs(SubSeq(q, S[m].len + 1, Len(q)), S, m + 1)
<1> DEFINE l == S[m].len
           n == Len(q)
           r == SubSeq(q, l + 1, n)
<1>0. /\ m \in 1 .. Len(S) /\ l \in Nat \ {0} /\ l <= n
      /\ l = n => m = Len(S)
      /\ l < n => q[l + 1] = <<m + 1, 1>>
  BY RunWhole
<1>1. q \in Seq(Nat \X Nat) /\ n \in Nat
  BY LenProperties DEF Runs
<1>2. \A i \in l + 1 .. n : q[i] \in Nat \X Nat
  BY <1>0, <1>1, ElementOfSeq
<1>3. /\ r \in Seq(Nat \X Nat)
      /\ Len(r) = IF l + 1 <= n THEN n - (l + 1) + 1 ELSE 0
      /\ \A i \in 1 .. n - (l + 1) + 1 : r[i] = q[l + 1 + i - 1]
  <2> HIDE DEF l, n
  <2>1. l + 1 \in Int /\ n \in Int
    BY <1>0, <1>1
  <2> QED BY <1>2, <2>1, SubSeqProperties
<1>4. Len(r) = n - l /\ \A i \in 1 .. Len(r) : r[i] = q[l + i]
  <2> HIDE DEF l, n, r
  <2>1. Len(r) = n - l
    BY <1>0, <1>1, <1>3
  <2>2. ASSUME NEW i \in 1 .. Len(r) PROVE r[i] = q[l + i]
    <3>1. i \in 1 .. n - (l + 1) + 1 /\ l + 1 + i - 1 = l + i
      BY <1>0, <1>1, <2>1
    <3> QED BY <1>3, <3>1
  <2> QED BY <2>1, <2>2
<1>9. Len(q) = n /\ S[m].len = l
  OBVIOUS
<1> HIDE DEF r, l, n
<1>11. Len(r) \in Nat /\ Len(r) = n - l /\ n \in Nat /\ l \in Nat
  BY <1>0, <1>1, <1>4
<1>5. \A j \in 1 .. Len(r) : r[j][1] \in 1 .. Len(S) /\ r[j][2] \in 1 .. S[r[j][1]].len
  <2> SUFFICES ASSUME NEW j \in 1 .. Len(r)
               PROVE  r[j][1] \in 1 .. Len(S) /\ r[j][2] \in 1 .. S[r[j][1]].len
    OBVIOUS
  <2>1. l + j \in 1 .. Len(q) /\ r[j] = q[l + j]
    BY <1>0, <1>1, <1>4, <1>9
  <2> QED BY <2>1 DEF Runs
<1>6. \A j \in 1 .. Len(r) - 1 : r[j + 1] = ByteAfter(S, r[j])
  <2> SUFFICES ASSUME NEW j \in 1 .. Len(r) - 1
               PROVE  r[j + 1] = ByteAfter(S, r[j])
    OBVIOUS
  <2>1. j \in 1 .. Len(r) /\ j + 1 \in 1 .. Len(r) /\ l + (j + 1) = (l + j) + 1
        /\ l + j \in 1 .. Len(q) - 1
    BY <1>11, <1>9
  <2>2. r[j] = q[l + j] /\ r[j + 1] = q[(l + j) + 1]
    BY <1>4, <2>1
  <2> QED BY <2>1, <2>2 DEF Runs
<1>7. Len(r) > 0 => r[1] = <<m + 1, 1>> /\ r[Len(r)] = <<Len(S), S[Len(S)].len>>
  <2> SUFFICES ASSUME Len(r) > 0
               PROVE  r[1] = <<m + 1, 1>> /\ r[Len(r)] = <<Len(S), S[Len(S)].len>>
    OBVIOUS
  <2>1. l < n /\ 1 \in 1 .. Len(r) /\ Len(r) \in 1 .. Len(r) /\ l + Len(r) = n
    BY <1>11
  <2>2. r[1] = q[l + 1] /\ r[Len(r)] = q[n]
    BY <1>4, <2>1
  <2>3. q[n] = <<Len(S), S[Len(S)].len>>
    BY <1>9 DEF Runs
  <2> QED BY <1>0, <2>1, <2>2, <2>3
<1>8. Len(r) = 0 => m + 1 = Len(S) + 1
  BY <1>0, <1>1, <1>4
<1>10. Runs(r, S, m + 1)
  BY <1>3, <1>5, <1>6, <1>7, <1>8 DEF Runs
<1> QED BY <1>10 DEF r, l, n

(* The bytes of a packet. *)
LEMMA BytesOfPacket ==
    ASSUME NEW p, p.len \in Nat, NEW k \in Nat
    PROVE  /\ Bytes(k, p) \in Seq(Nat \X Nat) /\ Len(Bytes(k, p)) = p.len
           /\ \A i \in 1 .. p.len : Bytes(k, p)[i] = <<k, i>>
<1> DEFINE l == p.len
           b == Bytes(k, p)
<1>0. l \in Nat
  OBVIOUS
<1> HIDE DEF l
<1>1. b = [i \in 1 .. l |-> <<k, i>>]
  BY DEF Bytes, l
<1> HIDE DEF b
<1>2. \A i \in 1 .. l : <<k, i>> \in Nat \X Nat
  BY <1>0
<1>3. b \in Seq(Nat \X Nat) /\ Len(b) = l /\ \A i \in 1 .. l : b[i] = <<k, i>>
  BY <1>0, <1>1, <1>2
<1> QED BY <1>3 DEF l, b

(* With one more packet behind it. *)
LEMMA RunAppend ==
    ASSUME NEW S, Sized(S), NEW q, NEW m \in Nat, Runs(q, S, m),
           NEW p \in Packets, p.len \in Nat \ {0}
    PROVE  /\ Sized(Append(S, p))
           /\ Runs(q \o Bytes(Len(S) + 1, p), Append(S, p), m)
<1> DEFINE n == Len(q)
           k == Len(S) + 1
           l == p.len
           b == Bytes(k, p)
           S2 == Append(S, p)
           r == q \o b
<1>1. q \in Seq(Nat \X Nat) /\ n \in Nat /\ Len(S) \in Nat /\ k \in Nat /\ l \in Nat \ {0}
  BY LenProperties DEF Runs, Sized
<1>2. /\ S2 \in Seq(Packets) /\ Len(S2) = k
      /\ \A i \in 1 .. Len(S) : S2[i] = S[i]
      /\ S2[k] = p
  BY AppendProperties DEF Sized
<1>3. /\ b \in Seq(Nat \X Nat) /\ Len(b) = l
      /\ \A i \in 1 .. l : b[i] = <<k, i>>
  BY <1>1, BytesOfPacket
<1> HIDE DEF b
<1>4. /\ r \in Seq(Nat \X Nat) /\ Len(r) = n + l
      /\ \A i \in 1 .. Len(r) : r[i] = IF i <= Len(q) THEN q[i] ELSE b[i - Len(q)]
  <2>1. /\ q \o b \in Seq(Nat \X Nat)
        /\ Len(q \o b) = Len(q) + Len(b)
        /\ \A i \in 1 .. Len(q) + Len(b) :
             (q \o b)[i] = IF i <= Len(q) THEN q[i] ELSE b[i - Len(q)]
    BY <1>1, <1>3, ConcatProperties
  <2>2. Len(b) = l
    BY <1>3
  <2> HIDE DEF l
  <2> QED BY <2>1, <2>2, Zenon
<1>9. Len(q) = n /\ Len(S) + 1 = k /\ p.len = l /\ Len(S) \in Nat
  BY <1>1
<1> HIDE DEF n, k, l, S2, r
<1>5. /\ \A i \in 1 .. n : i \in 1 .. Len(r) /\ r[i] = q[i]
      /\ \A i \in 1 .. l : n + i \in 1 .. Len(r) /\ r[n + i] = <<k, i>>
  <2>1. ASSUME NEW i \in 1 .. n PROVE i \in 1 .. Len(r) /\ r[i] = q[i]
    <3>1. i \in 1 .. Len(r) /\ i <= Len(q)
      BY <1>1, <1>4, <1>9
    <3> QED BY <1>4, <3>1
  <2>2. ASSUME NEW i \in 1 .. l PROVE n + i \in 1 .. Len(r) /\ r[n + i] = <<k, i>>
    <3>1. n + i \in 1 .. Len(r) /\ ~(n + i <= n) /\ (n + i) - n = i
      BY <1>1, <1>4, <1>9
    <3>2. r[n + i] = b[(n + i) - n]
      BY <1>4, <1>9, <3>1
    <3> QED BY <1>3, <3>1, <3>2
  <2> QED BY <2>1, <2>2
<1>6. \A j \in 1 .. Len(r) : j \in 1 .. n \/ \E i \in 1 .. l : j = n + i
  <2> SUFFICES ASSUME NEW j \in 1 .. Len(r), j \notin 1 .. n
               PROVE  \E i \in 1 .. l : j = n + i
    OBVIOUS
  <2>0. n \in Nat /\ l \in Nat /\ Len(r) = n + l
    BY <1>1, <1>4, <1>9
  <2>1. j - n \in 1 .. l /\ j = n + (j - n)
    BY <2>0
  <2> QED BY <2>1
<1>7. Sized(S2)
  <2>1. \A i \in 1 .. k : i \in 1 .. Len(S) \/ i = k
    BY <1>9
  <2> QED BY <1>1, <1>2, <1>9, <2>1 DEF Sized
<1>8. \A j \in 1 .. Len(r) : r[j][1] \in 1 .. Len(S2) /\ r[j][2] \in 1 .. S2[r[j][1]].len
  <2>1. ASSUME NEW j \in 1 .. n
        PROVE  r[j][1] \in 1 .. Len(S2) /\ r[j][2] \in 1 .. S2[r[j][1]].len
    <3>1. q[j][1] \in 1 .. Len(S) /\ q[j][2] \in 1 .. S[q[j][1]].len
      BY <1>9, <2>1 DEF Runs
    <3>2. q[j][1] \in 1 .. Len(S2) /\ S2[q[j][1]] = S[q[j][1]]
      BY <1>2, <1>9, <3>1
    <3> QED BY <1>5, <2>1, <3>1, <3>2
  <2>2. ASSUME NEW i \in 1 .. l
        PROVE  r[n + i][1] \in 1 .. Len(S2) /\ r[n + i][2] \in 1 .. S2[r[n + i][1]].len
    <3>0. k \in Nat /\ k >= 1 /\ Len(S2) = k /\ S2[k].len = l
      BY <1>2, <1>9
    <3>1. r[n + i] = <<k, i>> /\ k \in 1 .. Len(S2) /\ S2[k].len = l
      BY <1>5, <2>2, <3>0
    <3> QED BY <2>2, <3>1
  <2> QED BY <1>6, <2>1, <2>2
<1>10. \A j \in 1 .. Len(r) - 1 : r[j + 1] = ByteAfter(S2, r[j])
  <2>1. ASSUME NEW j \in 1 .. n - 1 PROVE r[j + 1] = ByteAfter(S2, r[j])
    <3>1. j \in 1 .. n /\ j + 1 \in 1 .. n
      BY <1>1, <2>1
    <3>2. r[j] = q[j] /\ r[j + 1] = q[j + 1]
      BY <1>5, <3>1
    <3>3. q[j + 1] = ByteAfter(S, q[j]) /\ q[j][1] \in 1 .. Len(S)
      BY <1>9, <2>1, <3>1 DEF Runs
    <3>4. S2[q[j][1]] = S[q[j][1]]
      BY <1>2, <3>3
    <3> QED BY <3>2, <3>3, <3>4 DEF ByteAfter
  <2>2. ASSUME n > 0 PROVE r[n + 1] = ByteAfter(S2, r[n])
    <3>1. n \in 1 .. n /\ 1 \in 1 .. l /\ Len(S) \in Nat
      BY <1>1, <2>2
    <3>2. r[n] = q[n] /\ r[n + 1] = <<k, 1>>
      BY <1>5, <3>1
    <3>3. q[n] = <<Len(S), S[Len(S)].len>> /\ q[n][1] \in 1 .. Len(S)
      BY <1>9, <2>2, <3>1 DEF Runs
    <3>4. Len(S) \in 1 .. Len(S)
      BY <3>3
    <3>5. S2[Len(S)] = S[Len(S)] /\ S[Len(S)].len \in Nat
      BY <1>2, <3>4 DEF Sized
    <3>6. ~(S[Len(S)].len < S[Len(S)].len)
      BY <3>5
    <3>7. ByteAfter(S2, <<Len(S), S[Len(S)].len>>) = <<Len(S) + 1, 1>>
      BY <3>5, <3>6 DEF ByteAfter
    <3> QED BY <1>9, <3>2, <3>3, <3>7
  <2>3. ASSUME NEW i \in 1 .. l, i < l PROVE r[(n + i) + 1] = ByteAfter(S2, r[n + i])
    <3>1. i + 1 \in 1 .. l /\ (n + i) + 1 = n + (i + 1)
      BY <1>1, <2>3
    <3>2. r[n + i] = <<k, i>> /\ r[n + (i + 1)] = <<k, i + 1>>
      BY <1>5, <2>3, <3>1
    <3>3. S2[k].len = l
      BY <1>2, <1>9
    <3>4. ByteAfter(S2, <<k, i>>) = <<k, i + 1>>
      BY <2>3, <3>3 DEF ByteAfter
    <3> QED BY <3>1, <3>2, <3>4
  <2>4. ASSUME NEW j \in 1 .. Len(r) - 1
        PROVE  j \in 1 .. n - 1 \/ (j = n /\ n > 0) \/ \E i \in 1 .. l : i < l /\ j = n + i
    <3>1. CASE j > n
      <4>0. j \in Int /\ j <= (n + l) - 1
        BY <1>1, <1>4
      <4>1. j - n \in 1 .. l /\ j - n < l /\ j = n + (j - n)
        BY <1>1, <3>1, <4>0
      <4> QED BY <4>1
    <3>2. CASE j <= n
      BY <1>1, <1>4, <3>2
    <3> QED BY <1>1, <3>1, <3>2
  <2> QED BY <2>1, <2>2, <2>3, <2>4
<1>11. r[1] = <<m, 1>>
  <2>1. CASE n > 0
    <3>1. 1 \in 1 .. n
      BY <1>1, <2>1
    <3> QED BY <1>5, <1>9, <2>1, <3>1 DEF Runs
  <2>2. CASE n = 0
    <3>1. 1 \in 1 .. l /\ n + 1 = 1 /\ m = k
      BY <1>1, <1>9, <2>2 DEF Runs
    <3> QED BY <1>5, <3>1
  <2> QED BY <1>1, <2>1, <2>2
<1>12. r[Len(r)] = <<Len(S2), S2[Len(S2)].len>>
  <2>1. l \in 1 .. l /\ Len(r) = n + l
    BY <1>1, <1>4
  <2> QED BY <1>2, <1>5, <1>9, <2>1
<1>13. Len(r) # 0
  BY <1>1, <1>4
<1>14. Runs(r, S2, m)
  BY <1>4, <1>8, <1>10, <1>11, <1>12, <1>13 DEF Runs
<1> QED BY <1>7, <1>14 DEF r, S2, b, k

(* A sequence cut behind its nth element. *)
LEMMA CutSequence ==
    ASSUME NEW X, NEW u \in Seq(X), NEW n \in 1 .. Len(u)
    PROVE  /\ SubSeq(u, 1, n) \in Seq(X) /\ Len(SubSeq(u, 1, n)) = n
           /\ SubSeq(u, n + 1, Len(u)) \in Seq(X)
           /\ SubSeq(u, 1, n) \o SubSeq(u, n + 1, Len(u)) = u
<1>1. Len(u) \in Nat /\ n \in Nat /\ n + 1 \in Int /\ Len(u) \in Int /\ 1 \in Int
  BY LenProperties
<1>2. \A i \in 1 .. Len(u) : u[i] \in X
  BY ElementOfSeq
<1>3. (\A i \in 1 .. n : u[i] \in X) /\ (\A i \in n + 1 .. Len(u) : u[i] \in X)
  BY <1>1, <1>2
<1>4. /\ SubSeq(u, 1, n) \in Seq(X)
      /\ Len(SubSeq(u, 1, n)) = IF 1 <= n THEN n - 1 + 1 ELSE 0
  BY <1>1, <1>3, SubSeqProperties
<1>5. SubSeq(u, n + 1, Len(u)) \in Seq(X)
  BY <1>1, <1>3, SubSeqProperties
<1>6. SubSeq(u, 1, n) \o SubSeq(u, n + 1, Len(u)) = SubSeq(u, 1, Len(u))
  <2>1. 1 \in 1 .. Len(u) + 1 /\ n \in 1 - 1 .. Len(u) /\ Len(u) \in n .. Len(u)
    BY <1>1
  <2> QED BY <2>1, ConcatAdjacentSubSeq
<1>7. SubSeq(u, 1, Len(u)) = u
  BY SubSeqFull
<1>8. Len(SubSeq(u, 1, n)) = n
  <2>1. (IF 1 <= n THEN n - 1 + 1 ELSE 0) = n
    BY <1>1
  <2> QED BY <1>4, <2>1
<1> QED BY <1>4, <1>5, <1>6, <1>7, <1>8, Zenon

(* Without the first of two sequences, the second is left. *)
LEMMA DropFirst ==
    ASSUME NEW X, NEW s \in Seq(X), NEW t \in Seq(X)
    PROVE  SubSeq(s \o t, Len(s) + 1, Len(s \o t)) = t
<1> DEFINE c == s \o t
           v == SubSeq(c, Len(s) + 1, Len(c))
<1>1. Len(s) \in Nat /\ Len(t) \in Nat
  BY LenProperties
<1>2. /\ c \in Seq(X) /\ Len(c) = Len(s) + Len(t)
      /\ \A i \in 1 .. Len(s) + Len(t) : c[i] = IF i <= Len(s) THEN s[i] ELSE t[i - Len(s)]
  BY ConcatProperties
<1> HIDE DEF c
<1>3. \A i \in Len(s) + 1 .. Len(c) : c[i] \in X
  <2>1. \A i \in 1 .. Len(c) : c[i] \in X
    BY <1>2, ElementOfSeq
  <2> QED BY <1>1, <1>2, <2>1
<1>4. /\ v \in Seq(X)
      /\ Len(v) = IF Len(s) + 1 <= Len(c) THEN Len(c) - (Len(s) + 1) + 1 ELSE 0
      /\ \A i \in 1 .. Len(c) - (Len(s) + 1) + 1 : v[i] = c[Len(s) + 1 + i - 1]
  <2>1. Len(s) + 1 \in Int /\ Len(c) \in Int
    BY <1>1, <1>2
  <2> QED BY <1>3, <2>1, SubSeqProperties
<1> HIDE DEF v
<1>5. Len(v) = Len(t)
  BY <1>1, <1>2, <1>4
<1>6. ASSUME NEW i \in 1 .. Len(v) PROVE v[i] = t[i]
  <2>1. i \in 1 .. Len(c) - (Len(s) + 1) + 1 /\ Len(s) + 1 + i - 1 = Len(s) + i
    BY <1>1, <1>2, <1>5
  <2>2. v[i] = c[Len(s) + i]
    BY <1>4, <2>1
  <2>3. Len(s) + i \in 1 .. Len(s) + Len(t) /\ ~(Len(s) + i <= Len(s)) /\ (Len(s) + i) - Len(s) = i
    BY <1>1, <1>5
  <2>4. c[Len(s) + i] = t[(Len(s) + i) - Len(s)]
    BY <1>2, <2>3
  <2> QED BY <2>2, <2>3, <2>4
<1>7. v = t
  BY <1>4, <1>5, <1>6, SeqEqual
<1> QED BY <1>7 DEF v, c

-----------------------------------------------------------------------------
(* Wire: the invariant *)

ByteSeqs == Seq(Nat \X Nat)
Coming == (got \o stream) \o unwritten
Current == Len(received) + 1
Allowed(i) == i \in 1 .. Len(sent) /\ sent[i].len \in PKT .. MaxPacket

(* Concatenation of bytes. *)
LEMMA BytesJoin ==
    ASSUME NEW s \in ByteSeqs, NEW t \in ByteSeqs, NEW u \in ByteSeqs
    PROVE  s \o t \in ByteSeqs /\ (s \o t) \o u = s \o (t \o u)
<1> DEFINE lhs == (s \o t) \o u
           rhs == s \o (t \o u)
<1>1. s \o t \in ByteSeqs /\ lhs \in ByteSeqs /\ rhs \in ByteSeqs
  BY DEF ByteSeqs
<1>2. Len(lhs) = Len(rhs)
  BY DEF ByteSeqs
<1>3. \A i \in 1 .. Len(lhs) : lhs[i] = rhs[i]
  BY DEF ByteSeqs
<1> QED BY <1>1, <1>2, <1>3, SeqEqual DEF ByteSeqs

(* All that is underway is the rest of what was sent; no more of a packet  *)
(* is read than its length before that is known to be allowed.             *)
WireInv ==
    /\ Sized(sent)
    /\ got \in ByteSeqs /\ stream \in ByteSeqs /\ unwritten \in ByteSeqs
    /\ received \in Seq(ByteSeqs)
    /\ Runs(Coming, sent, Current)
    /\ \A i \in 1 .. Len(received) : Allowed(i) /\ received[i] = Bytes(i, sent[i])
    /\ Len(got) > LEN => Allowed(Current) /\ Len(got) < sent[Current].len
    /\ failed => Current \in 1 .. Len(sent) /\ ~Allowed(Current)

(* What the reader takes for the length is the length of the packet that  *)
(* it is reading, or one that is refused.                                  *)
LEMMA HeaderRead ==
    ASSUME WireAssumption, WireInv, Len(got) >= LEN
    PROVE  /\ Current \in 1 .. Len(sent) /\ sent[Current].len \in Nat \ {0}
           /\ TooBig <=> ~Allowed(Current)
           /\ ~TooBig => le32_to_cpu(got) = sent[Current].len
<1> DEFINE m == Current
           q == Coming
           l == sent[m].len
<1>1. /\ LEN \in Nat \ {0} /\ PKT \in Nat /\ LEN < PKT /\ MaxPacket \in Nat
      /\ Len(received) \in Nat /\ m \in Nat /\ Len(got) \in Nat
      /\ got \in ByteSeqs /\ stream \in ByteSeqs /\ unwritten \in ByteSeqs
  BY LenProperties DEF WireAssumption, WireInv, Current
<1>2. Sized(sent) /\ Runs(q, sent, m)
  BY DEF WireInv
<1>3. Len(got) <= Len(q) /\ \A k \in 1 .. Len(got) : q[k] = got[k]
  <2> DEFINE g == got \o stream
  <2>1. /\ g \in ByteSeqs /\ Len(g) = Len(got) + Len(stream)
        /\ \A i \in 1 .. Len(got) + Len(stream) :
             g[i] = IF i <= Len(got) THEN got[i] ELSE stream[i - Len(got)]
    BY <1>1, ConcatProperties DEF ByteSeqs
  <2> HIDE DEF g
  <2>6. g \in Seq(Nat \X Nat) /\ unwritten \in Seq(Nat \X Nat)
    BY <1>1, <2>1 DEF ByteSeqs
  <2>2. /\ g \o unwritten \in Seq(Nat \X Nat)
        /\ Len(g \o unwritten) = Len(g) + Len(unwritten)
        /\ \A i \in 1 .. Len(g) + Len(unwritten) :
             (g \o unwritten)[i] = IF i <= Len(g) THEN g[i] ELSE unwritten[i - Len(g)]
    BY <2>6, ConcatProperties
  <2>3. Len(stream) \in Nat /\ Len(unwritten) \in Nat /\ Len(g) \in Nat /\ q = g \o unwritten
    BY <1>1, <2>1, LenProperties DEF ByteSeqs, g, Coming
  <2> HIDE DEF q
  <2>4. Len(got) <= Len(q)
    BY <1>1, <2>1, <2>2, <2>3
  <2>5. ASSUME NEW k \in 1 .. Len(got) PROVE q[k] = got[k]
    <3>0. Len(got) \in Nat /\ Len(g) = Len(got) + Len(stream)
      BY <1>1, <2>1
    <3>1. /\ k \in 1 .. Len(g) + Len(unwritten) /\ k <= Len(g)
          /\ k \in 1 .. Len(got) + Len(stream) /\ k <= Len(got)
      BY <2>3, <3>0
    <3> QED BY <2>1, <2>2, <2>3, <3>1
  <2> QED BY <2>4, <2>5
<1> HIDE DEF q, m
<1>9. Len(q) \in Nat
  BY <1>2, LenProperties DEF Runs
<1>14. /\ LEN \in Nat /\ LEN >= 1 /\ Len(got) \in Nat /\ Len(q) \in Nat
       /\ LEN <= Len(got) /\ Len(got) <= Len(q) /\ PKT \in Nat /\ LEN < PKT
  BY <1>1, <1>3, <1>9
<1>4. /\ m \in 1 .. Len(sent) /\ sent[m].len \in Nat \ {0} /\ sent[m].len <= Len(q)
      /\ sent[m].len = Len(q) => m = Len(sent)
      /\ sent[m].len < Len(q) => q[sent[m].len + 1] = <<m + 1, 1>>
  <2>1. Len(q) > 0
    BY <1>1, <1>3, <1>9
  <2> QED BY <1>1, <1>2, <2>1, RunWhole
<1>5. \A j \in 1 .. Len(q) : j <= sent[m].len => q[j] = <<m, j>>
  BY <1>1, <1>2, RunStart
<1> HIDE DEF l
<1>6. l \in Nat \ {0} /\ l = sent[m].len
  BY <1>4 DEF l
<1>7. got[1][1] = m
  <2>1. 1 \in 1 .. Len(q) /\ 1 \in 1 .. Len(got) /\ 1 <= l
    BY <1>6, <1>14
  <2>2. got[1] = <<m, 1>>
    BY <1>3, <1>5, <1>6, <2>1
  <2> QED BY <2>2
<1>8. LEN <= l => le32_to_cpu(got) = l
  <2> SUFFICES ASSUME LEN <= l PROVE le32_to_cpu(got) = l
    OBVIOUS
  <2>1. ASSUME NEW k \in 1 .. LEN PROVE got[k] = <<m, k>>
    <3>1. k \in 1 .. Len(got) /\ k \in 1 .. Len(q) /\ k <= l
      BY <1>6, <1>14
    <3> QED BY <1>3, <1>5, <1>6, <3>1
  <2> QED BY <1>6, <1>7, <2>1 DEF le32_to_cpu
<1>10. l < LEN => le32_to_cpu(got) = MaxPacket + 1
  <2> SUFFICES ASSUME l < LEN PROVE le32_to_cpu(got) = MaxPacket + 1
    OBVIOUS
  <2>0. l \in Nat /\ l + 1 <= LEN
    BY <1>6, <1>14
  <2>1. l + 1 \in 1 .. LEN /\ l + 1 \in 1 .. Len(got) /\ l < Len(q)
    BY <1>14, <2>0
  <2>2. got[l + 1] = <<m + 1, 1>>
    BY <1>3, <1>4, <1>6, <2>1
  <2>3. m + 1 # m
    BY <1>1
  <2>4. got[l + 1] # <<m, l + 1>>
    BY <2>2, <2>3
  <2> QED BY <1>7, <2>1, <2>4 DEF le32_to_cpu
<1>11. TooBig <=> le32_to_cpu(got) > MaxPacket \/ le32_to_cpu(got) < PKT
  BY DEF TooBig
<1>12. Allowed(m) <=> l \in PKT .. MaxPacket
  BY <1>4, <1>6 DEF Allowed
<1>13. /\ TooBig <=> ~Allowed(m)
       /\ ~TooBig => le32_to_cpu(got) = l
  <2>1. CASE LEN <= l
    BY <1>1, <1>6, <1>8, <1>11, <1>12, <2>1
  <2>2. CASE l < LEN
    BY <1>1, <1>6, <1>10, <1>11, <1>12, <2>2
  <2> QED BY <1>14, <1>6, <2>1, <2>2
<1> QED BY <1>4, <1>6, <1>13 DEF m

LEMMA StreamInit == WireAssumption /\ WireInit => WireInv
<1> SUFFICES ASSUME WireAssumption, WireInit PROVE WireInv
  OBVIOUS
<1>1. /\ sent = <<>> /\ unwritten = <<>> /\ stream = <<>> /\ got = <<>>
      /\ received = <<>> /\ failed = FALSE
  BY DEF WireInit
<1>2. (<<>> \o <<>>) \o <<>> = <<>>
  OBVIOUS
<1>3. Coming = <<>> /\ Current = 1
  BY <1>1, <1>2 DEF Coming, Current
<1>4. Runs(<<>>, <<>>, 1)
  BY DEF Runs
<1>5. ~(Len(<<>>) > LEN)
  BY DEF WireAssumption
<1> QED BY <1>1, <1>3, <1>4, <1>5 DEF WireInv, Sized, ByteSeqs

LEMMA StreamSend == WireAssumption /\ WireInv /\ peer_write_packet => WireInv'
<1> SUFFICES ASSUME WireAssumption, WireInv, peer_write_packet PROVE WireInv'
  OBVIOUS
<1>1. PICK p \in Packets : sent' = Append(sent, p) /\ unwritten' = Bytes(Len(sent) + 1, p)
  BY DEF peer_write_packet
<1>2. /\ unwritten = <<>> /\ stream' = stream /\ got' = got
      /\ received' = received /\ failed' = failed
  BY DEF peer_write_packet
<1>3. p.len \in Nat \ {0}
  BY PacketFields
<1>4. /\ Sized(sent) /\ Runs(Coming, sent, Current)
      /\ got \in ByteSeqs /\ stream \in ByteSeqs /\ received \in Seq(ByteSeqs)
  BY DEF WireInv
<1>5. Current \in Nat /\ Len(sent) \in Nat /\ Len(received) \in Nat /\ Current = Len(received) + 1
  BY <1>4, LenProperties DEF Current, Sized
<1>6. /\ Sized(sent')
      /\ Runs(Coming \o unwritten', sent', Current)
  BY <1>1, <1>3, <1>4, <1>5, RunAppend
<1>7. Coming = got \o stream
  <2>1. got \o stream \in Seq(Nat \X Nat)
    BY <1>4, ConcatProperties DEF ByteSeqs
  <2> QED BY <1>2, <2>1, ConcatEmptySeq DEF Coming
<1>8. Coming' = Coming \o unwritten' /\ Current' = Current
  BY <1>2, <1>7 DEF Coming, Current
<1>9. unwritten' \in ByteSeqs
  <2>1. p.len \in Nat /\ Len(sent) + 1 \in Nat
    BY <1>3, <1>5
  <2> QED BY <1>1, <2>1, BytesOfPacket DEF ByteSeqs
<1>10. /\ Len(sent') = Len(sent) + 1
       /\ \A i \in 1 .. Len(sent) : sent'[i] = sent[i]
  BY <1>1, <1>4, AppendProperties DEF Sized
<1>11. \A i \in 1 .. Len(sent) :
         /\ i \in 1 .. Len(sent') /\ sent'[i] = sent[i]
         /\ Allowed(i)' <=> Allowed(i)
  BY <1>5, <1>10 DEF Allowed
<1>12. \A i \in 1 .. Len(received) : Allowed(i)' /\ received'[i] = Bytes(i, sent'[i])
  <2> SUFFICES ASSUME NEW i \in 1 .. Len(received)
               PROVE  Allowed(i)' /\ received'[i] = Bytes(i, sent'[i])
    OBVIOUS
  <2>1. Allowed(i) /\ received[i] = Bytes(i, sent[i])
    BY DEF WireInv
  <2>2. i \in 1 .. Len(sent)
    BY <2>1 DEF Allowed
  <2> QED BY <1>2, <1>11, <2>1, <2>2
<1>13. Len(got) > LEN => Allowed(Current)' /\ Len(got) < sent'[Current].len
  <2> SUFFICES ASSUME Len(got) > LEN PROVE Allowed(Current)' /\ Len(got) < sent'[Current].len
    OBVIOUS
  <2>1. Allowed(Current) /\ Len(got) < sent[Current].len
    BY DEF WireInv
  <2>2. Current \in 1 .. Len(sent)
    BY <2>1 DEF Allowed
  <2>3. sent'[Current] = sent[Current] /\ Current \in 1 .. Len(sent')
    BY <1>11, <2>2
  <2> QED BY <1>8, <2>1, <2>2, <2>3 DEF Allowed
<1>14. failed => Current \in 1 .. Len(sent') /\ ~Allowed(Current)'
  <2> SUFFICES ASSUME failed PROVE Current \in 1 .. Len(sent') /\ ~Allowed(Current)'
    OBVIOUS
  <2>1. Current \in 1 .. Len(sent) /\ ~Allowed(Current)
    BY DEF WireInv
  <2>2. sent'[Current] = sent[Current] /\ Current \in 1 .. Len(sent')
    BY <1>11, <2>1
  <2> QED BY <1>8, <2>1, <2>2 DEF Allowed
<1> QED
  BY <1>2, <1>4, <1>6, <1>8, <1>9, <1>12, <1>13, <1>14 DEF WireInv

LEMMA StreamWrite == WireAssumption /\ WireInv /\ do_write => WireInv'
<1> SUFFICES ASSUME WireAssumption, WireInv, do_write PROVE WireInv'
  OBVIOUS
<1>1. PICK n \in 1 .. Len(unwritten) :
        /\ stream' = stream \o SubSeq(unwritten, 1, n)
        /\ unwritten' = SubSeq(unwritten, n + 1, Len(unwritten))
  BY DEF do_write
<1>2. sent' = sent /\ got' = got /\ received' = received /\ failed' = failed
  BY DEF do_write
<1>3. got \in ByteSeqs /\ stream \in ByteSeqs /\ unwritten \in ByteSeqs
  BY DEF WireInv
<1> DEFINE a == SubSeq(unwritten, 1, n)
           b == SubSeq(unwritten, n + 1, Len(unwritten))
<1>4. a \in ByteSeqs /\ b \in ByteSeqs /\ a \o b = unwritten
  BY <1>3, CutSequence DEF ByteSeqs
<1> HIDE DEF a, b
<1>5. stream' = stream \o a /\ unwritten' = b
  BY <1>1 DEF a, b
<1>6. stream' \in ByteSeqs /\ unwritten' \in ByteSeqs /\ got \o stream \in ByteSeqs
  BY <1>3, <1>4, <1>5, ConcatProperties DEF ByteSeqs
<1>7. Coming' = Coming
  <2>0. \A s, t, u \in ByteSeqs : (s \o t) \o u = s \o (t \o u)
    BY BytesJoin
  <2>1. (got \o stream) \o a = got \o (stream \o a)
    <3>1. got \in ByteSeqs /\ stream \in ByteSeqs /\ a \in ByteSeqs
      BY <1>3, <1>4
    <3> QED BY <2>0, <3>1
  <2>2. ((got \o stream) \o a) \o b = (got \o stream) \o (a \o b)
    <3>1. got \o stream \in ByteSeqs /\ a \in ByteSeqs /\ b \in ByteSeqs
      BY <1>4, <1>6
    <3> QED BY <2>0, <3>1
  <2> QED BY <1>2, <1>4, <1>5, <2>1, <2>2 DEF Coming
<1>8. Current' = Current
  BY <1>2 DEF Current
<1> QED BY <1>2, <1>6, <1>7, <1>8 DEF WireInv, Allowed

LEMMA StreamFail == WireAssumption /\ WireInv /\ read_packet_fail => WireInv'
<1> SUFFICES ASSUME WireAssumption, WireInv, read_packet_fail PROVE WireInv'
  OBVIOUS
<1>1. /\ TooBig /\ sent' = sent /\ unwritten' = unwritten /\ stream' = stream
      /\ got' = got /\ received' = received
  BY DEF read_packet_fail
<1>2. Len(got) >= LEN
  BY <1>1 DEF TooBig
<1>3. Current \in 1 .. Len(sent) /\ ~Allowed(Current)
  BY <1>1, <1>2, HeaderRead
<1> QED BY <1>1, <1>3 DEF WireInv, Allowed, Coming, Current

LEMMA StreamRead == WireAssumption /\ WireInv /\ read_packet_part => WireInv'
<1> SUFFICES ASSUME WireAssumption, WireInv, read_packet_part PROVE WireInv'
  OBVIOUS
<1>1. PICK n \in 1 .. Wanted :
        /\ n <= Len(stream)
        /\ stream' = SubSeq(stream, n + 1, Len(stream))
        /\ got' = IF Len(got) >= LEN /\ n = Wanted THEN <<>> ELSE got \o SubSeq(stream, 1, n)
        /\ received' = IF Len(got) >= LEN /\ n = Wanted
                       THEN Append(received, got \o SubSeq(stream, 1, n)) ELSE received
  BY DEF read_packet_part
<1>2. ~TooBig /\ ~failed /\ sent' = sent /\ unwritten' = unwritten /\ failed' = failed
  BY DEF read_packet_part
<1>3. /\ Sized(sent) /\ Runs(Coming, sent, Current)
      /\ got \in ByteSeqs /\ stream \in ByteSeqs /\ unwritten \in ByteSeqs
      /\ received \in Seq(ByteSeqs)
  BY DEF WireInv
<1>4. /\ Len(got) \in Nat /\ Len(stream) \in Nat /\ Len(received) \in Nat /\ Current \in Nat
      /\ LEN \in Nat /\ n \in Nat /\ n >= 1 /\ n <= Len(stream) /\ n \in 1 .. Len(stream)
  <2>1. Len(got) \in Nat /\ Len(stream) \in Nat /\ Len(received) \in Nat /\ Current \in Nat
    BY <1>3, LenProperties DEF ByteSeqs, Current
  <2>2. LEN \in Nat /\ n \in Int /\ n >= 1 /\ n <= Len(stream)
    BY <1>1 DEF WireAssumption
  <2> QED BY <2>1, <2>2
<1> DEFINE a == SubSeq(stream, 1, n)
           b == SubSeq(stream, n + 1, Len(stream))
           g == got \o a
           rest == b \o unwritten
<1>5. a \in ByteSeqs /\ Len(a) = n /\ b \in ByteSeqs /\ a \o b = stream
  BY <1>3, <1>4, CutSequence DEF ByteSeqs
<1>6. stream' = b
  BY <1>1
<1> HIDE DEF a, b
<1>7. /\ g \in ByteSeqs /\ Len(g) = Len(got) + n
      /\ rest \in ByteSeqs
  <2>1. got \o a \in Seq(Nat \X Nat) /\ Len(got \o a) = Len(got) + Len(a)
    BY <1>3, <1>5, ConcatProperties DEF ByteSeqs
  <2>2. b \o unwritten \in Seq(Nat \X Nat)
    BY <1>3, <1>5, ConcatProperties DEF ByteSeqs
  <2> QED BY <1>5, <2>1, <2>2 DEF ByteSeqs
<1>8. Coming = (g \o b) \o unwritten /\ (g \o b) \o unwritten = g \o rest
  <2>0. \A s, t, u \in ByteSeqs : (s \o t) \o u = s \o (t \o u)
    BY BytesJoin
  <2>1. g \o b = got \o (a \o b)
    <3>1. got \in ByteSeqs /\ a \in ByteSeqs /\ b \in ByteSeqs
      BY <1>3, <1>5
    <3> QED BY <2>0, <3>1
  <2>2. (g \o b) \o unwritten = g \o rest
    <3>1. g \in ByteSeqs /\ b \in ByteSeqs /\ unwritten \in ByteSeqs
      BY <1>3, <1>5, <1>7
    <3> HIDE DEF g
    <3> QED BY <2>0, <3>1
  <2>3. got \o stream = g \o b
    BY <1>5, <2>1
  <2> HIDE DEF g, rest
  <2>4. Coming = (g \o b) \o unwritten
    BY <2>3 DEF Coming
  <2> QED BY <2>2, <2>4
<1>9. /\ got' = IF Len(got) >= LEN /\ n = Wanted THEN <<>> ELSE g
      /\ received' = IF Len(got) >= LEN /\ n = Wanted THEN Append(received, g) ELSE received
  BY <1>1 DEF a
<1> HIDE DEF g, rest
<1>10. ASSUME got' = g, received' = received,
              Len(g) > LEN => Allowed(Current) /\ Len(g) < sent[Current].len
       PROVE  WireInv'
  <2>1. Coming' = Coming /\ Current' = Current
    BY <1>2, <1>6, <1>8, <1>10 DEF Coming, Current
  <2>2. \A i : Allowed(i)' <=> Allowed(i)
    BY <1>2 DEF Allowed
  <2>3. stream' \in ByteSeqs /\ got' \in ByteSeqs
    BY <1>5, <1>6, <1>7, <1>10
  <2>4. \A i \in 1 .. Len(received) : Allowed(i) /\ received[i] = Bytes(i, sent[i])
    BY DEF WireInv
  <2>5. Allowed(Current)' <=> Allowed(Current)
    BY <1>2, <1>10 DEF Allowed, Current
  <2> QED BY <1>2, <1>3, <1>10, <2>1, <2>2, <2>3, <2>4, <2>5 DEF WireInv
<1>11. CASE Len(got) < LEN
  <2>1. Wanted = LEN - Len(got) /\ ~(Len(got) >= LEN)
    BY <1>4, <1>11 DEF Wanted
  <2>2. n <= LEN - Len(got)
    BY <1>1, <1>4, <2>1
  <2>3. ~(Len(g) > LEN)
    BY <1>4, <1>7, <2>2
  <2> QED BY <1>9, <1>10, <2>1, <2>3
<1>12. CASE Len(got) >= LEN
  <2> DEFINE m == Current
             l == sent[m].len
  <2>1. m \in 1 .. Len(sent) /\ l \in Nat \ {0} /\ Allowed(m) /\ le32_to_cpu(got) = l
    BY <1>2, <1>12, HeaderRead
  <2>2. Wanted = l - Len(got)
    BY <1>4, <1>12, <2>1 DEF Wanted
  <2>3. Len(got) + n <= l
    <3> HIDE DEF l
    <3> QED BY <1>1, <1>4, <2>1, <2>2
  <2>4. CASE n # Wanted
    <3>1. Len(g) < l
      <4> HIDE DEF l
      <4> QED BY <1>4, <1>7, <2>1, <2>2, <2>3, <2>4
    <3> QED BY <1>9, <1>10, <2>1, <2>4, <3>1
  <2>5. CASE n = Wanted
    <3>1. got' = <<>> /\ received' = Append(received, g)
      BY <1>9, <1>12, <2>5
    <3>2. Len(g) = l
      <4> HIDE DEF l
      <4> QED BY <1>4, <1>7, <2>1, <2>2, <2>5
    <3>3. Coming = g \o rest
      BY <1>8
    <3>4. /\ g \o rest \in Seq(Nat \X Nat) /\ Len(g \o rest) = Len(g) + Len(rest)
          /\ \A i \in 1 .. Len(g) + Len(rest) :
               (g \o rest)[i] = IF i <= Len(g) THEN g[i] ELSE rest[i - Len(g)]
      BY <1>7, ConcatProperties DEF ByteSeqs
    <3>5. Len(rest) \in Nat /\ Len(g) \in Nat
      BY <1>7, LenProperties DEF ByteSeqs
    <3>6. g = Bytes(m, sent[m])
      <4>1. /\ Bytes(m, sent[m]) \in Seq(Nat \X Nat) /\ Len(Bytes(m, sent[m])) = l
            /\ \A i \in 1 .. l : Bytes(m, sent[m])[i] = <<m, i>>
        BY <1>4, <2>1, BytesOfPacket
      <4>2. ASSUME NEW i \in 1 .. Len(g) PROVE g[i] = Bytes(m, sent[m])[i]
        <5>1. i \in 1 .. Len(g) + Len(rest) /\ i <= Len(g)
          BY <3>5
        <5>2. Coming[i] = g[i] /\ i \in 1 .. Len(Coming) /\ i <= sent[m].len
          BY <3>2, <3>3, <3>4, <5>1
        <5>3. Coming[i] = <<m, i>>
          BY <1>3, <1>4, <5>2, RunStart
        <5>4. i \in 1 .. l
          BY <3>2
        <5> QED BY <4>1, <5>2, <5>3, <5>4
      <4>3. g \in Seq(Nat \X Nat)
        BY <1>7 DEF ByteSeqs
      <4> QED BY <3>2, <4>1, <4>2, <4>3, SeqEqual
    <3>7. Runs(rest, sent, m + 1)
      <4>1. Len(Coming) > 0
        <5>1. Len(Coming) = Len(g) + Len(rest) /\ Len(g) > 0
          BY <2>1, <3>2, <3>3, <3>4
        <5> QED BY <3>5, <5>1
      <4>2. Runs(SubSeq(Coming, sent[m].len + 1, Len(Coming)), sent, m + 1)
        BY <1>3, <1>4, <4>1, RunDrop
      <4>3. SubSeq(g \o rest, Len(g) + 1, Len(g \o rest)) = rest
        BY <1>7, DropFirst DEF ByteSeqs
      <4> QED BY <3>2, <3>3, <4>2, <4>3
    <3>8. Coming' = rest
      <4>1. Coming' = (<<>> \o b) \o unwritten
        BY <1>2, <1>6, <3>1 DEF Coming
      <4>2. <<>> \o b = b
        BY <1>5, ConcatEmptySeq DEF ByteSeqs
      <4> QED BY <4>1, <4>2 DEF rest
    <3>9. /\ received' \in Seq(ByteSeqs) /\ Len(received') = Len(received) + 1
          /\ \A i \in 1 .. Len(received) : received'[i] = received[i]
          /\ received'[Len(received) + 1] = g
      BY <1>3, <1>7, <3>1, AppendProperties
    <3>10. Current' = m + 1
      BY <3>9 DEF Current
    <3>11. \A i \in 1 .. Len(received') : Allowed(i)' /\ received'[i] = Bytes(i, sent'[i])
      <4>1. ASSUME NEW i \in 1 .. Len(received)
            PROVE  Allowed(i)' /\ received'[i] = Bytes(i, sent'[i])
        <5>1. Allowed(i) /\ received[i] = Bytes(i, sent[i])
          BY <4>1 DEF WireInv
        <5> QED BY <1>2, <3>9, <4>1, <5>1 DEF Allowed
      <4>2. Allowed(m) /\ received'[m] = Bytes(m, sent'[m]) /\ m = Len(received) + 1
        BY <1>2, <2>1, <3>6, <3>9 DEF Current
      <4>3. \A i \in 1 .. Len(received') : i \in 1 .. Len(received) \/ i = m
        <5>1. Len(received') = Len(received) + 1
          BY <3>9
        <5> HIDE DEF m
        <5> QED BY <1>4, <4>2, <5>1
      <4>4. \A i : Allowed(i) => i \in 1 .. Len(sent') /\ sent'[i].len \in PKT .. MaxPacket
        BY <1>2 DEF Allowed
      <4> HIDE DEF m
      <4>5. ASSUME NEW i \in 1 .. Len(received'), i = m
            PROVE  Allowed(i)' /\ received'[i] = Bytes(i, sent'[i])
        BY <4>2, <4>4, <4>5 DEF Allowed
      <4> QED BY <4>1, <4>3, <4>5
    <3>12. ~(Len(got') > LEN)
      BY <1>4, <3>1
    <3>13. got' \in ByteSeqs /\ stream' \in ByteSeqs
      BY <1>5, <1>6, <3>1 DEF ByteSeqs
    <3> QED
      BY <1>2, <1>3, <3>7, <3>8, <3>9, <3>10, <3>11, <3>12, <3>13 DEF WireInv
  <2> QED BY <2>4, <2>5
<1> QED BY <1>4, <1>11, <1>12

LEMMA StreamStep == WireAssumption /\ WireInv /\ [WireNext]_wireVars => WireInv'
<1> SUFFICES ASSUME WireAssumption, WireInv, [WireNext]_wireVars PROVE WireInv'
  OBVIOUS
<1>1. CASE UNCHANGED wireVars
  BY <1>1 DEF wireVars, WireInv, Coming, Current, Allowed
<1> QED BY <1>1, StreamSend, StreamWrite, StreamRead, StreamFail DEF WireNext

LEMMA WireInvHolds == WireAssumption /\ WireInv => PacketsIntact
<1> SUFFICES ASSUME WireAssumption, WireInv PROVE PacketsIntact
  OBVIOUS
<1>1. DOMAIN received = 1 .. Len(received) /\ DOMAIN sent = 1 .. Len(sent) /\ sent \in Seq(Packets)
  BY LenProperties DEF WireInv, Sized
<1>2. StreamIntact
  <2>1. failed => sent[Len(received) + 1].len \notin PKT .. MaxPacket
    BY DEF WireInv, Allowed, Current
  <2> QED BY <1>1, <2>1 DEF WireInv, StreamIntact
<1>3. CountsFit
  <2> SUFFICES ASSUME NEW i \in DOMAIN sent
               PROVE  LET p == sent[i] IN
                 /\ i \in DOMAIN received /\ Accepted(p) => TrueLength(p) = p.len - PKT
                 /\ p.kind = "block" /\ p.order <= MaxOrder /\ p = marshal_block(p.order, p.count)
                      => (Accepted(p) <=> TrueLength(p) < Word)
                 /\ p.kind # "block" /\ marshal_tx_len(p) # 0 => marshal_tx_len(p) = TrueLength(p)
    BY DEF CountsFit
  <2> DEFINE p == sent[i]
  <2>1. p \in Packets
    BY <1>1, ElementOfSeq
  <2>2. i \in DOMAIN received => p.len \in PKT .. MaxPacket
    BY <1>1 DEF WireInv, Allowed
  <2> HIDE DEF p
  <2>3. /\ p.len \in PKT .. MaxPacket /\ Accepted(p) => TrueLength(p) = p.len - PKT
        /\ p.kind = "block" /\ p.order <= MaxOrder /\ p = marshal_block(p.order, p.count)
             => (Accepted(p) <=> TrueLength(p) < Word)
        /\ p.kind # "block" /\ marshal_tx_len(p) # 0 => marshal_tx_len(p) = TrueLength(p)
    BY <2>1, CountsOfPacket
  <2>4. /\ i \in DOMAIN received /\ Accepted(p) => TrueLength(p) = p.len - PKT
        /\ p.kind = "block" /\ p.order <= MaxOrder /\ p = marshal_block(p.order, p.count)
             => (Accepted(p) <=> TrueLength(p) < Word)
        /\ p.kind # "block" /\ marshal_tx_len(p) # 0 => marshal_tx_len(p) = TrueLength(p)
    BY <2>2, <2>3, Zenon
  <2> QED BY <2>4, Zenon DEF p
<1> QED BY <1>2, <1>3 DEF PacketsIntact

(* Packets arrive as they were sent, however reads and writes cut the      *)
(* stream, the reader gives up on none that is allowed                     *)
(* (read_packet_part()), and what is accepted of one is consistent in      *)
(* spite of the width of size_t (unmarshal_block_into(), unmarshal_tx()).  *)
THEOREM PacketsCorrect ==
    ASSUME WireAssumption PROVE WireSpec => []PacketsIntact
<1>1. WireInit => WireInv
  BY StreamInit
<1>2. WireInv /\ [WireNext]_wireVars => WireInv'
  BY StreamStep
<1>3. WireInv => PacketsIntact
  BY WireInvHolds
<1> QED BY <1>1, <1>2, <1>3, PTL DEF WireSpec
-----------------------------------------------------------------------------
(* Io: the table *)

PlanKinds == {"read", "write", "wait", "always", "close", "none"}
Flags == {"in", "out"}
ConnType == [plan : PlanKinds, duplex : Conns \cup {None}, slot : Nat]
FdType == [who : Conns \cup {Listener}, events : SUBSET Flags,
           revents : SUBSET (Flags \cup {"hup"})]
LoopType ==
    [conn : [Conns -> ConnType], fds : Seq(FdType), num_closing : Int, num_waiting : Int,
     some_always : BOOLEAN, pc : {"top", "finish", "always", "poll", "end"},
     at : Nat, half : {0, 1}]

Wants(s, c) ==
    pollflag(Plan(s, c)) \cup
    (IF Duplex(s, c) = None THEN {} ELSE pollflag(Plan(s, Duplex(s, c))))

(* A connection and its slot name each other; two halves are live together *)
(* only as a duplex, in one slot.                                          *)
SlotExact(s, c) ==
    /\ s.conn[c].slot \in 1 .. Len(s.fds)
    /\ s.fds[s.conn[c].slot].who \in {c, Other(c)}
    /\ Duplex(s, c) = IF Other(c) \in Live(s) THEN Other(c) ELSE None
    /\ Other(c) \in Live(s) => s.conn[Other(c)].slot = s.conn[c].slot

WhoExact(s, n) ==
    \/ s.fds[n].who = Listener /\ s.fds[n].events = {"in"}
    \/ s.fds[n].who \in Live(s) /\ s.conn[s.fds[n].who].slot = n

Shape(s) ==
    /\ s \in LoopType
    /\ \A c \in Conns \ Live(s) : s.conn[c] = Gone
    /\ \A c \in Live(s) : SlotExact(s, c)
    /\ \A n \in 1 .. Len(s.fds) : WhoExact(s, n)

ClosingSet(s) == {c \in Live(s) : Closing(s, c)}
WaitingSet(s) == {n \in 1 .. Len(s.fds) : s.fds[n].events # {}}
Counted(s) ==
    /\ s.num_closing = Cardinality(ClosingSet(s))
    /\ s.num_waiting = Cardinality(WaitingSet(s))

(* The slot x may be out of date: a callback of its connection is running. *)
EventsBut(s, x) ==
    \A c \in Live(s) : s.conn[c].slot # x => s.fds[s.conn[c].slot].events = Wants(s, c)

Table(s, x) == Shape(s) /\ Counted(s) /\ EventsBut(s, x)

(* What a callback of c leaves to the other connections. *)
Step(s, t, c) ==
    /\ t.pc = s.pc /\ t.at = s.at /\ t.half = s.half
    /\ Len(t.fds) >= Len(s.fds)
    /\ \A n \in 1 .. Len(s.fds) :
         t.fds[n].who = s.fds[n].who /\ t.fds[n].revents = s.fds[n].revents
    /\ \A n \in 1 .. Len(t.fds) : n > Len(s.fds) => t.fds[n].revents = {}
    /\ \A e \in Live(s) :
         /\ e \in Live(t) /\ t.conn[e].slot = s.conn[e].slot
         /\ e # c \/ Duplex(s, e) # None => Duplex(t, e) = Duplex(s, e)
         /\ e # c => /\ pollflag(Plan(t, e)) = pollflag(Plan(s, e))
                     /\ Closing(t, e) <=> Closing(s, e)
    /\ \A e \in Live(t) \ Live(s) : t.conn[e].slot > Len(s.fds) \/ ~Closing(t, e)
    /\ s.some_always => t.some_always
    /\ \A e \in Live(t) : Plan(t, e) = "always" =>
         t.some_always \/ (e \in Live(s) /\ Plan(s, e) = "always")

LEMMA HalvesOfConn ==
    ASSUME IoAssumption
    PROVE  /\ None \notin Conns /\ Listener \notin Conns
           /\ \A c \in Conns : Other(c) \in Conns /\ Other(Other(c)) = c /\ Other(c) # c
  BY DEF IoAssumption, None, Listener, Conns, Other

LEMMA ConnsFinite == ASSUME IoAssumption PROVE IsFiniteSet(Conns)
<1>1. IsFiniteSet({1, 2})
  <2>1. IsFiniteSet({}) /\ {1, 2} = ({} \cup {1}) \cup {2}
    BY FS_EmptySet
  <2> QED BY <2>1, FS_AddElement
<1> QED BY <1>1, FS_Product DEF IoAssumption, Conns

(* How a count follows a set that one element joins or leaves. *)
LEMMA SwapElement ==
    ASSUME NEW W, IsFiniteSet(W), NEW n, NEW b \in BOOLEAN, NEW V,
           V = IF b THEN W \cup {n} ELSE W \ {n}
    PROVE  /\ IsFiniteSet(V)
           /\ Cardinality(V) = Cardinality(W) - Count(n \in W) + Count(b)
<1>1. Cardinality(W) \in Nat
  BY FS_CardinalityType
<1>2. /\ IsFiniteSet(W \cup {n})
      /\ Cardinality(W \cup {n}) = IF n \in W THEN Cardinality(W) ELSE Cardinality(W) + 1
  BY FS_AddElement
<1>3. /\ IsFiniteSet(W \ {n})
      /\ Cardinality(W \ {n}) = IF n \in W THEN Cardinality(W) - 1 ELSE Cardinality(W)
  BY FS_RemoveElement
<1>4. CASE b
  BY <1>1, <1>2, <1>4 DEF Count
<1>5. CASE ~b
  BY <1>1, <1>3, <1>5 DEF Count
<1> QED BY <1>4, <1>5

LEMMA SetsFinite ==
    ASSUME IoAssumption, NEW s, Shape(s)
    PROVE  /\ IsFiniteSet(ClosingSet(s)) /\ IsFiniteSet(WaitingSet(s))
           /\ Len(s.fds) \in Nat /\ DOMAIN s.fds = 1 .. Len(s.fds)
           /\ \A n \in 1 .. Len(s.fds) : s.fds[n] \in FdType
<1>1. s.fds \in Seq(FdType)
  BY DEF Shape, LoopType
<1>2. Len(s.fds) \in Nat /\ DOMAIN s.fds = 1 .. Len(s.fds)
  BY <1>1, LenProperties
<1>3. \A n \in 1 .. Len(s.fds) : s.fds[n] \in FdType
  BY <1>1, ElementOfSeq
<1>4. IsFiniteSet(1 .. Len(s.fds))
  BY <1>2, FS_Interval
<1>5. ClosingSet(s) \subseteq Conns /\ WaitingSet(s) \subseteq 1 .. Len(s.fds)
  BY DEF ClosingSet, WaitingSet, Live
<1> QED BY <1>2, <1>3, <1>4, <1>5, ConnsFinite, FS_Subset

(* What set_plan() assigns. *)
PlanSet(s, t, c, p) ==
    LET n == s.conn[c].slot IN
    /\ t \in LoopType
    /\ t.conn = [s.conn EXCEPT ![c].plan = p]
    /\ t.pc = s.pc /\ t.at = s.at /\ t.half = s.half
    /\ t.some_always = (s.some_always \/ p = "always")
    /\ t.num_closing = s.num_closing + Count(p = "close")
    /\ t.num_waiting = s.num_waiting - Count(s.fds[n].events # {}) + Count(Wants(t, c) # {})
    /\ t.fds = [s.fds EXCEPT ![n].events = Wants(t, c)]

LEMMA SetPlanFields ==
    ASSUME NEW s \in LoopType, NEW c \in Conns, s.conn[c].slot \in 1 .. Len(s.fds),
           NEW p \in PlanKinds
    PROVE  PlanSet(s, set_plan(s, c, p), c, p)
<1> DEFINE n == s.conn[c].slot
           t == set_plan(s, c, p)
           f == [s.conn EXCEPT ![c].plan = p]
           s1 == [s EXCEPT !.conn = f]
           w == Wants(s1, c)
           g == [s.fds EXCEPT ![n].events = w]
           b == s.some_always \/ p = "always"
           i == s.num_closing + Count(p = "close")
           j == s.num_waiting - Count(s.fds[n].events # {}) + Count(w # {})
<1>1. f \in [Conns -> ConnType] /\ f[c].slot = n /\ f[c].plan = p
  BY DEF LoopType, ConnType
<1>2. s1 = [s EXCEPT !.conn = f] /\ s1 \in LoopType /\ s1.conn = f /\ s1.fds = s.fds
      /\ s1.num_waiting = s.num_waiting /\ s1.num_closing = s.num_closing
      /\ s1.some_always = s.some_always
  <2> HIDE DEF f
  <2> QED BY <1>1 DEF LoopType
<1>3. w \in SUBSET Flags
  BY DEF Wants, pollflag, Flags
<1>4. t = [s1 EXCEPT !.num_waiting = j, !.fds = g, !.num_closing = i, !.some_always = b]
  <2> HIDE DEF s1, f
  <2>1. s1.conn[c].slot = n /\ Plan(s1, c) = p /\ (Closing(s1, c) <=> p = "close")
    BY <1>1, <1>2 DEF Plan, Closing
  <2>2. t = backend_plan_changed(s1, c)
    BY <1>2 DEF set_plan, f, s1
  <2> HIDE DEF t
  <2>3. t = [s1 EXCEPT !.num_waiting = @ - Count(s1.fds[n].events # {}) + Count(w # {}),
                       !.fds[n].events = w,
                       !.num_closing = @ + Count(Closing(s1, c)),
                       !.some_always = @ \/ Plan(s1, c) = "always"]
    <3>1. w = pollflag(Plan(s1, c)) \cup
              (IF Duplex(s1, c) = None THEN {} ELSE pollflag(Plan(s1, Duplex(s1, c))))
      BY DEF Wants
    <3> HIDE DEF w, n
    <3> QED BY <2>1, <2>2, <3>1, Zenon DEF backend_plan_changed
  <2> HIDE DEF w, n
  <2>4. j = s1.num_waiting - Count(s1.fds[n].events # {}) + Count(w # {})
    BY <1>2
  <2>5. g = [s1.fds EXCEPT ![n].events = w]
    BY <1>2
  <2>6. i = s1.num_closing + Count(Closing(s1, c))
    BY <1>2, <2>1 DEF Count
  <2>7. b = (s1.some_always \/ Plan(s1, c) = "always")
    BY <1>2, <2>1, Zenon
  <2> HIDE DEF j, g, i, b
  <2> QED BY <2>3, <2>4, <2>5, <2>6, <2>7
<1>5. g \in Seq(FdType)
  <2> HIDE DEF w, n
  <2>0. n \in 1 .. Len(s.fds)
    BY DEF n
  <2>1. s.fds \in Seq(FdType)
    BY DEF LoopType
  <2>3. s.fds[n] \in FdType
    BY <2>0, <2>1, ElementOfSeq
  <2>2. [s.fds[n] EXCEPT !.events = w] \in FdType
    BY <1>3, <2>3 DEF FdType
  <2> QED BY <2>0, <2>1, <2>2, ExceptSeq
<1>6. b \in BOOLEAN /\ i \in Int /\ j \in Int
  BY DEF LoopType, Count
<1> HIDE DEF b, i, j, g, w, s1, f, t
<1>7. /\ t \in LoopType
      /\ t.conn = f /\ t.fds = g /\ t.num_waiting = j /\ t.num_closing = i /\ t.some_always = b
      /\ t.pc = s.pc /\ t.at = s.at /\ t.half = s.half
  BY <1>1, <1>2, <1>4, <1>5, <1>6 DEF LoopType
<1>8. Wants(t, c) = w
  BY <1>2, <1>7 DEF Wants, w, Plan, Duplex
<1> QED BY <1>7, <1>8 DEF b, i, j, g, f, t, PlanSet

(* What set_plan() leaves alone. *)
LEMMA SetPlanFrame ==
    ASSUME IoAssumption, NEW s, NEW c \in Live(s), Shape(s), NEW p \in PlanKinds
    PROVE  LET t == set_plan(s, c, p) IN
           /\ Live(t) = Live(s)
           /\ \A e \in Conns : /\ t.conn[e].slot = s.conn[e].slot
                               /\ Duplex(t, e) = Duplex(s, e)
                               /\ e # c => Plan(t, e) = Plan(s, e)
           /\ Plan(t, c) = p
           /\ t.pc = s.pc /\ t.at = s.at /\ t.half = s.half
           /\ t.some_always = (s.some_always \/ p = "always")
           /\ Len(t.fds) = Len(s.fds)
           /\ \A n \in 1 .. Len(s.fds) :
                /\ t.fds[n].who = s.fds[n].who /\ t.fds[n].revents = s.fds[n].revents
                /\ t.fds[n].events = IF n = s.conn[c].slot THEN Wants(t, c) ELSE s.fds[n].events
<1> DEFINE t == set_plan(s, c, p)
           k == s.conn[c].slot
<1>1. s \in LoopType /\ c \in Conns /\ k \in 1 .. Len(s.fds) /\ SlotExact(s, c)
  BY DEF Shape, SlotExact, Live
<1>2. /\ t \in LoopType
      /\ t.conn = [s.conn EXCEPT ![c].plan = p]
      /\ t.pc = s.pc /\ t.at = s.at /\ t.half = s.half
      /\ t.some_always = (s.some_always \/ p = "always")
      /\ t.fds = [s.fds EXCEPT ![k].events = Wants(t, c)]
  <2>1. PlanSet(s, t, c, p)
    BY <1>1, SetPlanFields
  <2> HIDE DEF t
  <2> QED BY <2>1 DEF PlanSet
<1>3. s.conn \in [Conns -> ConnType] /\ s.fds \in Seq(FdType)
  BY <1>1 DEF LoopType
<1> DEFINE w == Wants(t, c)
<1>5. w = Wants(t, c) /\ t.fds = [s.fds EXCEPT ![k].events = w]
  BY <1>2
<1>6. k = s.conn[c].slot
  OBVIOUS
<1> HIDE DEF t, w, k
<1>7. \A e \in Conns : /\ t.conn[e].slot = s.conn[e].slot
                       /\ Duplex(t, e) = Duplex(s, e)
                       /\ e # c => Plan(t, e) = Plan(s, e)
  BY <1>2, <1>3 DEF ConnType, Plan, Duplex
<1>8. Plan(t, c) = p
  BY <1>1, <1>2, <1>3 DEF ConnType, Plan
<1>9. Live(t) = Live(s)
  BY <1>7 DEF Live
<1>10. /\ Len(t.fds) = Len(s.fds)
       /\ \A n \in 1 .. Len(s.fds) :
            t.fds[n] = IF n = k THEN [s.fds[k] EXCEPT !.events = w] ELSE s.fds[n]
  <2>1. Len(s.fds) \in Nat /\ DOMAIN s.fds = 1 .. Len(s.fds)
    BY <1>3, LenProperties
  <2>2. s.fds[k] \in FdType
    BY <1>1, <1>3, ElementOfSeq
  <2>3. s.fds \in [1 .. Len(s.fds) -> FdType]
    BY <1>3, LenProperties
  <2> QED BY <1>1, <1>3, <1>5, <2>1, <2>2, <2>3
<1>11. \A n \in 1 .. Len(s.fds) :
         /\ t.fds[n].who = s.fds[n].who /\ t.fds[n].revents = s.fds[n].revents
         /\ t.fds[n].events = IF n = k THEN w ELSE s.fds[n].events
  <2> SUFFICES ASSUME NEW n \in 1 .. Len(s.fds)
               PROVE /\ t.fds[n].who = s.fds[n].who /\ t.fds[n].revents = s.fds[n].revents
                     /\ t.fds[n].events = IF n = k THEN w ELSE s.fds[n].events
    OBVIOUS
  <2>1. s.fds[n] \in FdType
    BY <1>3, ElementOfSeq
  <2> QED BY <1>10, <2>1 DEF FdType
<1> QED BY <1>2, <1>5, <1>6, <1>7, <1>8, <1>9, <1>10, <1>11 DEF t

LEMMA SetPlanTable ==
    ASSUME IoAssumption, NEW s, NEW c \in Live(s), NEW x, Table(s, x), ~Closing(s, c),
           NEW p \in PlanKinds
    PROVE  LET t == set_plan(s, c, p) IN
           Table(t, x) /\ (x = s.conn[c].slot => Table(t, 0))
<1> DEFINE t == set_plan(s, c, p)
           k == s.conn[c].slot
<1>1. /\ s \in LoopType /\ Shape(s) /\ c \in Conns /\ k \in 1 .. Len(s.fds)
      /\ \A e \in Live(s) : SlotExact(s, e)
      /\ \A n \in 1 .. Len(s.fds) : WhoExact(s, n)
  BY DEF Table, Shape, SlotExact, Live
<1>2. /\ Live(t) = Live(s)
      /\ \A e \in Conns : /\ t.conn[e].slot = s.conn[e].slot
                          /\ Duplex(t, e) = Duplex(s, e)
                          /\ e # c => Plan(t, e) = Plan(s, e)
      /\ Plan(t, c) = p
      /\ Len(t.fds) = Len(s.fds)
      /\ \A n \in 1 .. Len(s.fds) :
           /\ t.fds[n].who = s.fds[n].who
           /\ t.fds[n].events = IF n = k THEN Wants(t, c) ELSE s.fds[n].events
  BY <1>1, SetPlanFrame
<1>3. /\ t \in LoopType
      /\ t.conn = [s.conn EXCEPT ![c].plan = p]
      /\ t.num_closing = s.num_closing + Count(p = "close")
      /\ t.num_waiting = s.num_waiting - Count(s.fds[k].events # {}) + Count(Wants(t, c) # {})
  <2>1. PlanSet(s, t, c, p)
    BY <1>1, SetPlanFields
  <2> HIDE DEF t
  <2> QED BY <2>1 DEF PlanSet
<1>4. k = s.conn[c].slot /\ Conns \subseteq DOMAIN s.conn
  BY <1>1 DEF LoopType
<1>5. Live(s) \subseteq Conns
  BY DEF Live
<1> HIDE DEF t, k
<1>6. Shape(t)
  <2>1. \A e \in Conns \ Live(t) : t.conn[e] = Gone
    <3>1. \A e \in Conns \ Live(s) : s.conn[e] = Gone
      BY <1>1 DEF Shape
    <3> QED BY <1>2, <1>3, <1>4, <3>1
  <2>2. \A e \in Live(t) : SlotExact(t, e)
    <3> SUFFICES ASSUME NEW e \in Live(s) PROVE SlotExact(t, e)
      BY <1>2
    <3>1. e \in Conns /\ Other(e) \in Conns
      BY <1>5, HalvesOfConn
    <3>2. SlotExact(s, e)
      BY <1>1
    <3>3. /\ t.conn[e].slot = s.conn[e].slot /\ t.conn[Other(e)].slot = s.conn[Other(e)].slot
          /\ Duplex(t, e) = Duplex(s, e)
      BY <1>2, <3>1
    <3>4. t.fds[s.conn[e].slot].who = s.fds[s.conn[e].slot].who
      BY <1>2, <3>2 DEF SlotExact
    <3> QED BY <1>2, <3>2, <3>3, <3>4 DEF SlotExact
  <2>3. \A n \in 1 .. Len(t.fds) : WhoExact(t, n)
    <3> SUFFICES ASSUME NEW n \in 1 .. Len(s.fds) PROVE WhoExact(t, n)
      BY <1>2
    <3>1. CASE s.fds[n].who = Listener
      <4>1. n # k
        BY <1>1, <1>4, <1>5, <3>1, HalvesOfConn DEF SlotExact
      <4> QED BY <1>1, <1>2, <1>5, <3>1, <4>1, HalvesOfConn DEF WhoExact
    <3>2. CASE s.fds[n].who # Listener
      BY <1>1, <1>2, <1>5, <3>2 DEF WhoExact
    <3> QED BY <3>1, <3>2
  <2> QED BY <1>3, <2>1, <2>2, <2>3 DEF Shape
<1>7. Counted(t)
  <2>0. /\ IsFiniteSet(ClosingSet(s)) /\ IsFiniteSet(WaitingSet(s)) /\ Len(s.fds) \in Nat
        /\ s.num_closing = Cardinality(ClosingSet(s))
        /\ s.num_waiting = Cardinality(WaitingSet(s))
    BY SetsFinite DEF Table, Counted
  <2>1. ClosingSet(t) = IF p = "close" THEN ClosingSet(s) \cup {c} ELSE ClosingSet(s) \ {c}
    BY <1>2, <1>5 DEF ClosingSet, Closing
  <2>2. c \notin ClosingSet(s)
    BY DEF ClosingSet
  <2>3. Cardinality(ClosingSet(t)) = Cardinality(ClosingSet(s)) + Count(p = "close")
    <3>1. Cardinality(ClosingSet(t)) =
            Cardinality(ClosingSet(s)) - Count(c \in ClosingSet(s)) + Count(p = "close")
      BY <2>0, <2>1, SwapElement
    <3>2. Cardinality(ClosingSet(s)) \in Nat
      BY <2>0, FS_CardinalityType
    <3> QED BY <2>2, <3>1, <3>2 DEF Count
  <2>4. WaitingSet(t) = IF Wants(t, c) # {} THEN WaitingSet(s) \cup {k} ELSE WaitingSet(s) \ {k}
    BY <1>1, <1>2 DEF WaitingSet
  <2>5. k \in WaitingSet(s) <=> s.fds[k].events # {}
    BY <1>1 DEF WaitingSet
  <2>6. Cardinality(WaitingSet(t)) =
          Cardinality(WaitingSet(s)) - Count(k \in WaitingSet(s)) + Count(Wants(t, c) # {})
    BY <2>0, <2>4, SwapElement
  <2>7. Count(k \in WaitingSet(s)) = Count(s.fds[k].events # {})
    BY <2>5 DEF Count
  <2> QED BY <1>3, <2>0, <2>3, <2>6, <2>7 DEF Counted
<1>8. ASSUME NEW e \in Live(s), s.conn[e].slot = k
      PROVE  t.fds[k].events = Wants(t, e)
  <2>1. e = c \/ (Duplex(t, c) = e /\ Duplex(t, e) = c)
    BY <1>1, <1>2, <1>4, <1>5, <1>8, HalvesOfConn DEF SlotExact
  <2>2. Wants(t, e) = Wants(t, c)
    <3>1. None \notin Conns /\ c \in Conns /\ e \in Conns
      BY <1>5, HalvesOfConn
    <3> QED BY <2>1, <3>1 DEF Wants
  <2> QED BY <1>1, <1>2, <2>2
<1>9. ASSUME NEW e \in Live(s), s.conn[e].slot # k, s.conn[e].slot # x
      PROVE  t.fds[s.conn[e].slot].events = Wants(t, e)
  <2>1. s.fds[s.conn[e].slot].events = Wants(s, e)
    BY <1>9 DEF Table, EventsBut
  <2>2. e # c /\ Duplex(s, e) # c
    BY <1>1, <1>4, <1>9, <1>5, HalvesOfConn DEF SlotExact
  <2>3. Duplex(s, e) # None => Duplex(s, e) \in Conns
    BY <1>1, <1>5, HalvesOfConn DEF SlotExact
  <2>4. Wants(t, e) = Wants(s, e)
    BY <1>2, <1>5, <2>2, <2>3 DEF Wants
  <2>5. s.conn[e].slot \in 1 .. Len(s.fds)
    BY <1>1 DEF SlotExact
  <2> QED BY <1>2, <1>9, <2>1, <2>4, <2>5
<1>10. EventsBut(t, x) /\ (x = k => EventsBut(t, 0))
  <2>1. \A e \in Live(t) : e \in Live(s) /\ e \in Conns /\ t.conn[e].slot = s.conn[e].slot
    BY <1>2, <1>5
  <2> QED BY <1>8, <1>9, <2>1 DEF EventsBut
<1> QED BY <1>4, <1>6, <1>7, <1>10 DEF Table, t

-----------------------------------------------------------------------------
(* Io: what callbacks do *)

LEMMA TableWeaker ==
    ASSUME NEW s, Table(s, 0), NEW x PROVE Table(s, x)
<1>1. \A c \in Live(s) : s.conn[c].slot # 0
  BY DEF Live
<1> QED BY <1>1 DEF Table, EventsBut

LEMMA StepSelf == ASSUME IoAssumption, NEW s, Shape(s), NEW c PROVE Step(s, s, c)
  BY SetsFinite DEF Step

LEMMA StepWider ==
    ASSUME IoAssumption, NEW s, NEW t, Step(s, t, Listener), NEW c PROVE Step(s, t, c)
<1>1. \A e \in Live(s) : e # Listener
  BY HalvesOfConn DEF Live
<1> QED BY <1>1 DEF Step

LEMMA StepThen ==
    ASSUME IoAssumption, NEW s, NEW t, NEW u, Shape(s), Shape(t), Shape(u), NEW c,
           Step(s, t, c), Step(t, u, c), c \in Live(t) \ Live(s) => t.conn[c].slot > Len(s.fds)
    PROVE  Step(s, u, c)
<1>0. Len(s.fds) \in Nat /\ Len(t.fds) \in Nat /\ Len(u.fds) \in Nat
      /\ Len(s.fds) <= Len(t.fds) /\ Len(t.fds) <= Len(u.fds)
  BY SetsFinite DEF Step
<1>1. /\ u.pc = s.pc /\ u.at = s.at /\ u.half = s.half
      /\ Len(u.fds) >= Len(s.fds)
      /\ s.some_always => u.some_always
  BY <1>0 DEF Step
<1>2. \A n \in 1 .. Len(s.fds) :
        u.fds[n].who = s.fds[n].who /\ u.fds[n].revents = s.fds[n].revents
  <2>1. \A n \in 1 .. Len(s.fds) : n \in 1 .. Len(t.fds)
    BY <1>0
  <2> QED BY <2>1 DEF Step
<1>3. \A n \in 1 .. Len(u.fds) : n > Len(s.fds) => u.fds[n].revents = {}
  <2> SUFFICES ASSUME NEW n \in 1 .. Len(u.fds), n > Len(s.fds) PROVE u.fds[n].revents = {}
    OBVIOUS
  <2>1. CASE n > Len(t.fds)
    BY <2>1 DEF Step
  <2>2. CASE ~(n > Len(t.fds))
    <3>1. n \in 1 .. Len(t.fds)
      BY <1>0, <2>2
    <3> QED BY <3>1 DEF Step
  <2> QED BY <2>1, <2>2
<1>4. \A e \in Live(s) :
         /\ e \in Live(u) /\ u.conn[e].slot = s.conn[e].slot
         /\ e # c \/ Duplex(s, e) # None => Duplex(u, e) = Duplex(s, e)
         /\ e # c => /\ pollflag(Plan(u, e)) = pollflag(Plan(s, e))
                     /\ Closing(u, e) <=> Closing(s, e)
  BY DEF Step
<1>5. \A e \in Live(u) \ Live(s) : u.conn[e].slot > Len(s.fds) \/ ~Closing(u, e)
  <2> SUFFICES ASSUME NEW e \in Live(u), e \notin Live(s)
               PROVE  u.conn[e].slot > Len(s.fds) \/ ~Closing(u, e)
    OBVIOUS
  <2>1. CASE e \in Live(t)
    <3>1. t.conn[e].slot > Len(s.fds) \/ (e # c /\ ~Closing(t, e))
      BY <2>1 DEF Step
    <3>2. /\ u.conn[e].slot = t.conn[e].slot
          /\ e # c => (Closing(u, e) <=> Closing(t, e))
      BY <2>1 DEF Step
    <3> QED BY <3>1, <3>2
  <2>2. CASE e \notin Live(t)
    <3>1. u.conn[e].slot > Len(t.fds) \/ ~Closing(u, e)
      BY <2>2 DEF Step
    <3>2. u.conn[e].slot \in Nat
      BY DEF Shape, LoopType, ConnType, Live
    <3> QED BY <1>0, <3>1, <3>2
  <2> QED BY <2>1, <2>2
<1>6. \A e \in Live(u) : Plan(u, e) = "always" =>
         u.some_always \/ (e \in Live(s) /\ Plan(s, e) = "always")
  BY DEF Step
<1> QED BY <1>1, <1>2, <1>3, <1>4, <1>5, <1>6 DEF Step

LEMMA StepNarrow ==
    ASSUME NEW s, NEW t, NEW c, Step(s, t, c), c \notin Live(s), NEW d PROVE Step(s, t, d)
<1>1. \A e \in Live(s) : e # c
  OBVIOUS
<1> QED BY <1>1 DEF Step

LEMMA SetPlanStep ==
    ASSUME IoAssumption, NEW s, NEW c \in Live(s), NEW x, Table(s, x), NEW p \in PlanKinds
    PROVE  /\ Step(s, set_plan(s, c, p), c)
           /\ Plan(s, c) = "wait" /\ p = "always" => Step(s, set_plan(s, c, p), Listener)
<1> DEFINE t == set_plan(s, c, p)
<1>1. Shape(s) /\ Len(s.fds) \in Nat
  BY SetsFinite DEF Table
<1>2. /\ Live(t) = Live(s)
      /\ \A e \in Conns : /\ t.conn[e].slot = s.conn[e].slot
                          /\ Duplex(t, e) = Duplex(s, e)
                          /\ e # c => Plan(t, e) = Plan(s, e)
      /\ Plan(t, c) = p
      /\ t.pc = s.pc /\ t.at = s.at /\ t.half = s.half
      /\ t.some_always = (s.some_always \/ p = "always")
      /\ Len(t.fds) = Len(s.fds)
      /\ \A n \in 1 .. Len(s.fds) :
           t.fds[n].who = s.fds[n].who /\ t.fds[n].revents = s.fds[n].revents
  BY <1>1, SetPlanFrame
<1> HIDE DEF t
<1>3. \A e \in Live(s) : e \in Conns /\ e # Listener
  BY HalvesOfConn DEF Live
<1>6. /\ t.pc = s.pc /\ t.at = s.at /\ t.half = s.half
      /\ Len(t.fds) >= Len(s.fds)
      /\ \A n \in 1 .. Len(s.fds) :
           t.fds[n].who = s.fds[n].who /\ t.fds[n].revents = s.fds[n].revents
      /\ \A n \in 1 .. Len(t.fds) : n > Len(s.fds) => t.fds[n].revents = {}
  BY <1>1, <1>2
<1>7. /\ s.some_always => t.some_always
      /\ \A e \in Live(t) : Plan(t, e) = "always" =>
           t.some_always \/ (e \in Live(s) /\ Plan(s, e) = "always")
  <2>1. (s.some_always \/ p = "always") => t.some_always
    BY <1>2
  <2> QED BY <1>2, <1>3, <2>1
<1>8. \A e \in Live(s) : /\ e \in Live(t) /\ t.conn[e].slot = s.conn[e].slot
                         /\ Duplex(t, e) = Duplex(s, e)
  BY <1>2, <1>3
<1>9. Live(t) \ Live(s) = {}
  BY <1>2
<1>4. Step(s, t, c)
  <2>1. \A e \in Live(s) : e # c => /\ pollflag(Plan(t, e)) = pollflag(Plan(s, e))
                                    /\ Closing(t, e) <=> Closing(s, e)
    BY <1>2, <1>3 DEF Closing
  <2>2. \A e \in Live(s) :
          /\ e \in Live(t) /\ t.conn[e].slot = s.conn[e].slot
          /\ e # c \/ Duplex(s, e) # None => Duplex(t, e) = Duplex(s, e)
          /\ e # c => /\ pollflag(Plan(t, e)) = pollflag(Plan(s, e))
                      /\ Closing(t, e) <=> Closing(s, e)
    BY <1>8, <2>1, Zenon
  <2>3. \A e \in Live(t) \ Live(s) : t.conn[e].slot > Len(s.fds) \/ ~Closing(t, e)
    BY <1>9
  <2> QED BY <1>6, <1>7, <2>2, <2>3, Zenon DEF Step
<1>5. ASSUME Plan(s, c) = "wait", p = "always" PROVE Step(s, t, Listener)
  <2>1. \A e \in Live(s) : /\ pollflag(Plan(t, e)) = pollflag(Plan(s, e))
                           /\ Closing(t, e) <=> Closing(s, e)
    BY <1>2, <1>3, <1>5 DEF pollflag, Closing
  <2> QED BY <1>6, <1>7, <1>8, <1>9, <2>1 DEF Step
<1> QED BY <1>4, <1>5 DEF t

LEMMA WakeTable ==
    ASSUME IoAssumption, NEW s, NEW x, Table(s, x), NEW e \in Conns
    PROVE  Table(Wake(s, e), x) /\ Step(s, Wake(s, e), Listener)
<1>1. Shape(s)
  BY DEF Table
<1>2. CASE Plan(s, e) = "wait"
  <2>1. e \in Live(s) /\ ~Closing(s, e) /\ "always" \in PlanKinds
    BY <1>1, <1>2 DEF Shape, Plan, Gone, Closing, PlanKinds
  <2> QED BY <1>2, <2>1, SetPlanTable, SetPlanStep DEF Wake
<1>3. CASE Plan(s, e) # "wait"
  BY <1>1, <1>3, StepSelf DEF Wake
<1> QED BY <1>2, <1>3

LEMMA WokenTable ==
    ASSUME IoAssumption, NEW s, NEW x, Table(s, x), NEW t \in Woken(s)
    PROVE  Table(t, x) /\ Step(s, t, Listener)
<1>1. PICK k \in Fds : t = io_wake(s, k)
  BY DEF Woken
<1>2. <<k, 1>> \in Conns /\ <<k, 2>> \in Conns
  BY DEF Conns
<1> DEFINE u == Wake(s, <<k, 1>>)
<1>3. Table(u, x) /\ Step(s, u, Listener)
  BY <1>2, WakeTable
<1>4. t = Wake(u, <<k, 2>>)
  BY <1>1 DEF io_wake
<1> HIDE DEF u
<1>5. Table(t, x) /\ Step(u, t, Listener)
  BY <1>2, <1>3, <1>4, WakeTable
<1>6. Listener \notin Live(u)
  BY HalvesOfConn DEF Live
<1> QED BY <1>3, <1>5, <1>6, StepThen DEF Table

(* io_ready() has cleared the flags of c and runs its callback: its slot   *)
(* is out of date until the next plan is set.                              *)
Clear(s, c) == [s EXCEPT !.conn[c].plan = "none"]

LEMMA ClearTable ==
    ASSUME IoAssumption, NEW s, NEW c \in Live(s), Table(s, 0), ~Closing(s, c)
    PROVE  LET t == Clear(s, c) IN
           /\ Table(t, s.conn[c].slot) /\ Step(s, t, c)
           /\ Live(t) = Live(s) /\ Plan(t, c) = "none" /\ t.conn[c].slot = s.conn[c].slot
           /\ Duplex(t, c) = Duplex(s, c)
<1> DEFINE t == Clear(s, c)
           f == [s.conn EXCEPT ![c].plan = "none"]
<1>1. /\ s \in LoopType /\ Shape(s) /\ c \in Conns
      /\ \A e \in Live(s) : SlotExact(s, e) /\ e \in Conns
      /\ \A n \in 1 .. Len(s.fds) : WhoExact(s, n)
      /\ \A e \in Conns \ Live(s) : s.conn[e] = Gone
  BY DEF Table, Shape, Live
<1>2. /\ f \in [Conns -> ConnType]
      /\ \A e \in Conns : /\ f[e].slot = s.conn[e].slot /\ f[e].duplex = s.conn[e].duplex
                          /\ e # c => f[e] = s.conn[e]
      /\ f[c].plan = "none"
  BY <1>1 DEF LoopType, ConnType, PlanKinds
<1>3. t = [s EXCEPT !.conn = f]
  BY DEF Clear
<1> HIDE DEF t, f
<1>4. /\ t \in LoopType /\ t.conn = f /\ t.fds = s.fds /\ t.num_closing = s.num_closing
      /\ t.num_waiting = s.num_waiting /\ t.some_always = s.some_always
      /\ t.pc = s.pc /\ t.at = s.at /\ t.half = s.half
  BY <1>1, <1>2, <1>3 DEF LoopType
<1>5. /\ Live(t) = Live(s)
      /\ \A e \in Conns : /\ t.conn[e].slot = s.conn[e].slot /\ Duplex(t, e) = Duplex(s, e)
                          /\ e # c => Plan(t, e) = Plan(s, e)
      /\ Plan(t, c) = "none"
  BY <1>2, <1>4 DEF Live, Duplex, Plan
<1>6. Shape(t)
  <2>1. \A e \in Live(s) : SlotExact(t, e)
    <3> SUFFICES ASSUME NEW e \in Live(s) PROVE SlotExact(t, e)
      OBVIOUS
    <3>1. e \in Conns /\ Other(e) \in Conns /\ SlotExact(s, e)
      BY <1>1, HalvesOfConn
    <3> QED BY <1>4, <1>5, <3>1 DEF SlotExact
  <2>2. \A n \in 1 .. Len(s.fds) : WhoExact(t, n)
    BY <1>1, <1>4, <1>5 DEF WhoExact
  <2>3. \A e \in Conns \ Live(s) : t.conn[e] = Gone
    BY <1>1, <1>2, <1>4
  <2> QED BY <1>4, <1>5, <2>1, <2>2, <2>3 DEF Shape
<1>7. Counted(t)
  <2>1. ClosingSet(t) = ClosingSet(s) /\ WaitingSet(t) = WaitingSet(s)
    BY <1>1, <1>4, <1>5 DEF ClosingSet, WaitingSet, Closing
  <2> QED BY <1>4, <2>1 DEF Table, Counted
<1>8. EventsBut(t, s.conn[c].slot)
  <2> SUFFICES ASSUME NEW e \in Live(s), s.conn[e].slot # s.conn[c].slot
               PROVE  t.fds[s.conn[e].slot].events = Wants(t, e)
    BY <1>1, <1>5 DEF EventsBut
  <2>1. s.fds[s.conn[e].slot].events = Wants(s, e)
    BY DEF Table, EventsBut, Live
  <2>2. e # c /\ Duplex(s, e) # c /\ e \in Conns
    BY <1>1, HalvesOfConn DEF SlotExact
  <2>3. Duplex(s, e) # None => Duplex(s, e) \in Conns
    BY <1>1, HalvesOfConn DEF SlotExact
  <2>4. Wants(t, e) = Wants(s, e)
    BY <1>5, <2>2, <2>3 DEF Wants
  <2> QED BY <1>4, <2>1, <2>4
<1>9. Step(s, t, c)
  <2>1. Len(s.fds) \in Nat
    BY <1>1, SetsFinite
  <2>2. \A e \in Live(s) :
          /\ e \in Live(t) /\ t.conn[e].slot = s.conn[e].slot
          /\ Duplex(t, e) = Duplex(s, e)
          /\ e # c => Plan(t, e) = Plan(s, e)
    BY <1>1, <1>5
  <2>3. \A e \in Live(t) : Plan(t, e) = "always" => Plan(s, e) = "always" /\ e \in Live(s)
    BY <1>1, <1>5
  <2> QED BY <1>4, <1>5, <2>1, <2>2, <2>3 DEF Step, Closing
<1>10. Table(t, s.conn[c].slot)
  BY <1>6, <1>7, <1>8 DEF Table
<1>11. /\ Live(t) = Live(s) /\ Plan(t, c) = "none" /\ t.conn[c].slot = s.conn[c].slot
       /\ Duplex(t, c) = Duplex(s, c)
  BY <1>1, <1>5
<1> QED BY <1>9, <1>10, <1>11, Zenon DEF t

(* A new connection comes with a slot of its own. *)
LEMMA NewConnTable ==
    ASSUME IoAssumption, NEW s, NEW x, Table(s, x), NEW k \in Free(s),
           NEW p \in {"read", "write", "close"}
    PROVE  LET t == io_new_conn(s, k, p)
               c == <<k, 1>>
           IN /\ Table(t, x) /\ Step(s, t, Listener)
              /\ c \in Live(t) /\ c \notin Live(s) /\ Duplex(t, c) = None /\ Plan(t, c) = p
              /\ t.conn[c].slot > Len(s.fds)
<1> DEFINE c == <<k, 1>>
           t == io_new_conn(s, k, p)
           n == Len(s.fds) + 1
           new == [Gone EXCEPT !.plan = p, !.slot = n]
           fd == [NewFd EXCEPT !.who = c, !.events = pollflag(p)]
           f == [s.conn EXCEPT ![c] = new]
           g == Append(s.fds, fd)
           b == s.some_always \/ p = "always"
           i == s.num_closing + Count(p = "close")
           j == s.num_waiting + Count(pollflag(p) # {})
<1>1. /\ s \in LoopType /\ Shape(s)
      /\ \A e \in Live(s) : SlotExact(s, e) /\ e \in Conns
      /\ \A m \in 1 .. Len(s.fds) : WhoExact(s, m)
      /\ \A e \in Conns \ Live(s) : s.conn[e] = Gone
      /\ Len(s.fds) \in Nat /\ s.fds \in Seq(FdType) /\ s.conn \in [Conns -> ConnType]
  BY SetsFinite DEF Table, Shape, Live, LoopType
<1>2. c \in Conns /\ c \notin Live(s) /\ Other(c) \notin Live(s) /\ c # Other(c)
      /\ Other(c) \in Conns
  BY HalvesOfConn DEF Free, Conns, Other
<1>3. n \in Nat /\ n > Len(s.fds) /\ n > 0
  BY <1>1
<1> HIDE DEF c, n
<1>4. new \in ConnType /\ new.plan = p /\ new.slot = n /\ new.duplex = None
  BY <1>3 DEF Gone, ConnType, PlanKinds
<1>5. fd \in FdType /\ fd.who = c /\ fd.events = pollflag(p) /\ fd.revents = {}
  BY <1>2 DEF NewFd, FdType, Flags, pollflag
<1>6. b \in BOOLEAN /\ i \in Int /\ j \in Int
  BY <1>1 DEF LoopType, Count
<1>7. t = [s EXCEPT !.conn = f, !.fds = g, !.num_waiting = j, !.num_closing = i,
                    !.some_always = b]
  BY DEF io_new_conn, c, n
<1> HIDE DEF t, new, fd, b, i, j
<1>8. /\ f \in [Conns -> ConnType] /\ f[c] = new
      /\ \A e \in Conns : e # c => f[e] = s.conn[e]
  BY <1>1, <1>2, <1>4
<1>9. /\ g \in Seq(FdType) /\ Len(g) = n /\ g[n] = fd
      /\ \A m \in 1 .. Len(s.fds) : g[m] = s.fds[m]
  BY <1>1, <1>5, AppendProperties DEF n
<1> HIDE DEF f, g
<1>10. /\ t \in LoopType
       /\ t.conn = f /\ t.fds = g /\ t.num_waiting = j /\ t.num_closing = i /\ t.some_always = b
       /\ t.pc = s.pc /\ t.at = s.at /\ t.half = s.half
  BY <1>1, <1>6, <1>7, <1>8, <1>9 DEF LoopType
<1>11. /\ Live(t) = Live(s) \cup {c}
       /\ t.conn[c].slot = n /\ Plan(t, c) = p /\ Duplex(t, c) = None
       /\ \A e \in Live(s) : t.conn[e] = s.conn[e]
       /\ \A e \in Live(s) : Plan(t, e) = Plan(s, e) /\ Duplex(t, e) = Duplex(s, e) /\ e # c
  BY <1>1, <1>2, <1>3, <1>4, <1>8, <1>10 DEF Live, Plan, Duplex
<1>12. \A m \in 1 .. n : m \in 1 .. Len(s.fds) \/ m = n
  BY <1>1 DEF n
<1>17. \A m \in 1 .. Len(s.fds) : m \in 1 .. n /\ m # n
  BY <1>1 DEF n
<1>13. Shape(t)
  <2>1. \A e \in Conns \ Live(t) : t.conn[e] = Gone
    BY <1>1, <1>8, <1>10, <1>11
  <2>2. ASSUME NEW e \in Live(s) PROVE SlotExact(t, e)
    <3>1. SlotExact(s, e) /\ e \in Conns /\ Other(e) # c
      BY <1>1, <1>2, HalvesOfConn
    <3>2. Other(e) \in Live(t) <=> Other(e) \in Live(s)
      BY <1>11, <3>1
    <3> QED BY <1>9, <1>10, <1>11, <1>17, <3>1, <3>2 DEF SlotExact
  <2>3. SlotExact(t, c)
    BY <1>2, <1>3, <1>5, <1>9, <1>10, <1>11 DEF SlotExact
  <2>4. ASSUME NEW m \in 1 .. Len(s.fds) PROVE WhoExact(t, m)
    BY <1>1, <1>9, <1>10, <1>11, <2>4 DEF WhoExact
  <2>5. WhoExact(t, n)
    BY <1>5, <1>9, <1>10, <1>11 DEF WhoExact
  <2>6. \A e \in Live(t) : SlotExact(t, e)
    BY <1>11, <2>2, <2>3
  <2>7. \A m \in 1 .. Len(t.fds) : WhoExact(t, m)
    BY <1>9, <1>10, <1>12, <2>4, <2>5
  <2> QED BY <1>10, <2>1, <2>6, <2>7 DEF Shape
<1>14. Counted(t)
  <2>0. /\ IsFiniteSet(ClosingSet(s)) /\ IsFiniteSet(WaitingSet(s))
        /\ s.num_closing = Cardinality(ClosingSet(s))
        /\ s.num_waiting = Cardinality(WaitingSet(s))
        /\ Cardinality(ClosingSet(s)) \in Nat /\ Cardinality(WaitingSet(s)) \in Nat
    BY SetsFinite, FS_CardinalityType DEF Table, Counted
  <2>1. c \notin ClosingSet(s) /\ n \notin WaitingSet(s)
    BY <1>2, <1>17 DEF ClosingSet, WaitingSet
  <2>2. ClosingSet(t) = IF p = "close" THEN ClosingSet(s) \cup {c} ELSE ClosingSet(s) \ {c}
    BY <1>11, <2>1 DEF ClosingSet, Closing
  <2>3. WaitingSet(t) = IF pollflag(p) # {} THEN WaitingSet(s) \cup {n} ELSE WaitingSet(s) \ {n}
    BY <1>3, <1>5, <1>9, <1>10, <1>12, <1>17 DEF WaitingSet
  <2>4. Cardinality(ClosingSet(t)) =
          Cardinality(ClosingSet(s)) - Count(c \in ClosingSet(s)) + Count(p = "close")
    BY <2>0, <2>2, SwapElement
  <2>5. Cardinality(WaitingSet(t)) =
          Cardinality(WaitingSet(s)) - Count(n \in WaitingSet(s)) + Count(pollflag(p) # {})
    BY <2>0, <2>3, SwapElement
  <2>6. Count(c \in ClosingSet(s)) = 0 /\ Count(n \in WaitingSet(s)) = 0
    BY <2>1 DEF Count
  <2> QED BY <1>10, <2>0, <2>4, <2>5, <2>6 DEF Counted, i, j
<1>15. EventsBut(t, x)
  <2>1. ASSUME NEW e \in Live(s), s.conn[e].slot # x
        PROVE  t.fds[s.conn[e].slot].events = Wants(t, e)
    <3>1. s.fds[s.conn[e].slot].events = Wants(s, e)
      BY <2>1 DEF Table, EventsBut
    <3>2. SlotExact(s, e)
      BY <1>1
    <3>3. Wants(t, e) = Wants(s, e)
      BY <1>11, <3>2 DEF Wants, SlotExact
    <3> QED BY <1>9, <1>10, <3>1, <3>2, <3>3 DEF SlotExact
  <2>2. t.fds[n].events = Wants(t, c)
    BY <1>5, <1>9, <1>10, <1>11 DEF Wants
  <2> QED BY <1>11, <2>1, <2>2 DEF EventsBut
<1>16. Step(s, t, Listener)
  <2>1. \A m \in 1 .. Len(s.fds) :
          t.fds[m].who = s.fds[m].who /\ t.fds[m].revents = s.fds[m].revents
    BY <1>9, <1>10
  <2>2. \A m \in 1 .. Len(t.fds) : m > Len(s.fds) => t.fds[m].revents = {}
    BY <1>1, <1>5, <1>9, <1>10, <1>12
  <2>3. \A e \in Live(s) :
          /\ e \in Live(t) /\ t.conn[e].slot = s.conn[e].slot
          /\ Duplex(t, e) = Duplex(s, e)
          /\ pollflag(Plan(t, e)) = pollflag(Plan(s, e))
          /\ Closing(t, e) <=> Closing(s, e)
    BY <1>11 DEF Closing
  <2>4. \A e \in Live(t) \ Live(s) : t.conn[e].slot > Len(s.fds)
    BY <1>3, <1>11
  <2>5. \A e \in Live(t) : Plan(t, e) = "always" => e \in Live(s) /\ Plan(s, e) = "always"
    BY <1>11
  <2>6. s.some_always => t.some_always
    BY <1>10 DEF b
  <2>7. Len(t.fds) >= Len(s.fds)
    BY <1>3, <1>9, <1>10, <1>1
  <2> QED BY <1>10, <2>1, <2>2, <2>3, <2>4, <2>5, <2>6, <2>7 DEF Step
<1>18. c \in Live(t) /\ c \notin Live(s) /\ t.conn[c].slot > Len(s.fds)
  BY <1>2, <1>3, <1>11
<1> QED BY <1>11, <1>13, <1>14, <1>15, <1>16, <1>18 DEF Table, t, c

(* A duplex shares the slot of the connection it is made of. *)
LEMMA DuplexTable ==
    ASSUME IoAssumption, NEW s, NEW x, Table(s, x), NEW old \in Live(s),
           Duplex(s, old) = None, NEW p \in {"read", "wait"}
    PROVE  LET t == io_duplex(s, old, p) IN
           /\ Table(t, x) /\ Step(s, t, old)
           /\ Live(t) = Live(s) \cup {Other(old)} /\ Plan(t, old) = Plan(s, old)
           /\ t.conn[old].slot = s.conn[old].slot
<1> DEFINE c == Other(old)
           t == io_duplex(s, old, p)
           n == s.conn[old].slot
           q == Plan(s, old)
           new == [s.conn[old] EXCEPT !.plan = p, !.duplex = old]
           f == [s.conn EXCEPT ![c] = new]
           h == [f EXCEPT ![old].duplex = c]
           s1 == [s EXCEPT !.conn = f]
           w == pollflag(p) \cup pollflag(q)
           g == [s.fds EXCEPT ![n].events = w]
           j == s.num_waiting - Count(s.fds[n].events # {}) + Count(w # {})
<1>12. t = [backend_plan_changed(s1, c) EXCEPT !.conn[old].duplex = c]
  BY DEF io_duplex
<1>1. /\ s \in LoopType /\ Shape(s) /\ old \in Conns
      /\ \A e \in Live(s) : SlotExact(s, e) /\ e \in Conns
      /\ \A m \in 1 .. Len(s.fds) : WhoExact(s, m)
      /\ \A e \in Conns \ Live(s) : s.conn[e] = Gone
      /\ Len(s.fds) \in Nat /\ s.fds \in Seq(FdType) /\ s.conn \in [Conns -> ConnType]
  BY SetsFinite DEF Table, Shape, Live, LoopType
<1>2. /\ c \in Conns /\ c \notin Live(s) /\ c # old /\ Other(c) = old
      /\ None \notin Conns /\ Listener \notin Conns
  <2>1. c \in Conns /\ c # old /\ Other(c) = old /\ None \notin Conns /\ Listener \notin Conns
    BY <1>1, HalvesOfConn
  <2>2. SlotExact(s, old)
    BY <1>1
  <2> QED BY <2>1, <2>2 DEF SlotExact
<1>3. n \in 1 .. Len(s.fds) /\ n \in Nat /\ n > 0 /\ s.fds[n].who = old
  <2>1. SlotExact(s, old) /\ n \in Nat /\ n > 0
    BY <1>1 DEF ConnType, Live
  <2>2. n \in 1 .. Len(s.fds) /\ s.fds[n].who \in {old, c}
    BY <2>1 DEF SlotExact
  <2>3. WhoExact(s, n)
    BY <1>1, <2>2
  <2> QED BY <1>2, <2>1, <2>2, <2>3 DEF WhoExact
<1>4. q = s.conn[old].plan /\ s.conn[old].duplex = None /\ s.conn[old] \in ConnType
      /\ s.conn[old].slot = n
  BY <1>1 DEF Plan, Duplex
<1> HIDE DEF c, n, q
<1>5. new \in ConnType /\ new.plan = p /\ new.slot = n /\ new.duplex = old
  BY <1>1, <1>4 DEF ConnType, PlanKinds
<1> HIDE DEF new
<1>6. /\ f \in [Conns -> ConnType] /\ f[c] = new
      /\ \A e \in Conns : e # c => f[e] = s.conn[e]
  BY <1>1, <1>2, <1>5
<1>7. /\ h \in [Conns -> ConnType] /\ h[c] = new
      /\ h[old].plan = q /\ h[old].slot = n /\ h[old].duplex = c
      /\ \A e \in Conns : e # c /\ e # old => h[e] = s.conn[e]
  <2> HIDE DEF f
  <2>1. f[old] = s.conn[old]
    BY <1>1, <1>2, <1>6
  <2>2. [f[old] EXCEPT !.duplex = c] \in ConnType
    BY <1>2, <1>4, <2>1 DEF ConnType
  <2>3. /\ [f[old] EXCEPT !.duplex = c].plan = q /\ [f[old] EXCEPT !.duplex = c].slot = n
        /\ [f[old] EXCEPT !.duplex = c].duplex = c
    BY <1>4, <2>1 DEF ConnType
  <2> QED BY <1>1, <1>2, <1>6, <2>2, <2>3
<1>8. /\ s1 \in LoopType /\ s1.conn = f /\ s1.fds = s.fds
      /\ s1.num_waiting = s.num_waiting /\ s1.num_closing = s.num_closing
      /\ s1.some_always = s.some_always /\ s1.pc = s.pc /\ s1.at = s.at /\ s1.half = s.half
  <2> HIDE DEF f
  <2> QED BY <1>1, <1>6 DEF LoopType
<1>9. w \in SUBSET Flags
  BY DEF pollflag, Flags
<1> HIDE DEF w
<1>10. /\ g \in Seq(FdType) /\ Len(g) = Len(s.fds)
       /\ \A m \in 1 .. Len(s.fds) :
            /\ g[m].who = s.fds[m].who /\ g[m].revents = s.fds[m].revents
            /\ g[m].events = IF m = n THEN w ELSE s.fds[m].events
  <2> DEFINE fd == [s.fds[n] EXCEPT !.events = w]
  <2>1. \A m \in 1 .. Len(s.fds) : s.fds[m] \in FdType
    BY <1>1, ElementOfSeq
  <2>2. fd \in FdType /\ fd.who = s.fds[n].who /\ fd.revents = s.fds[n].revents /\ fd.events = w
    BY <1>3, <1>9, <2>1 DEF FdType
  <2>3. g = [s.fds EXCEPT ![n] = fd]
    OBVIOUS
  <2> HIDE DEF fd, g
  <2>4. /\ g \in Seq(FdType) /\ Len(g) = Len(s.fds)
        /\ \A m \in 1 .. Len(s.fds) : g[m] = IF m = n THEN fd ELSE s.fds[m]
    BY <1>1, <1>3, <2>2, <2>3, ExceptSeq
  <2> QED BY <2>2, <2>4
<1>11. j \in Int
  BY <1>1 DEF LoopType, Count
<1> DEFINE u == backend_plan_changed(s1, c)
<1>13. u = [s1 EXCEPT !.num_waiting = j, !.fds = g]
  <2> HIDE DEF s1, f, g, j
  <2>1. /\ s1.conn[c].slot = n /\ Plan(s1, c) = p /\ Duplex(s1, c) = old /\ Plan(s1, old) = q
        /\ old # None
    BY <1>1, <1>2, <1>4, <1>5, <1>6, <1>8 DEF Plan, Duplex
  <2>2. u = [s1 EXCEPT !.num_waiting = @ - Count(s1.fds[n].events # {}) + Count(w # {}),
                       !.fds[n].events = w,
                       !.num_closing = @ + Count(Closing(s1, c)),
                       !.some_always = @ \/ Plan(s1, c) = "always"]
    <3>1. w = pollflag(Plan(s1, c)) \cup
              (IF Duplex(s1, c) = None THEN {} ELSE pollflag(Plan(s1, Duplex(s1, c))))
      BY <2>1 DEF w
    <3> QED BY <2>1, <3>1, Zenon DEF backend_plan_changed
  <2>3. s1.num_closing + Count(Closing(s1, c)) = s1.num_closing
    BY <1>8, <2>1 DEF Count, Closing, LoopType
  <2>4. (s1.some_always \/ Plan(s1, c) = "always") = s1.some_always
    BY <1>8, <2>1 DEF LoopType
  <2>5. g = [s1.fds EXCEPT ![n].events = w]
    BY <1>8 DEF g
  <2>6. j = s1.num_waiting - Count(s1.fds[n].events # {}) + Count(w # {})
    BY <1>8 DEF j
  <2> HIDE DEF u
  <2>7. u = [s1 EXCEPT !.num_waiting = j, !.fds = g, !.num_closing = s1.num_closing,
                       !.some_always = s1.some_always]
    BY <2>2, <2>3, <2>4, <2>5, <2>6
  <2> QED BY <1>8, <2>7 DEF LoopType
<1> HIDE DEF u, s1, g, j
<1>14. /\ u \in LoopType /\ u.conn = f /\ u.fds = g /\ u.num_waiting = j
       /\ u.num_closing = s.num_closing /\ u.some_always = s.some_always
       /\ u.pc = s.pc /\ u.at = s.at /\ u.half = s.half
  BY <1>8, <1>10, <1>11, <1>13 DEF LoopType
<1>15. t = [u EXCEPT !.conn = h]
  <2> HIDE DEF f, t
  <2>1. t = [u EXCEPT !.conn[old].duplex = c]
    BY <1>12 DEF u
  <2> QED BY <1>14, <2>1
<1> HIDE DEF t, f, h
<1>16. /\ t \in LoopType /\ t.conn = h /\ t.fds = g /\ t.num_waiting = j
       /\ t.num_closing = s.num_closing /\ t.some_always = s.some_always
       /\ t.pc = s.pc /\ t.at = s.at /\ t.half = s.half
  BY <1>7, <1>14, <1>15 DEF LoopType
<1>17. /\ Live(t) = Live(s) \cup {c}
       /\ t.conn[c].slot = n /\ Plan(t, c) = p /\ Duplex(t, c) = old
       /\ t.conn[old].slot = n /\ Plan(t, old) = q /\ Duplex(t, old) = c
       /\ \A e \in Live(s) : e # old =>
            /\ t.conn[e].slot = s.conn[e].slot
            /\ Plan(t, e) = Plan(s, e) /\ Duplex(t, e) = Duplex(s, e)
  BY <1>1, <1>2, <1>3, <1>4, <1>5, <1>7, <1>16 DEF Live, Plan, Duplex
<1>18. \A e \in Live(s) : e # old => s.conn[e].slot # n
  <2> SUFFICES ASSUME NEW e \in Live(s), e # old, s.conn[e].slot = n PROVE FALSE
    OBVIOUS
  <2>1. SlotExact(s, e) /\ e \in Conns
    BY <1>1
  <2>2. Other(e) = old
    BY <1>3, <2>1 DEF SlotExact
  <2>3. e = c
    BY <2>1, <2>2, HalvesOfConn DEF c
  <2> QED BY <1>2, <2>3
<1>19. \A e \in Live(s) : e # old => Other(e) # c /\ Other(e) # old
  <2> SUFFICES ASSUME NEW e \in Live(s), e # old PROVE Other(e) # c /\ Other(e) # old
    OBVIOUS
  <2>1. Other(Other(e)) = e /\ Other(c) = old /\ Other(old) = c /\ e # c
    BY <1>1, <1>2, HalvesOfConn DEF c
  <2> QED BY <2>1
<1>20. Shape(t)
  <2>1. \A e \in Conns \ Live(t) : t.conn[e] = Gone
    BY <1>1, <1>7, <1>16, <1>17
  <2>2. ASSUME NEW e \in Live(s), e # old PROVE SlotExact(t, e)
    <3>1. SlotExact(s, e) /\ e \in Conns
      BY <1>1
    <3>2. Other(e) \in Live(t) <=> Other(e) \in Live(s)
      BY <1>17, <1>19, <2>2
    <3> QED BY <1>10, <1>16, <1>17, <1>19, <2>2, <3>1, <3>2 DEF SlotExact
  <2>3. SlotExact(t, c) /\ SlotExact(t, old)
    <3>1. Other(old) = c
      BY DEF c
    <3> QED BY <1>2, <1>3, <1>10, <1>16, <1>17, <3>1 DEF SlotExact
  <2>4. \A m \in 1 .. Len(s.fds) : WhoExact(t, m)
    <3> SUFFICES ASSUME NEW m \in 1 .. Len(s.fds) PROVE WhoExact(t, m)
      OBVIOUS
    <3>1. WhoExact(s, m)
      BY <1>1
    <3>2. CASE m = n
      BY <1>3, <1>10, <1>16, <1>17, <3>2 DEF WhoExact
    <3>3. CASE m # n
      BY <1>4, <1>10, <1>16, <1>17, <3>1, <3>3 DEF WhoExact
    <3> QED BY <3>2, <3>3
  <2>5. \A e \in Live(t) : SlotExact(t, e)
    BY <1>17, <2>2, <2>3
  <2> QED BY <1>10, <1>16, <2>1, <2>4, <2>5 DEF Shape
<1>21. Counted(t)
  <2>0. /\ IsFiniteSet(ClosingSet(s)) /\ IsFiniteSet(WaitingSet(s))
        /\ s.num_closing = Cardinality(ClosingSet(s))
        /\ s.num_waiting = Cardinality(WaitingSet(s))
    BY SetsFinite DEF Table, Counted
  <2>1. ClosingSet(t) = ClosingSet(s)
    <3>1. ~Closing(t, c)
      BY <1>17 DEF Closing
    <3>2. \A e \in Live(s) : Closing(t, e) <=> Closing(s, e)
      BY <1>17 DEF Closing, q
    <3> QED BY <1>17, <3>1, <3>2 DEF ClosingSet
  <2>2. WaitingSet(t) = IF w # {} THEN WaitingSet(s) \cup {n} ELSE WaitingSet(s) \ {n}
    BY <1>3, <1>10, <1>16 DEF WaitingSet
  <2>3. Cardinality(WaitingSet(t)) =
          Cardinality(WaitingSet(s)) - Count(n \in WaitingSet(s)) + Count(w # {})
    BY <2>0, <2>2, SwapElement
  <2>4. Count(n \in WaitingSet(s)) = Count(s.fds[n].events # {})
    BY <1>3 DEF WaitingSet, Count
  <2> QED BY <1>16, <2>0, <2>1, <2>3, <2>4 DEF Counted, j
<1>22. EventsBut(t, x)
  <2>1. ASSUME NEW e \in Live(s), e # old, s.conn[e].slot # x
        PROVE  t.fds[s.conn[e].slot].events = Wants(t, e)
    <3>1. s.fds[s.conn[e].slot].events = Wants(s, e)
      BY <2>1 DEF Table, EventsBut
    <3>2. SlotExact(s, e) /\ s.conn[e].slot # n
      BY <1>1, <1>18, <2>1
    <3>3. Wants(t, e) = Wants(s, e)
      BY <1>17, <1>19, <2>1, <3>2 DEF Wants, SlotExact
    <3> QED BY <1>10, <1>16, <3>1, <3>2, <3>3 DEF SlotExact
  <2>2. t.fds[n].events = w
    BY <1>3, <1>10, <1>16
  <2>3. Wants(t, c) = w /\ Wants(t, old) = w
    BY <1>1, <1>2, <1>17 DEF Wants, w
  <2> QED BY <1>17, <2>1, <2>2, <2>3 DEF EventsBut
<1>23. Step(s, t, old)
  <2>1. \A m \in 1 .. Len(s.fds) :
          t.fds[m].who = s.fds[m].who /\ t.fds[m].revents = s.fds[m].revents
    BY <1>10, <1>16
  <2>2. \A m \in 1 .. Len(t.fds) : m > Len(s.fds) => t.fds[m].revents = {}
    BY <1>1, <1>10, <1>16
  <2>3. \A e \in Live(s) : e # old =>
          /\ e \in Live(t) /\ t.conn[e].slot = s.conn[e].slot
          /\ Duplex(t, e) = Duplex(s, e)
          /\ pollflag(Plan(t, e)) = pollflag(Plan(s, e))
          /\ Closing(t, e) <=> Closing(s, e)
    BY <1>17 DEF Closing
  <2>4. \A e \in Live(t) \ Live(s) : ~Closing(t, e)
    BY <1>17 DEF Closing
  <2>5. \A e \in Live(t) : Plan(t, e) = "always" => e \in Live(s) /\ Plan(s, e) = "always"
    BY <1>17 DEF q
  <2>6. old \in Live(t) /\ t.conn[old].slot = s.conn[old].slot /\ Duplex(s, old) = None
    BY <1>4, <1>17
  <2>7. Len(t.fds) >= Len(s.fds)
    BY <1>1, <1>10, <1>16
  <2> QED BY <1>16, <2>1, <2>2, <2>3, <2>4, <2>5, <2>6, <2>7 DEF Step
<1> QED BY <1>4, <1>17, <1>20, <1>21, <1>22, <1>23 DEF Table, t, c, q

LEMMA EffectsTable ==
    ASSUME IoAssumption, NEW s, NEW x, Table(s, x), NEW t \in Effects(s)
    PROVE  Table(t, x) /\ Step(s, t, Listener)
<1>1. CASE t = s
  BY <1>1, StepSelf DEF Table
<1>2. CASE t \in Woken(s)
  BY <1>2, WokenTable
<1>3. CASE t \in Spawned(s, {"read", "write", "close"})
  <2>1. PICK k \in Free(s), p \in {"read", "write", "close"} : t = io_new_conn(s, k, p)
    BY <1>3 DEF Spawned
  <2> QED BY <2>1, NewConnTable
<1>4. ASSUME NEW k \in Free(s), t = io_duplex(io_new_conn(s, k, "write"), <<k, 1>>, "wait")
      PROVE  Table(t, x) /\ Step(s, t, Listener)
  <2> DEFINE u == io_new_conn(s, k, "write")
             c == <<k, 1>>
  <2>1. /\ Table(u, x) /\ Step(s, u, Listener)
        /\ c \in Live(u) /\ c \notin Live(s) /\ Duplex(u, c) = None
        /\ u.conn[c].slot > Len(s.fds)
    BY NewConnTable
  <2>2. t = io_duplex(u, c, "wait")
    BY <1>4
  <2> HIDE DEF u, c
  <2>3. Table(t, x) /\ Step(u, t, c)
    BY <2>1, <2>2, DuplexTable
  <2>4. Step(s, u, c)
    BY <2>1, StepWider
  <2>5. Shape(s) /\ Shape(u) /\ Shape(t)
    BY <2>1, <2>3 DEF Table
  <2>6. Step(s, t, c)
    BY <2>1, <2>3, <2>4, <2>5, StepThen
  <2> QED BY <2>1, <2>3, <2>6, StepNarrow
<1> QED BY <1>1, <1>2, <1>3, <1>4 DEF Effects

LEMMA TableSame ==
    ASSUME NEW s, NEW x, Table(s, x), NEW t \in LoopType, t.conn = s.conn,
           t.num_closing = s.num_closing, t.num_waiting = s.num_waiting,
           Len(t.fds) = Len(s.fds),
           \A n \in 1 .. Len(s.fds) :
             t.fds[n].who = s.fds[n].who /\ t.fds[n].events = s.fds[n].events
    PROVE  Table(t, x)
<1>1. /\ Live(t) = Live(s)
      /\ \A c : Plan(t, c) = Plan(s, c) /\ Duplex(t, c) = Duplex(s, c)
      /\ \A c : (Closing(t, c) <=> Closing(s, c)) /\ Wants(t, c) = Wants(s, c)
  BY DEF Live, Plan, Duplex, Closing, Wants
<1>2. \A c \in Live(s) : SlotExact(s, c) => SlotExact(t, c)
  BY <1>1 DEF SlotExact
<1>3. \A n \in 1 .. Len(s.fds) : WhoExact(s, n) => WhoExact(t, n)
  BY <1>1 DEF WhoExact
<1>4. Shape(t)
  BY <1>1, <1>2, <1>3 DEF Table, Shape
<1>5. ClosingSet(t) = ClosingSet(s) /\ WaitingSet(t) = WaitingSet(s)
  BY <1>1 DEF ClosingSet, WaitingSet
<1>6. EventsBut(t, x)
  <2>1. \A c \in Live(s) : s.conn[c].slot \in 1 .. Len(s.fds)
    BY DEF Table, Shape, SlotExact
  <2> QED BY <1>1, <2>1 DEF Table, EventsBut
<1> QED BY <1>4, <1>5, <1>6 DEF Table, Counted

(* What is left when io_ready(c) is over: the table is exact, and nothing  *)
(* but c changed for those who were there.                                 *)
Readied(s, u, c) ==
    /\ Table(u, 0)
    /\ u.pc # "end" =>
         /\ Step(s, u, c)
         /\ Plan(s, c) = "always" /\ Plan(u, c) = "always" => u.some_always

LEMMA ReadyTable ==
    ASSUME IoAssumption, NEW s, NEW c \in Live(s), Table(s, 0), NEW u \in Ready(s, c)
    PROVE  Readied(s, u, c)
<1> DEFINE clear == Clear(s, c)
           k == s.conn[c].slot
           Duplexed == IF Duplex(s, c) = None /\ c[2] = 1
                       THEN {io_duplex(clear, c, p) : p \in {"read", "wait"}} ELSE {}
<1>1. Shape(s) /\ c # Listener /\ {"close", "none"} \subseteq PlanKinds
  BY HalvesOfConn DEF Table, Live, PlanKinds
<1>2. Step(s, s, c)
  BY <1>1, StepSelf
<1>3. CASE u = s /\ Plan(s, c) # "always"
  BY <1>2, <1>3 DEF Readied
<1>4. CASE Closing(s, c)
  <2>1. u = s /\ Plan(s, c) # "always"
    BY <1>4 DEF Ready, Closing
  <2> QED BY <1>3, <2>1
<1>5. CASE ~Closing(s, c)
  <2>1. /\ Table(clear, k) /\ Step(s, clear, c)
        /\ Live(clear) = Live(s) /\ Plan(clear, c) = "none" /\ clear.conn[c].slot = k
        /\ Duplex(clear, c) = Duplex(s, c)
    BY <1>5, ClearTable
  <2>2. \/ \E t \in Effects(clear) \cup Duplexed : \E p \in Plans(t, c) : u = set_plan(t, c, p)
        \/ Plan(s, c) # "always" /\ (u = s \/ u = set_plan(s, c, "close"))
        \/ u = [set_plan(clear, c, "close") EXCEPT !.pc = "end"]
    <3> DEFINE Done(t) == {set_plan(t, c, p) : p \in Plans(t, c)}
               broken == [set_plan(clear, c, "close") EXCEPT !.pc = "end"]
               closed == set_plan(s, c, "close")
               T == Effects(clear) \cup Duplexed
    <3>1. u \in (UNION {Done(t) : t \in T})
                \cup (IF Plan(s, c) = "always" THEN {} ELSE {s, closed}) \cup {broken}
      BY <1>5, Zenon DEF Ready, Clear
    <3> HIDE DEF clear, broken, closed, T
    <3> QED BY <3>1 DEF broken, closed, T
  <2> HIDE DEF clear, k
  <2>3. ASSUME NEW t \in Effects(clear) \cup Duplexed, NEW p \in Plans(t, c),
               u = set_plan(t, c, p)
        PROVE  Readied(s, u, c)
    <3>1. p \in PlanKinds
      BY DEF Plans, PlanKinds
    <3>2. /\ Table(t, k) /\ Step(clear, t, c) /\ c \in Live(t) /\ ~Closing(t, c)
          /\ t.conn[c].slot = k
      <4>1. CASE t \in Effects(clear)
        <5>1. Table(t, k) /\ Step(clear, t, Listener)
          BY <2>1, <4>1, EffectsTable
        <5>2. c \in Live(t) /\ t.conn[c].slot = k /\ (Closing(t, c) <=> Closing(clear, c))
          BY <1>1, <2>1, <5>1 DEF Step
        <5>3. ~Closing(clear, c)
          BY <2>1 DEF Closing
        <5> QED BY <5>1, <5>2, <5>3, StepWider
      <4>2. CASE t \in Duplexed
        <5>1. PICK q \in {"read", "wait"} : t = io_duplex(clear, c, q)
          BY <4>2
        <5>2. Duplex(clear, c) = None
          BY <2>1, <4>2
        <5>3. /\ Table(t, k) /\ Step(clear, t, c)
              /\ Live(t) = Live(clear) \cup {Other(c)} /\ Plan(t, c) = Plan(clear, c)
              /\ t.conn[c].slot = clear.conn[c].slot
          BY <2>1, <5>1, <5>2, DuplexTable
        <5> QED BY <2>1, <5>3 DEF Closing
      <4> QED BY <4>1, <4>2
    <3>3. Table(u, 0) /\ Step(t, u, c)
      BY <2>3, <3>1, <3>2, SetPlanTable, SetPlanStep
    <3>4. Shape(clear) /\ Shape(t) /\ Shape(u)
      BY <2>1, <3>2, <3>3 DEF Table
    <3>5. Step(clear, u, c)
      BY <2>1, <3>2, <3>3, <3>4, StepThen
    <3>6. Step(s, u, c)
      BY <1>1, <2>1, <3>4, <3>5, StepThen
    <3>7. Plan(u, c) = "always" => u.some_always
      BY <2>1, <3>5 DEF Step
    <3> QED BY <3>3, <3>6, <3>7 DEF Readied
  <2>4. CASE Plan(s, c) # "always" /\ u = set_plan(s, c, "close")
    <3>1. Table(u, 0) /\ Step(s, u, c)
      BY <1>1, <1>5, <2>4, SetPlanTable, SetPlanStep
    <3> QED BY <2>4, <3>1 DEF Readied
  <2>5. CASE u = [set_plan(clear, c, "close") EXCEPT !.pc = "end"]
    <3> DEFINE t == set_plan(clear, c, "close")
    <3>1. Table(t, 0)
      <4>1. ~Closing(clear, c)
        BY <2>1 DEF Closing
      <4> QED BY <1>1, <2>1, <4>1, SetPlanTable
    <3>2. u = [t EXCEPT !.pc = "end"]
      BY <2>5
    <3> HIDE DEF t
    <3>3. t \in LoopType
      BY <3>1 DEF Table, Shape
    <3>4. /\ u \in LoopType /\ u.conn = t.conn /\ u.fds = t.fds /\ u.pc = "end"
          /\ u.num_closing = t.num_closing /\ u.num_waiting = t.num_waiting
      BY <3>2, <3>3 DEF LoopType
    <3>5. Table(u, 0)
      BY <3>1, <3>4, TableSame
    <3> QED BY <3>4, <3>5 DEF Readied
  <2> QED BY <1>3, <2>2, <2>3, <2>4, <2>5
<1> QED BY <1>4, <1>5

-----------------------------------------------------------------------------
(* Io: a connection that is gone *)

Removed(s, t, c) ==
    /\ Table(t, 0) /\ Live(t) = Live(s) \ {c}
    /\ \A e \in Live(t) : Plan(t, e) = Plan(s, e)
    /\ t.some_always = s.some_always /\ t.pc = s.pc /\ t.at = s.at /\ t.half = s.half

LEMMA FrontOf ==
    ASSUME NEW S, NEW q \in Seq(S), Len(q) > 0
    PROVE  /\ Front(q) \in Seq(S) /\ Len(Front(q)) = Len(q) - 1
           /\ \A m \in 1 .. Len(q) - 1 : Front(q)[m] = q[m]
<1>1. Len(q) \in Nat /\ \A m \in 1 .. Len(q) : q[m] \in S
  BY LenProperties, ElementOfSeq
<1> DEFINE k == Len(q) - 1
<1>2. k \in Nat /\ 1 \in Int /\ k \in Int
  BY <1>1
<1>3. \A m \in 1 .. k : q[m] \in S
  BY <1>1
<1> HIDE DEF k
<1>4. /\ SubSeq(q, 1, k) \in Seq(S)
      /\ Len(SubSeq(q, 1, k)) = IF 1 <= k THEN k - 1 + 1 ELSE 0
      /\ \A i \in 1 .. k - 1 + 1 : SubSeq(q, 1, k)[i] = q[1 + i - 1]
  BY <1>2, <1>3, SubSeqProperties
<1>5. k - 1 + 1 = k /\ (~(1 <= k) => k = 0) /\ \A i \in 1 .. k : 1 + i - 1 = i
  BY <1>2
<1> QED BY <1>4, <1>5 DEF Front, k

(* A half of a duplex goes: the other has the slot for itself. *)
LEMMA HalfRemoved ==
    ASSUME IoAssumption, NEW s, NEW c \in Live(s), Table(s, 0), Closing(s, c),
           Duplex(s, c) # None
    PROVE  Removed(s, backend_del_conn(s, c), c)
<1> DEFINE d == Duplex(s, c)
           n == s.conn[c].slot
           t == backend_del_conn(s, c)
           f == [s.conn EXCEPT ![d].duplex = None]
           h == [f EXCEPT ![c] = Gone]
           g == [s.fds EXCEPT ![n].who = d]
           i == s.num_closing - 1
<1>1. /\ s \in LoopType /\ Shape(s)
      /\ \A e \in Live(s) : SlotExact(s, e) /\ e \in Conns
      /\ \A m \in 1 .. Len(s.fds) : WhoExact(s, m)
      /\ \A e \in Conns \ Live(s) : s.conn[e] = Gone
      /\ Len(s.fds) \in Nat /\ s.fds \in Seq(FdType) /\ s.conn \in [Conns -> ConnType]
  BY SetsFinite DEF Table, Shape, Live, LoopType
<1>2. /\ d = Other(c) /\ d \in Live(s) /\ d \in Conns /\ d # c /\ Other(d) = c
      /\ s.conn[d].slot = n /\ n \in 1 .. Len(s.fds) /\ None \notin Conns /\ Listener \notin Conns
  <2>1. SlotExact(s, c) /\ c \in Conns
    BY <1>1
  <2>2. d = Other(c) /\ d \in Live(s)
    BY <2>1 DEF SlotExact
  <2> QED BY <2>1, <2>2, HalvesOfConn DEF SlotExact
<1>3. t = [s EXCEPT !.conn = h, !.fds = g, !.num_closing = i]
  BY DEF backend_del_conn
<1> HIDE DEF t, d, n
<1>4. i \in Int
  BY <1>1 DEF LoopType
<1> HIDE DEF i
<1>5. /\ f \in [Conns -> ConnType]
      /\ f[d].slot = n /\ f[d].duplex = None /\ f[d].plan = s.conn[d].plan
      /\ \A e \in Conns : e # d => f[e] = s.conn[e]
  BY <1>1, <1>2 DEF ConnType
<1>6. Gone \in ConnType /\ Gone.slot = 0
  BY DEF Gone, ConnType, PlanKinds
<1>7. /\ h \in [Conns -> ConnType] /\ h[c] = Gone
      /\ h[d].slot = n /\ h[d].duplex = None /\ h[d].plan = s.conn[d].plan
      /\ \A e \in Conns : e # d /\ e # c => h[e] = s.conn[e]
  <2> HIDE DEF f
  <2> QED BY <1>1, <1>2, <1>5, <1>6
<1>8. /\ g \in Seq(FdType) /\ Len(g) = Len(s.fds)
      /\ \A m \in 1 .. Len(s.fds) : /\ g[m].events = s.fds[m].events
                                    /\ g[m].who = IF m = n THEN d ELSE s.fds[m].who
  <2> DEFINE fd == [s.fds[n] EXCEPT !.who = d]
  <2>1. \A m \in 1 .. Len(s.fds) : s.fds[m] \in FdType
    BY <1>1, ElementOfSeq
  <2>2. fd \in FdType /\ fd.who = d /\ fd.events = s.fds[n].events
    BY <1>2, <2>1 DEF FdType
  <2>3. g = [s.fds EXCEPT ![n] = fd]
    OBVIOUS
  <2> HIDE DEF fd, g
  <2>4. /\ g \in Seq(FdType) /\ Len(g) = Len(s.fds)
        /\ \A m \in 1 .. Len(s.fds) : g[m] = IF m = n THEN fd ELSE s.fds[m]
    BY <1>1, <1>2, <2>2, <2>3, ExceptSeq
  <2> QED BY <2>2, <2>4
<1> HIDE DEF f, h, g
<1>9. /\ t \in LoopType /\ t.conn = h /\ t.fds = g /\ t.num_closing = i
      /\ t.num_waiting = s.num_waiting /\ t.some_always = s.some_always
      /\ t.pc = s.pc /\ t.at = s.at /\ t.half = s.half
  BY <1>1, <1>3, <1>4, <1>7, <1>8 DEF LoopType
<1>10. /\ Live(t) = Live(s) \ {c}
       /\ t.conn[d].slot = n /\ Duplex(t, d) = None
       /\ \A e \in Live(t) : /\ e \in Conns /\ e \in Live(s) /\ t.conn[e].slot = s.conn[e].slot
                             /\ Plan(t, e) = Plan(s, e)
                             /\ e # d => Duplex(t, e) = Duplex(s, e)
  BY <1>1, <1>2, <1>6, <1>7, <1>9 DEF Live, Plan, Duplex
<1>11. \A e \in Live(t) : e # d => Other(e) # c /\ Other(e) # d /\ e # c
  <2> SUFFICES ASSUME NEW e \in Live(t), e # d PROVE Other(e) # c /\ Other(e) # d /\ e # c
    OBVIOUS
  <2>1. Other(Other(e)) = e /\ Other(c) = d /\ Other(d) = c /\ e # c
    BY <1>2, <1>10, HalvesOfConn
  <2> QED BY <2>1
<1>12. \A e \in Live(t) : e # d => s.conn[e].slot # n
  <2> SUFFICES ASSUME NEW e \in Live(t), e # d, s.conn[e].slot = n PROVE FALSE
    OBVIOUS
  <2>1. SlotExact(s, e) /\ SlotExact(s, c) /\ e \in Conns
    BY <1>1, <1>10
  <2>2. s.fds[n].who \in {e, Other(e)} /\ s.fds[n].who \in {c, d}
    BY <1>2, <2>1 DEF SlotExact, n
  <2> QED BY <1>11, <2>2
<1>13. Shape(t)
  <2>1. \A e \in Conns \ Live(t) : t.conn[e] = Gone
    BY <1>1, <1>2, <1>7, <1>9, <1>10
  <2>2. ASSUME NEW e \in Live(t), e # d PROVE SlotExact(t, e)
    <3>1. SlotExact(s, e) /\ e \in Conns /\ s.conn[e].slot # n
      BY <1>1, <1>10, <1>12, <2>2
    <3>2. /\ Other(e) \in Live(t) <=> Other(e) \in Live(s)
          /\ Other(e) \in Live(t) => t.conn[Other(e)].slot = s.conn[Other(e)].slot
      BY <1>10, <1>11, <2>2
    <3> QED BY <1>8, <1>9, <1>10, <2>2, <3>1, <3>2 DEF SlotExact
  <2>3. SlotExact(t, d)
    BY <1>2, <1>8, <1>9, <1>10 DEF SlotExact
  <2>4. \A m \in 1 .. Len(s.fds) : WhoExact(t, m)
    <3> SUFFICES ASSUME NEW m \in 1 .. Len(s.fds) PROVE WhoExact(t, m)
      OBVIOUS
    <3>1. WhoExact(s, m)
      BY <1>1
    <3>2. CASE m = n
      BY <1>2, <1>8, <1>9, <1>10, <3>2 DEF WhoExact
    <3>3. CASE m # n
      <4>1. s.fds[m].who # c
        BY <1>2, <3>1, <3>3 DEF WhoExact, n, Live
      <4> QED BY <1>8, <1>9, <1>10, <3>1, <3>3, <4>1 DEF WhoExact
    <3> QED BY <3>2, <3>3
  <2>5. \A e \in Live(t) : SlotExact(t, e)
    BY <2>2, <2>3
  <2> QED BY <1>8, <1>9, <2>1, <2>4, <2>5 DEF Shape
<1>14. Counted(t)
  <2>0. /\ IsFiniteSet(ClosingSet(s)) /\ IsFiniteSet(WaitingSet(s))
        /\ s.num_closing = Cardinality(ClosingSet(s))
        /\ s.num_waiting = Cardinality(WaitingSet(s))
    BY SetsFinite DEF Table, Counted
  <2>1. ClosingSet(t) = ClosingSet(s) \ {c} /\ c \in ClosingSet(s)
    BY <1>10 DEF ClosingSet, Closing
  <2>2. WaitingSet(t) = WaitingSet(s)
    BY <1>8, <1>9 DEF WaitingSet
  <2>3. Cardinality(ClosingSet(t)) = Cardinality(ClosingSet(s)) - 1
    BY <2>0, <2>1, FS_RemoveElement
  <2> QED BY <1>9, <2>0, <2>2, <2>3 DEF Counted, i
<1>15. EventsBut(t, 0)
  <2>0. \A e \in Live(s) : s.fds[s.conn[e].slot].events = Wants(s, e)
    BY DEF Table, EventsBut, Live
  <2>1. ASSUME NEW e \in Live(t), e # d
        PROVE  t.fds[s.conn[e].slot].events = Wants(t, e)
    <3>1. SlotExact(s, e) /\ e \in Live(s)
      BY <1>1, <1>10
    <3>2. s.fds[s.conn[e].slot].events = Wants(s, e)
      BY <2>0, <3>1
    <3>3. Other(e) \in Live(s) => Other(e) \in Live(t)
      BY <1>10, <1>11, <2>1
    <3>4. Wants(t, e) = Wants(s, e)
      BY <1>10, <2>1, <3>1, <3>3 DEF Wants, SlotExact
    <3> QED BY <1>8, <1>9, <3>1, <3>2, <3>4 DEF SlotExact
  <2>2. t.fds[n].events = Wants(t, d)
    <3>1. s.fds[n].events = Wants(s, c)
      BY <2>0 DEF n
    <3>2. Wants(s, c) = pollflag(Plan(s, d))
      BY <1>2 DEF Wants, Closing, pollflag, d
    <3>3. Wants(t, d) = pollflag(Plan(s, d))
      BY <1>2, <1>10 DEF Wants
    <3> QED BY <1>2, <1>8, <1>9, <3>1, <3>2, <3>3
  <2> QED BY <1>10, <2>1, <2>2 DEF EventsBut
<1> QED BY <1>9, <1>10, <1>13, <1>14, <1>15 DEF Removed, Table, t

(* A descriptor goes: the last one is moved to its slot, with both halves. *)
LEMMA FdRemoved ==
    ASSUME IoAssumption, NEW s, NEW c \in Live(s), Table(s, 0), Closing(s, c),
           Duplex(s, c) = None
    PROVE  Removed(s, backend_del_conn(s, c), c)
<1> DEFINE n == s.conn[c].slot
           L == Len(s.fds)
           w == s.fds[L].who
           f == IF n = L THEN s.conn ELSE Moved(s, w, n)
           h == [f EXCEPT ![c] = Gone]
           q == IF n = L THEN s.fds ELSE [s.fds EXCEPT ![n] = s.fds[L]]
           g == Front(q)
           t == backend_del_conn(s, c)
           i == s.num_closing - 1
           j == s.num_waiting - Count(s.fds[n].events # {})
<1>1. /\ s \in LoopType /\ Shape(s)
      /\ \A e \in Live(s) : SlotExact(s, e) /\ e \in Conns
      /\ \A m \in 1 .. L : WhoExact(s, m)
      /\ \A e \in Conns \ Live(s) : s.conn[e] = Gone
      /\ L \in Nat /\ s.fds \in Seq(FdType) /\ s.conn \in [Conns -> ConnType]
  BY SetsFinite DEF Table, Shape, Live, LoopType
<1>2. /\ n \in 1 .. L /\ n \in Nat /\ n > 0 /\ L > 0 /\ L \in 1 .. L
      /\ c \in Conns /\ Other(c) \notin Live(s) /\ Other(c) \in Conns
      /\ None \notin Conns /\ Listener \notin Conns
      /\ s.fds[n].who = c
  <2>1. SlotExact(s, c) /\ c \in Conns
    BY <1>1
  <2>2. Other(c) \notin Live(s) /\ n \in 1 .. L
    BY <2>1, HalvesOfConn DEF SlotExact
  <2>3. WhoExact(s, n) /\ s.fds[n].who \in {c, Other(c)}
    BY <1>1, <2>1, <2>2 DEF SlotExact
  <2>4. s.fds[n].who = c
    BY <2>1, <2>2, <2>3, HalvesOfConn DEF WhoExact
  <2> QED BY <1>1, <2>1, <2>2, <2>4, HalvesOfConn
<1>3. t = [s EXCEPT !.conn = h, !.fds = g, !.num_waiting = j, !.num_closing = i]
  <2> DEFINE t0 == [s EXCEPT !.num_waiting = j]
             t1 == [s EXCEPT !.conn = f, !.fds = g, !.num_waiting = j]
  <2>1. t = [del_fd(s, n) EXCEPT !.conn[c] = Gone, !.num_closing = @ - 1]
    BY DEF backend_del_conn
  <2>2. del_fd(s, n) = IF n = L THEN [t0 EXCEPT !.fds = Front(s.fds)]
                       ELSE [t0 EXCEPT !.fds = Front([s.fds EXCEPT ![n] = s.fds[L]]),
                                       !.conn = Moved(s, w, n)]
    BY Zenon DEF del_fd
  <2>3. del_fd(s, n) = [t0 EXCEPT !.fds = g, !.conn = f]
    <3>1. CASE n = L
      <4>1. g = Front(s.fds) /\ f = s.conn
        BY <3>1
      <4> HIDE DEF g, f, n, L, j
      <4>2. del_fd(s, n) = [t0 EXCEPT !.fds = g]
        BY <2>2, <3>1, <4>1
      <4> QED BY <1>1, <4>1, <4>2 DEF LoopType
    <3>2. CASE n # L
      <4>1. g = Front([s.fds EXCEPT ![n] = s.fds[L]]) /\ f = Moved(s, w, n)
        BY <3>2
      <4> HIDE DEF g, f, n, L, j, w, t0
      <4> QED BY <2>2, <3>2, <4>1
    <3> QED BY <3>1, <3>2
  <2> HIDE DEF g, f, n, L, j, w, t
  <2>4. del_fd(s, n) = t1
    BY <1>1, <2>3 DEF LoopType
  <2>5. t1.conn = f /\ t1.num_closing = s.num_closing
    BY <1>1 DEF LoopType
  <2>6. t = [t1 EXCEPT !.conn = h, !.num_closing = i]
    <3> HIDE DEF t1
    <3> QED BY <2>1, <2>4, <2>5
  <2> HIDE DEF h, i
  <2> QED BY <1>1, <2>6 DEF LoopType
<1> HIDE DEF t
<1>4. i \in Int /\ j \in Int
  BY <1>1 DEF LoopType, Count
<1> HIDE DEF i, j
<1>5. w \in Conns => /\ w \in Live(s) /\ s.conn[w].slot = L
                     /\ s.conn[w].duplex = IF Other(w) \in Live(s) THEN Other(w) ELSE None
                     /\ Other(w) \in Conns /\ Other(w) # w /\ Other(Other(w)) = w
                     /\ Other(w) \in Live(s) => s.conn[Other(w)].slot = L
  <2> SUFFICES ASSUME w \in Conns
               PROVE  /\ w \in Live(s) /\ s.conn[w].slot = L
                      /\ s.conn[w].duplex = IF Other(w) \in Live(s) THEN Other(w) ELSE None
                      /\ Other(w) \in Conns /\ Other(w) # w /\ Other(Other(w)) = w
                      /\ Other(w) \in Live(s) => s.conn[Other(w)].slot = L
    OBVIOUS
  <2>1. WhoExact(s, L)
    BY <1>1, <1>2
  <2>2. w \in Live(s) /\ s.conn[w].slot = L
    BY <1>2, <2>1 DEF WhoExact
  <2>3. SlotExact(s, w)
    BY <1>1, <2>2
  <2> HIDE DEF w
  <2> QED BY <2>2, <2>3, HalvesOfConn DEF SlotExact, Duplex
<1>6. \A e \in Live(s) : s.conn[e].slot = L => e \in Conns /\ w \in Conns /\ (e = w \/ e = Other(w))
  <2> SUFFICES ASSUME NEW e \in Live(s), s.conn[e].slot = L
               PROVE  e \in Conns /\ w \in Conns /\ (e = w \/ e = Other(w))
    OBVIOUS
  <2>1. SlotExact(s, e) /\ e \in Conns
    BY <1>1
  <2>2. w \in {e, Other(e)}
    BY <2>1 DEF SlotExact
  <2> HIDE DEF w
  <2> QED BY <2>1, <2>2, HalvesOfConn
<1>7. \A e \in Live(s) \ {c} : s.conn[e].slot # n
  <2> SUFFICES ASSUME NEW e \in Live(s), e # c, s.conn[e].slot = n PROVE FALSE
    OBVIOUS
  <2>1. SlotExact(s, e) /\ e \in Conns
    BY <1>1
  <2>2. c \in {e, Other(e)}
    BY <1>2, <2>1 DEF SlotExact
  <2> QED BY <1>2, <2>1, <2>2, HalvesOfConn
<1> HIDE DEF w, n
<1>8. /\ f \in [Conns -> ConnType]
      /\ \A e \in Conns : f[e].plan = s.conn[e].plan /\ f[e].duplex = s.conn[e].duplex
      /\ \A e \in Conns \ Live(s) : f[e] = s.conn[e]
      /\ \A e \in Live(s) : e # c =>
           f[e].slot = IF s.conn[e].slot = L THEN n ELSE s.conn[e].slot
  <2>1. CASE n = L
    <3>1. f = s.conn
      BY <2>1
    <3> HIDE DEF f, L
    <3> QED BY <1>1, <1>7, <2>1, <3>1
  <2>2. CASE n # L /\ w \notin Conns
    <3>1. f = s.conn
      BY <2>2 DEF Moved, At_slot
    <3> HIDE DEF f, L
    <3> QED BY <1>1, <1>6, <2>2, <3>1
  <2>3. CASE n # L /\ w \in Conns
    <3> DEFINE d == s.conn[w].duplex
               f1 == [s.conn EXCEPT ![w].slot = n]
    <3>1. f1 \in [Conns -> ConnType] /\ f1[w].slot = n
          /\ \A e \in Conns : /\ f1[e].plan = s.conn[e].plan
                              /\ f1[e].duplex = s.conn[e].duplex
                              /\ e # w => f1[e] = s.conn[e]
      BY <1>1, <1>2, <2>3 DEF ConnType
    <3>2. f = IF d \in Conns THEN [f1 EXCEPT ![d].slot = n] ELSE f1
      BY <2>3 DEF Moved, At_slot
    <3>3. d = IF Other(w) \in Live(s) THEN Other(w) ELSE None
      BY <1>5, <2>3
    <3> HIDE DEF f, f1, d, L
    <3>4. CASE Other(w) \in Live(s)
      <4>1. d = Other(w) /\ d \in Conns /\ d \in Live(s) /\ d # w
        BY <1>5, <2>3, <3>3, <3>4
      <4>2. f \in [Conns -> ConnType] /\ f[d].slot = n /\ f[w] = f1[w]
            /\ \A e \in Conns : /\ f[e].plan = f1[e].plan
                                /\ f[e].duplex = f1[e].duplex
                                /\ e # d => f[e] = f1[e]
        <5>1. f = [f1 EXCEPT ![d].slot = n]
          BY <3>2, <4>1
        <5> QED BY <1>2, <2>3, <3>1, <4>1, <5>1 DEF ConnType
      <4>3. s.conn[w].slot = L /\ s.conn[d].slot = L /\ w \in Live(s)
        BY <1>5, <2>3, <4>1
      <4>4. \A e \in Live(s) : e \in Conns /\ (s.conn[e].slot = L => e = w \/ e = d)
        BY <1>1, <1>6, <4>1
      <4>5. \A e \in Conns \ Live(s) : f[e] = s.conn[e]
        BY <3>1, <4>1, <4>2, <4>3
      <4>6. \A e \in Conns : f[e].plan = s.conn[e].plan /\ f[e].duplex = s.conn[e].duplex
        BY <3>1, <4>2
      <4>7. \A e \in Live(s) : f[e].slot = IF s.conn[e].slot = L THEN n ELSE s.conn[e].slot
        BY <3>1, <4>1, <4>2, <4>3, <4>4
      <4> QED BY <4>2, <4>5, <4>6, <4>7
    <3>5. CASE Other(w) \notin Live(s)
      <4>1. f = f1
        BY <1>2, <3>2, <3>3, <3>5
      <4>2. s.conn[w].slot = L /\ w \in Live(s)
        BY <1>5, <2>3
      <4>3. \A e \in Live(s) : e \in Conns /\ (s.conn[e].slot = L => e = w)
        BY <1>1, <1>6, <3>5
      <4> QED BY <3>1, <4>1, <4>2, <4>3
    <3> QED BY <3>4, <3>5
  <2> QED BY <2>1, <2>2, <2>3
<1>9. /\ q \in Seq(FdType) /\ Len(q) = L
      /\ \A m \in 1 .. L : q[m] = IF m = n THEN s.fds[L] ELSE s.fds[m]
  <2>1. s.fds[L] \in FdType
    BY <1>1, <1>2, ElementOfSeq
  <2>2. CASE n = L
    <3>1. q = s.fds
      BY <2>2
    <3> HIDE DEF q
    <3> QED BY <1>1, <2>2, <3>1 DEF L
  <2>3. CASE n # L
    <3>1. q = [s.fds EXCEPT ![n] = s.fds[L]]
      BY <2>3
    <3> HIDE DEF q
    <3> QED BY <1>1, <1>2, <2>1, <3>1, ExceptSeq
  <2> QED BY <2>2, <2>3
<1> HIDE DEF f, q, L
<1>10. /\ g \in Seq(FdType) /\ Len(g) = L - 1
       /\ \A m \in 1 .. L - 1 : g[m] = IF m = n THEN s.fds[L] ELSE s.fds[m]
  <2>1. /\ g \in Seq(FdType) /\ Len(g) = Len(q) - 1
        /\ \A m \in 1 .. Len(q) - 1 : g[m] = q[m]
    BY <1>2, <1>9, FrontOf
  <2> HIDE DEF g
  <2>2. \A m \in 1 .. L - 1 : m \in 1 .. L
    BY <1>1
  <2> QED BY <1>9, <2>1, <2>2
<1>11. Gone \in ConnType /\ Gone.slot = 0
  BY DEF Gone, ConnType, PlanKinds
<1>12. /\ h \in [Conns -> ConnType] /\ h[c] = Gone
       /\ \A e \in Conns : e # c => h[e] = f[e]
  BY <1>2, <1>8, <1>11
<1> HIDE DEF g, h
<1>13. /\ t \in LoopType /\ t.conn = h /\ t.fds = g /\ t.num_closing = i
       /\ t.num_waiting = j /\ t.some_always = s.some_always
       /\ t.pc = s.pc /\ t.at = s.at /\ t.half = s.half
  BY <1>1, <1>3, <1>4, <1>10, <1>12 DEF LoopType
<1>14. \A e \in Live(s) : /\ e \in Conns /\ s.conn[e].slot > 0 /\ s.conn[e].slot \in 1 .. L
                          /\ e # c => s.conn[e].slot # n
  <2>1. \A e \in Live(s) : SlotExact(s, e) => s.conn[e].slot \in 1 .. L
    BY DEF SlotExact, L
  <2> QED BY <1>1, <1>7, <2>1 DEF Live
<1>15. /\ Live(t) = Live(s) \ {c}
       /\ \A e \in Live(t) :
            /\ e \in Conns /\ e \in Live(s) /\ e # c
            /\ t.conn[e].slot = IF s.conn[e].slot = L THEN n ELSE s.conn[e].slot
            /\ t.conn[e].slot \in 1 .. L - 1
            /\ Plan(t, e) = Plan(s, e) /\ Duplex(t, e) = Duplex(s, e)
  <2>1. \A e \in Live(s) : e # c =>
            /\ t.conn[e].slot = IF s.conn[e].slot = L THEN n ELSE s.conn[e].slot
            /\ Plan(t, e) = Plan(s, e) /\ Duplex(t, e) = Duplex(s, e)
    BY <1>1, <1>8, <1>12, <1>13 DEF Plan, Duplex
  <2>2. \A e \in Live(s) : e # c => t.conn[e].slot \in 1 .. L - 1 /\ t.conn[e].slot > 0
    BY <1>1, <1>2, <1>14, <2>1
  <2>3. \A e \in Conns \ Live(s) : e # c /\ t.conn[e] = Gone
    BY <1>1, <1>8, <1>12, <1>13
  <2>4. t.conn[c].slot = 0
    BY <1>11, <1>12, <1>13
  <2>5. \A e \in Conns : e \in Live(t) <=> e \in Live(s) /\ e # c
    BY <1>11, <2>2, <2>3, <2>4 DEF Live
  <2>6. Live(t) \subseteq Conns /\ Live(s) \subseteq Conns
    BY DEF Live
  <2> QED BY <2>1, <2>2, <2>5, <2>6
<1>16. /\ L \in Nat /\ L > 0 /\ n \in 1 .. L /\ Len(t.fds) = L - 1 /\ Len(t.fds) \in Nat
       /\ \A m \in 1 .. L - 1 : m \in 1 .. L /\ m # L
                                /\ t.fds[m] = IF m = n THEN s.fds[L] ELSE s.fds[m]
  BY <1>1, <1>2, <1>10, <1>13
<1>17. Shape(t)
  <2>1. \A e \in Conns \ Live(t) : t.conn[e] = Gone
    BY <1>1, <1>8, <1>12, <1>13, <1>15
  <2>2. ASSUME NEW e \in Live(t) PROVE SlotExact(t, e)
    <3>1. SlotExact(s, e) /\ e \in Conns /\ Other(e) # c
      <4>1. Other(Other(e)) = e /\ Other(c) \notin Live(s) /\ e \in Live(s)
        BY <1>2, <1>15, HalvesOfConn
      <4> QED BY <1>1, <1>15, <4>1
    <3>2. /\ Other(e) \in Live(t) <=> Other(e) \in Live(s)
          /\ Other(e) \in Live(t) => t.conn[Other(e)].slot = t.conn[e].slot
      <4>1. Other(e) \in Live(t) <=> Other(e) \in Live(s)
        BY <1>15, <3>1
      <4> QED BY <1>15, <3>1, <4>1 DEF SlotExact
    <3>3. t.fds[t.conn[e].slot] = s.fds[s.conn[e].slot]
      <4>1. e \in Live(s) /\ s.conn[e].slot # n
        BY <1>14, <1>15
      <4> QED BY <1>15, <1>16, <4>1
    <3> QED BY <1>15, <1>16, <3>1, <3>2, <3>3 DEF SlotExact
  <2>3. \A m \in 1 .. L - 1 : WhoExact(t, m)
    <3> SUFFICES ASSUME NEW m \in 1 .. L - 1 PROVE WhoExact(t, m)
      OBVIOUS
    <3> DEFINE o == IF m = n THEN L ELSE m
    <3>1. t.fds[m] = s.fds[o] /\ o \in 1 .. L /\ o # n
      BY <1>16
    <3>2. WhoExact(s, o)
      BY <1>1, <1>16, <3>1
    <3>3. s.fds[o].who # c
      <4>1. s.conn[c].slot = n
        BY DEF n
      <4> QED BY <1>2, <3>1, <3>2, <4>1 DEF WhoExact
    <3>4. \A e \in Live(t) : s.conn[e].slot = o => t.conn[e].slot = m
      BY <1>14, <1>15, <1>16
    <3> QED BY <1>15, <3>1, <3>2, <3>3, <3>4 DEF WhoExact
  <2> QED BY <1>13, <1>16, <2>1, <2>2, <2>3 DEF Shape
<1>18. Counted(t)
  <2>0. /\ IsFiniteSet(ClosingSet(s)) /\ IsFiniteSet(WaitingSet(s))
        /\ s.num_closing = Cardinality(ClosingSet(s))
        /\ s.num_waiting = Cardinality(WaitingSet(s))
        /\ Cardinality(WaitingSet(s)) \in Nat
    BY SetsFinite, FS_CardinalityType DEF Table, Counted
  <2>1. ClosingSet(t) = ClosingSet(s) \ {c} /\ c \in ClosingSet(s)
    BY <1>15 DEF ClosingSet, Closing
  <2>2. Cardinality(ClosingSet(t)) = Cardinality(ClosingSet(s)) - 1
    BY <2>0, <2>1, FS_RemoveElement
  <2> DEFINE W == WaitingSet(s)
             W1 == W \ {L}
             W2 == WaitingSet(t)
             b == L \in W
  <2>3. W2 = IF n = L THEN W1 ELSE IF b THEN W1 \cup {n} ELSE W1 \ {n}
    <3>1. \A m : m \in W2 <=> m \in 1 .. L - 1 /\ (IF m = n THEN s.fds[L] ELSE s.fds[m]).events # {}
      BY <1>16 DEF WaitingSet
    <3>2. \A m : m \in W <=> m \in 1 .. L /\ s.fds[m].events # {}
      BY DEF WaitingSet, L
    <3>3. \A m : m \in 1 .. L - 1 <=> m \in 1 .. L /\ m # L
      BY <1>16
    <3>4. L \in 1 .. L /\ n \in 1 .. L
      BY <1>16
    <3> HIDE DEF W, W2
    <3>5. CASE n = L
      BY <3>1, <3>2, <3>3, <3>5
    <3>6. CASE n # L
      BY <3>1, <3>2, <3>3, <3>4, <3>6
    <3> QED BY <3>5, <3>6
  <2>4. Count(n \in W) = Count(s.fds[n].events # {})
    BY <1>2 DEF WaitingSet, Count, L
  <2>5. Cardinality(W2) = Cardinality(W) - Count(n \in W)
    <3> HIDE DEF W2
    <3>1. /\ IsFiniteSet(W1)
          /\ Cardinality(W1) = Cardinality(W) - Count(b) + Count(FALSE)
      BY <2>0, SwapElement
    <3> HIDE DEF W
    <3>2. CASE n = L
      BY <2>0, <2>3, <3>1, <3>2 DEF Count, W
    <3>3. CASE n # L
      <4>1. Cardinality(W2) = Cardinality(W1) - Count(n \in W1) + Count(b)
        <5> HIDE DEF W1
        <5>1. W2 = IF b THEN W1 \cup {n} ELSE W1 \ {n}
          BY <2>3, <3>3
        <5>2. b \in BOOLEAN
          OBVIOUS
        <5> HIDE DEF b
        <5> QED BY <3>1, <5>1, <5>2, SwapElement
      <4>2. n \in W1 <=> n \in W
        BY <3>3
      <4> HIDE DEF W1
      <4> QED BY <2>0, <3>1, <4>1, <4>2 DEF Count, W
    <3> QED BY <3>2, <3>3
  <2> QED BY <1>13, <2>0, <2>2, <2>4, <2>5 DEF Counted, i, j
<1>19. EventsBut(t, 0)
  <2> SUFFICES ASSUME NEW e \in Live(t) PROVE t.fds[t.conn[e].slot].events = Wants(t, e)
    BY DEF EventsBut
  <2>1. SlotExact(s, e) /\ e \in Live(s)
    BY <1>1, <1>15
  <2>2. s.fds[s.conn[e].slot].events = Wants(s, e)
    BY <2>1 DEF Table, EventsBut, Live
  <2>3. Other(e) # c /\ (Other(e) \in Live(s) => Other(e) \in Live(t))
    <3>1. Other(Other(e)) = e /\ Other(c) \notin Live(s)
      BY <1>2, <1>15, HalvesOfConn
    <3> QED BY <1>15, <2>1, <3>1
  <2>4. Wants(t, e) = Wants(s, e)
    BY <1>15, <2>1, <2>3 DEF Wants, SlotExact
  <2>5. t.fds[t.conn[e].slot] = s.fds[s.conn[e].slot]
    <3>1. s.conn[e].slot # n
      BY <1>14, <1>15
    <3> QED BY <1>15, <1>16, <3>1
  <2> QED BY <2>2, <2>4, <2>5
<1> QED BY <1>13, <1>15, <1>17, <1>18, <1>19 DEF Removed, Table, t

LEMMA DelTable ==
    ASSUME IoAssumption, NEW s, NEW c \in Live(s), Table(s, 0), Closing(s, c)
    PROVE  Removed(s, backend_del_conn(s, c), c)
  BY HalfRemoved, FdRemoved

(* One turn of finish_conns() and its callback. *)
Dropped(s, u, c) ==
    /\ Table(u, 0) /\ Live(s) \ {c} \subseteq Live(u)
    /\ u.pc = s.pc /\ u.at = s.at /\ u.half = s.half
    /\ s.some_always => u.some_always
    /\ \A e \in Live(u) : Plan(u, e) = "always" =>
         u.some_always \/ (e \in Live(s) /\ Plan(s, e) = "always")

LEMMA FinishedTable ==
    ASSUME IoAssumption, NEW s, NEW c \in Live(s), Table(s, 0), Closing(s, c),
           NEW u \in Finished(s, c)
    PROVE  Dropped(s, u, c)
<1> DEFINE t == backend_del_conn(s, c)
<1>1. Removed(s, t, c)
  BY DelTable
<1>2. \/ u = t \/ u \in Woken(t) \/ u \in Spawned(t, {"read"})
      \/ \E d \in Live(t) : u = io_close_other(t, d)
  BY DEF Finished
<1> HIDE DEF t
<1>3. Table(t, 0)
  BY <1>1 DEF Removed
<1>4. ASSUME NEW d, Table(u, 0), Step(t, u, d) PROVE Dropped(s, u, c)
  BY <1>1, <1>4 DEF Removed, Step, Dropped
<1>5. CASE u = t
  BY <1>1, <1>5 DEF Removed, Dropped
<1>6. CASE u \in Woken(t)
  BY <1>3, <1>4, <1>6, WokenTable
<1>7. CASE u \in Spawned(t, {"read"})
  <2>1. PICK k \in Free(t) : u = io_new_conn(t, k, "read")
    BY <1>7 DEF Spawned
  <2>2. Table(u, 0) /\ Step(t, u, Listener)
    BY <1>3, <2>1, NewConnTable
  <2> QED BY <1>4, <2>2
<1>8. ASSUME NEW d \in Live(t), u = io_close_other(t, d) PROVE Dropped(s, u, c)
  <2>1. CASE Closing(t, d)
    BY <1>5, <1>8, <2>1 DEF io_close_other
  <2>2. CASE ~Closing(t, d)
    <3>1. u = set_plan(t, d, "close") /\ "close" \in PlanKinds
      BY <1>8, <2>2 DEF io_close_other, PlanKinds
    <3>2. Table(u, 0) /\ Step(t, u, d)
      BY <1>3, <2>2, <3>1, SetPlanTable, SetPlanStep
    <3> QED BY <1>4, <3>2
  <2> QED BY <2>1, <2>2
<1> QED BY <1>2, <1>5, <1>6, <1>7, <1>8

-----------------------------------------------------------------------------
(* Io: the loop *)

(* No one who is always ready is overlooked. *)
Quiet(s) == ~s.some_always => \A e \in Live(s) : Plan(s, e) # "always"

(* handle_always() is yet to come to them. *)
Turns(s) ==
    ~s.some_always => \A e \in Live(s) : Plan(s, e) = "always" =>
        \/ s.conn[e].slot > s.at
        \/ s.conn[e].slot = s.at /\ (s.half = 0 \/ e # s.fds[s.at].who)

(* What poll() reported after slot k is wanted, and who hung up is open. *)
Reported(s, k) ==
    /\ \A n \in 1 .. Len(s.fds) : n > k =>
         /\ s.fds[n].revents \ {"hup"} \subseteq s.fds[n].events
         /\ "hup" \in s.fds[n].revents => s.fds[n].revents = {"hup"}
    /\ \A e \in Live(s) :
         s.conn[e].slot > k /\ "hup" \in s.fds[s.conn[e].slot].revents => ~Closing(s, e)

Phase(s) ==
    /\ s.pc \in {"top", "finish"} => s.half = 0
    /\ s.pc \in {"finish", "always", "poll"} => s.at > 0
    /\ s.pc \in {"top", "poll", "finish"} => Quiet(s)
    /\ s.pc = "always" => Turns(s)
    /\ s.pc = "poll" => Reported(s, s.at - 1)

LoopInv == Table(io, 0) /\ Phase(io)

LEMMA QuietKept == ASSUME NEW s, NEW t, NEW c, Quiet(s), Step(s, t, c) PROVE Quiet(t)
  BY DEF Quiet, Step

LEMMA ReportedKept ==
    ASSUME IoAssumption, NEW s, NEW t, NEW c, Table(s, 0), Table(t, 0), Step(s, t, c),
           NEW k \in Nat, c \in Live(s) => s.conn[c].slot <= k, Reported(s, k)
    PROVE  Reported(t, k)
<1>1. /\ Len(s.fds) \in Nat /\ Len(t.fds) \in Nat /\ Len(s.fds) <= Len(t.fds)
      /\ \A e \in Live(s) : SlotExact(s, e) /\ e \in Conns /\ e # Listener
      /\ \A e \in Live(t) : SlotExact(t, e) /\ e \in Conns /\ e # Listener
      /\ \A n \in 1 .. Len(s.fds) : WhoExact(s, n)
      /\ \A n \in 1 .. Len(t.fds) : WhoExact(t, n)
      /\ \A e \in Live(s) : s.conn[e].slot \in Nat
      /\ \A e \in Live(t) : t.conn[e].slot \in Nat
      /\ None \notin Conns
  BY SetsFinite, HalvesOfConn DEF Table, Shape, Step, Live, LoopType, ConnType
<1>2. ASSUME NEW n \in 1 .. Len(s.fds), n > k PROVE s.fds[n].events \subseteq t.fds[n].events
  <2>1. WhoExact(s, n) /\ WhoExact(t, n) /\ t.fds[n].who = s.fds[n].who
    BY <1>1, <1>2 DEF Step
  <2>2. CASE s.fds[n].who = Listener
    BY <1>1, <2>1, <2>2 DEF WhoExact
  <2>3. CASE s.fds[n].who # Listener
    <3> DEFINE e == s.fds[n].who
    <3>1. e \in Live(s) /\ s.conn[e].slot = n /\ e # c
      BY <1>1, <1>2, <2>1, <2>3 DEF WhoExact
    <3>2. /\ e \in Live(t) /\ t.conn[e].slot = n /\ Duplex(t, e) = Duplex(s, e)
          /\ pollflag(Plan(t, e)) = pollflag(Plan(s, e))
      BY <3>1 DEF Step
    <3> HIDE DEF e
    <3>3. s.fds[n].events = Wants(s, e) /\ t.fds[n].events = Wants(t, e)
      <4>1. n # 0
        OBVIOUS
      <4> QED BY <3>1, <3>2, <4>1 DEF Table, EventsBut
    <3>4. Duplex(s, e) # None =>
            pollflag(Plan(t, Duplex(s, e))) = pollflag(Plan(s, Duplex(s, e)))
      <4> SUFFICES ASSUME Duplex(s, e) # None
                   PROVE  pollflag(Plan(t, Duplex(s, e))) = pollflag(Plan(s, Duplex(s, e)))
        OBVIOUS
      <4>1. Duplex(s, e) \in Live(s) /\ s.conn[Duplex(s, e)].slot = n
        BY <1>1, <3>1 DEF SlotExact
      <4>2. Duplex(s, e) # c
        BY <1>1, <1>2, <4>1
      <4> QED BY <4>1, <4>2 DEF Step
    <3> QED BY <3>2, <3>3, <3>4 DEF Wants
  <2> QED BY <2>2, <2>3
<1>3. ASSUME NEW n \in 1 .. Len(t.fds), n > k
      PROVE  /\ t.fds[n].revents \ {"hup"} \subseteq t.fds[n].events
             /\ "hup" \in t.fds[n].revents => t.fds[n].revents = {"hup"}
  <2>1. CASE n > Len(s.fds)
    BY <2>1 DEF Step
  <2>2. CASE ~(n > Len(s.fds))
    <3>1. n \in 1 .. Len(s.fds)
      BY <1>1, <2>2
    <3>2. t.fds[n].revents = s.fds[n].revents /\ s.fds[n].events \subseteq t.fds[n].events
      BY <1>2, <1>3, <3>1 DEF Step
    <3> QED BY <1>3, <3>1, <3>2 DEF Reported
  <2> QED BY <2>1, <2>2
<1>4. ASSUME NEW e \in Live(t), t.conn[e].slot > k, "hup" \in t.fds[t.conn[e].slot].revents
      PROVE  ~Closing(t, e)
  <2> DEFINE n == t.conn[e].slot
  <2>1. n \in 1 .. Len(t.fds)
    BY <1>1 DEF SlotExact
  <2>2. ~(n > Len(s.fds))
    BY <1>4, <2>1 DEF Step
  <2>3. CASE e \in Live(s)
    <3>1. s.conn[e].slot = n
      BY <2>3 DEF Step
    <3>2. e # c
      BY <1>1, <1>4, <2>3, <3>1
    <3>3. n \in 1 .. Len(s.fds)
      BY <1>1, <2>1, <2>2
    <3>4. t.fds[n].revents = s.fds[n].revents
      BY <3>3 DEF Step
    <3>5. ~Closing(s, e)
      BY <1>4, <2>3, <3>1, <3>4 DEF Reported
    <3> QED BY <2>3, <3>2, <3>5 DEF Step
  <2>4. CASE e \notin Live(s)
    BY <2>2, <2>4 DEF Step
  <2> QED BY <2>3, <2>4
<1> QED BY <1>3, <1>4 DEF Reported

(* Whose turn it is. *)
LEMMA TurnOf ==
    ASSUME IoAssumption, NEW s, Table(s, 0), s.at > 0, s.at <= Len(s.fds)
    PROVE  LET c == At(s).who
               d == Duplex(s, c)
           IN /\ s.at \in 1 .. Len(s.fds) /\ Len(s.fds) \in Nat
              /\ c = Listener => \A e \in Live(s) : s.conn[e].slot # s.at
              /\ c # Listener =>
                   /\ c \in Live(s) /\ s.conn[c].slot = s.at
                   /\ d # None => /\ d \in Live(s) /\ d # c /\ s.conn[d].slot = s.at
                                  /\ Duplex(s, d) = c
                   /\ \A e \in Live(s) : s.conn[e].slot = s.at => e = c \/ (e = d /\ d # None)
<1> DEFINE c == At(s).who
           d == Duplex(s, c)
<1>1. /\ s.at \in 1 .. Len(s.fds) /\ Len(s.fds) \in Nat
      /\ \A e \in Live(s) : SlotExact(s, e) /\ e \in Conns
      /\ WhoExact(s, s.at)
  <2>1. s.at \in Nat /\ Len(s.fds) \in Nat
    BY SetsFinite DEF Table, Shape, LoopType
  <2>2. s.at \in 1 .. Len(s.fds)
    BY <2>1
  <2> QED BY <2>1, <2>2 DEF Table, Shape, Live
<1>2. \A e \in Live(s) : s.conn[e].slot = s.at => c \in {e, Other(e)}
  BY <1>1 DEF SlotExact, At
<1>3. c = Listener => \A e \in Live(s) : s.conn[e].slot # s.at
  BY <1>1, <1>2, HalvesOfConn
<1>4. ASSUME c # Listener
      PROVE  /\ c \in Live(s) /\ s.conn[c].slot = s.at
             /\ d # None => /\ d \in Live(s) /\ d # c /\ s.conn[d].slot = s.at
                            /\ Duplex(s, d) = c
             /\ \A e \in Live(s) : s.conn[e].slot = s.at => e = c \/ (e = d /\ d # None)
  <2>1. c \in Live(s) /\ s.conn[c].slot = s.at
    BY <1>1, <1>4 DEF WhoExact, At
  <2>2. SlotExact(s, c) /\ c \in Conns
    BY <1>1, <2>1
  <2>3. d # None => /\ d = Other(c) /\ d \in Live(s) /\ d # c /\ s.conn[d].slot = s.at
                    /\ Duplex(s, d) = c
    <3>1. d # None => d = Other(c) /\ d \in Live(s) /\ d # c /\ s.conn[d].slot = s.at
      BY <2>1, <2>2, HalvesOfConn DEF SlotExact
    <3>2. d # None => SlotExact(s, d)
      BY <1>1, <3>1
    <3> HIDE DEF d, c
    <3> QED BY <2>1, <2>2, <3>1, <3>2, HalvesOfConn DEF SlotExact
  <2>4. \A e \in Live(s) : s.conn[e].slot = s.at => e = c \/ (e = d /\ d # None)
    <3> SUFFICES ASSUME NEW e \in Live(s), s.conn[e].slot = s.at, e # c
                 PROVE  e = d /\ d # None
      OBVIOUS
    <3>1. e = Other(c) /\ e # None
      BY <1>1, <1>2, HalvesOfConn
    <3> QED BY <2>2, <3>1 DEF SlotExact
  <2> HIDE DEF c, d
  <2> QED BY <2>1, <2>3, <2>4
<1> HIDE DEF c, d
<1> QED BY <1>1, <1>3, <1>4, Zenon DEF c, d

LEMMA LeaveTable ==
    ASSUME NEW s, Table(s, 0)
    PROVE  LET t == Leave(s) IN
           /\ Table(t, 0) /\ t.pc = "top" /\ t.half = 0
           /\ Quiet(s) => Quiet(t)
<1> DEFINE t == Leave(s)
<1>1. s \in LoopType
  BY DEF Table, Shape
<1>2. /\ t \in LoopType /\ t.conn = s.conn /\ t.fds = s.fds /\ t.pc = "top" /\ t.half = 0
      /\ t.num_closing = s.num_closing /\ t.num_waiting = s.num_waiting
      /\ t.some_always = s.some_always
  BY <1>1 DEF LoopType, Leave
<1> HIDE DEF t
<1>3. Table(t, 0)
  BY <1>2, TableSame
<1>4. Quiet(s) => Quiet(t)
  BY <1>2 DEF Quiet, Live, Plan
<1> QED BY <1>2, <1>3, <1>4 DEF t

LEMMA AdvanceTable ==
    ASSUME IoAssumption, NEW s, Table(s, 0), s.at \in 1 .. Len(s.fds)
    PROVE  LET t == Advance(s) IN
           /\ Table(t, 0) /\ t.pc = s.pc /\ t.at = s.at + 1 /\ t.half = 0
           /\ t.conn = s.conn /\ t.some_always = s.some_always
           /\ Quiet(s) => Quiet(t)
           /\ Reported(s, s.at) => Reported(t, s.at)
<1> DEFINE t == Advance(s)
           k == s.at
           g == [s.fds EXCEPT ![k].revents = {}]
<1>1. s \in LoopType /\ k \in Nat /\ k + 1 \in Nat /\ s.fds \in Seq(FdType)
      /\ Len(s.fds) \in Nat /\ \A n \in 1 .. Len(s.fds) : s.fds[n] \in FdType
  BY SetsFinite DEF Table, Shape, LoopType
<1>2. /\ g \in Seq(FdType) /\ Len(g) = Len(s.fds)
      /\ \A n \in 1 .. Len(s.fds) : /\ g[n].who = s.fds[n].who /\ g[n].events = s.fds[n].events
                                    /\ n # k => g[n] = s.fds[n]
  <2> DEFINE fd == [s.fds[k] EXCEPT !.revents = {}]
  <2>1. fd \in FdType /\ fd.who = s.fds[k].who /\ fd.events = s.fds[k].events
    BY <1>1 DEF FdType
  <2>2. g = [s.fds EXCEPT ![k] = fd]
    OBVIOUS
  <2> HIDE DEF fd, g, k
  <2>3. /\ g \in Seq(FdType) /\ Len(g) = Len(s.fds)
        /\ \A n \in 1 .. Len(s.fds) : g[n] = IF n = k THEN fd ELSE s.fds[n]
    BY <1>1, <2>1, <2>2, ExceptSeq DEF k
  <2> QED BY <2>1, <2>3
<1>3. t = [s EXCEPT !.at = k + 1, !.half = 0, !.fds = g]
  BY DEF Advance
<1> HIDE DEF t, g, k
<1>4. /\ t \in LoopType /\ t.conn = s.conn /\ t.fds = g /\ t.pc = s.pc /\ t.half = 0
      /\ t.at = k + 1
      /\ t.num_closing = s.num_closing /\ t.num_waiting = s.num_waiting
      /\ t.some_always = s.some_always
  BY <1>1, <1>2, <1>3 DEF LoopType
<1>5. Table(t, 0)
  BY <1>2, <1>4, TableSame
<1>6. Quiet(s) => Quiet(t)
  BY <1>4 DEF Quiet, Live, Plan
<1>7. Reported(s, k) => Reported(t, k)
  <2>1. \A n \in 1 .. Len(s.fds) : n > k => t.fds[n] = s.fds[n]
    BY <1>1, <1>2, <1>4
  <2>2. \A e \in Live(s) : s.conn[e].slot \in 1 .. Len(s.fds)
    BY DEF Table, Shape, SlotExact
  <2>3. /\ Live(t) = Live(s) /\ Len(t.fds) = Len(s.fds) /\ t.conn = s.conn
        /\ \A e : Closing(t, e) <=> Closing(s, e)
    BY <1>2, <1>4 DEF Live, Closing, Plan
  <2> QED BY <2>1, <2>2, <2>3 DEF Reported
<1> QED BY <1>4, <1>5, <1>6, <1>7 DEF t, k

LEMMA EndPhase == ASSUME NEW s, s.pc = "end" PROVE Phase(s)
  BY DEF Phase

LEMMA LeavePhase ==
    ASSUME NEW s, Table(s, 0), Quiet(s) PROVE Table(Leave(s), 0) /\ Phase(Leave(s))
<1> DEFINE t == Leave(s)
<1>1. Table(t, 0) /\ t.pc = "top" /\ t.half = 0 /\ Quiet(t)
  BY LeaveTable
<1> HIDE DEF t
<1>2. Table(t, 0) /\ Phase(t)
  BY <1>1 DEF Phase
<1> QED BY <1>2 DEF t

LEMMA DroppedQuiet ==
    ASSUME NEW s, NEW u, NEW c, Quiet(s), Dropped(s, u, c) PROVE Quiet(u)
  BY DEF Quiet, Dropped

LEMMA FinishConns == ASSUME IoAssumption, LoopInv, finish_conns PROVE LoopInv'
<1> DEFINE c == At(io).who
           d == IF c = Listener THEN None ELSE Duplex(io, c)
           First == IF c # Listener /\ Closing(io, c) THEN Finished(io, c) ELSE {io}
           Second(s) == IF d # None /\ Closing(s, d) THEN Finished(s, d) ELSE {s}
           gone(s) == Count(c # Listener /\ Closing(io, c)) + Count(d # None /\ Closing(s, d))
           i(s) == io.at - gone(s) + 1
<1>1. PICK s \in First : \E t \in Second(s) :
        io' = IF i(s) < 1 THEN Leave(t) ELSE [t EXCEPT !.at = i(s)]
  BY DEF finish_conns
<1>2. PICK t \in Second(s) : io' = IF i(s) < 1 THEN Leave(t) ELSE [t EXCEPT !.at = i(s)]
  BY <1>1
<1>3. /\ Table(io, 0) /\ io.pc = "finish" /\ io.at > 0 /\ io.at <= Len(io.fds)
      /\ io.half = 0 /\ Quiet(io) /\ io.at \in Nat
  BY DEF LoopInv, Phase, finish_conns, InLoop, Table, Shape, LoopType
<1>4. /\ c # Listener => c \in Live(io)
      /\ d # None => c # Listener /\ d \in Live(io) /\ d # c
  BY <1>3, TurnOf
<1>5. i(s) \in Int
  BY <1>3 DEF Count
<1> HIDE DEF c, d, i
<1>6. /\ Table(s, 0) /\ Quiet(s) /\ s.pc = "finish" /\ s.at = io.at /\ s.half = 0
      /\ d # None => d \in Live(s)
  <2>1. CASE c # Listener /\ Closing(io, c)
    <3>1. Dropped(io, s, c)
      BY <1>1, <1>3, <1>4, <2>1, FinishedTable
    <3>2. Quiet(s)
      BY <1>3, <3>1, DroppedQuiet
    <3> QED BY <1>3, <1>4, <3>1, <3>2 DEF Dropped
  <2>2. CASE ~(c # Listener /\ Closing(io, c))
    BY <1>1, <1>3, <1>4, <2>2
  <2> QED BY <2>1, <2>2
<1>7. Table(t, 0) /\ Quiet(t) /\ t.pc = "finish" /\ t.half = 0
  <2>1. CASE d # None /\ Closing(s, d)
    <3>1. Dropped(s, t, d)
      BY <1>2, <1>6, <2>1, FinishedTable
    <3>2. Quiet(t)
      BY <1>6, <3>1, DroppedQuiet
    <3> QED BY <1>6, <3>1, <3>2 DEF Dropped
  <2>2. CASE ~(d # None /\ Closing(s, d))
    BY <1>2, <1>6, <2>2
  <2> QED BY <2>1, <2>2
<1>8. CASE i(s) < 1
  BY <1>2, <1>7, <1>8, LeavePhase DEF LoopInv
<1>9. CASE ~(i(s) < 1)
  <2> DEFINE k == i(s)
  <2>1. io' = [t EXCEPT !.at = k] /\ k \in Nat /\ k > 0
    BY <1>2, <1>5, <1>9
  <2> HIDE DEF k
  <2>2. t \in LoopType
    BY <1>7 DEF Table, Shape
  <2>3. /\ io' \in LoopType /\ io'.conn = t.conn /\ io'.fds = t.fds /\ io'.pc = t.pc
        /\ io'.half = t.half /\ io'.at = k /\ io'.some_always = t.some_always
        /\ io'.num_closing = t.num_closing /\ io'.num_waiting = t.num_waiting
    BY <2>1, <2>2 DEF LoopType
  <2>4. Table(io', 0)
    BY <1>7, <2>3, TableSame
  <2>5. Quiet(io')
    BY <1>7, <2>3 DEF Quiet, Live, Plan
  <2> QED BY <1>7, <2>1, <2>3, <2>4, <2>5 DEF LoopInv, Phase
<1> QED BY <1>8, <1>9

LEMMA FinishConnsEnd == ASSUME IoAssumption, LoopInv, finish_conns_end PROVE LoopInv'
<1>1. Table(io, 0) /\ Quiet(io) /\ io' = Leave(io)
  BY DEF LoopInv, Phase, finish_conns_end
<1> QED BY <1>1, LeavePhase DEF LoopInv

LEMMA AlwaysEnd == ASSUME IoAssumption, LoopInv, handle_always_end PROVE LoopInv'
<1>1. Table(io, 0) /\ Turns(io) /\ io.at > Len(io.fds) /\ io' = Leave(io)
  BY DEF LoopInv, Phase, handle_always_end
<1>2. io.at \in Nat /\ Len(io.fds) \in Nat
  BY <1>1, SetsFinite DEF Table, Shape, LoopType
<1>3. \A e \in Live(io) : ~(io.conn[e].slot > io.at) /\ io.conn[e].slot # io.at
  <2> SUFFICES ASSUME NEW e \in Live(io) PROVE ~(io.conn[e].slot > io.at) /\ io.conn[e].slot # io.at
    OBVIOUS
  <2>1. SlotExact(io, e)
    BY <1>1 DEF Table, Shape
  <2>2. io.conn[e].slot \in 1 .. Len(io.fds)
    BY <2>1 DEF SlotExact
  <2> QED BY <1>1, <1>2, <2>2
<1>4. Quiet(io)
  BY <1>1, <1>3 DEF Turns, Quiet
<1> QED BY <1>1, <1>4, LeavePhase DEF LoopInv

LEMMA LoopTop == ASSUME IoAssumption, LoopInv, loop_top PROVE LoopInv'
<1>1. Table(io, 0) /\ Quiet(io) /\ io.half = 0 /\ io \in LoopType /\ io.pc = "top"
  BY DEF LoopInv, Phase, loop_top, Table, Shape
<1>2. CASE io' = [io EXCEPT !.pc = "finish", !.at = 1]
  <2>1. /\ io' \in LoopType /\ io'.conn = io.conn /\ io'.fds = io.fds /\ io'.pc = "finish"
        /\ io'.half = 0 /\ io'.at = 1 /\ io'.some_always = io.some_always
        /\ io'.num_closing = io.num_closing /\ io'.num_waiting = io.num_waiting
    BY <1>1, <1>2 DEF LoopType
  <2>2. Table(io', 0)
    BY <1>1, <2>1, TableSame
  <2>3. Quiet(io')
    BY <1>1, <2>1 DEF Quiet, Live, Plan
  <2> QED BY <2>1, <2>2, <2>3 DEF LoopInv, Phase
<1>3. CASE io' = [io EXCEPT !.pc = "always", !.at = 1, !.some_always = FALSE]
  <2>1. /\ io' \in LoopType /\ io'.conn = io.conn /\ io'.fds = io.fds /\ io'.pc = "always"
        /\ io'.half = 0 /\ io'.at = 1
        /\ io'.num_closing = io.num_closing /\ io'.num_waiting = io.num_waiting
    BY <1>1, <1>3 DEF LoopType
  <2>2. Table(io', 0)
    BY <1>1, <2>1, TableSame
  <2>3. Turns(io')
    <3>1. \A e \in Live(io') : io'.conn[e].slot > 1 \/ io'.conn[e].slot = 1
      BY <2>1 DEF Live, LoopType, ConnType
    <3> QED BY <2>1, <3>1 DEF Turns
  <2> QED BY <2>1, <2>2, <2>3 DEF LoopInv, Phase
<1> QED BY <1>2, <1>3 DEF loop_top

LEMMA Poll == ASSUME IoAssumption, LoopInv, poll PROVE LoopInv'
<1> DEFINE n == Len(io.fds)
<1>1. /\ Table(io, 0) /\ Quiet(io) /\ io.half = 0 /\ io \in LoopType /\ io.pc = "top"
      /\ io.num_closing = 0
      /\ n \in Nat /\ DOMAIN io.fds = 1 .. n /\ io.fds \in Seq(FdType)
      /\ \A m \in 1 .. n : io.fds[m] \in FdType
  BY SetsFinite DEF LoopInv, Phase, poll, Table, Shape, LoopType
<1>2. PICK rev \in [DOMAIN io.fds -> {{}, {"in"}, {"out"}, {"in", "out"}, {"hup"}}] :
        /\ \A m \in DOMAIN io.fds : rev[m] \in Reports(io.fds[m])
        /\ io' = [io EXCEPT !.pc = "poll", !.at = 1,
                    !.fds = [m \in DOMAIN @ |-> [io.fds[m] EXCEPT !.revents = rev[m]]]]
  BY DEF poll
<1> HIDE DEF n
<1>3. \A m \in 1 .. n : rev[m] \in Reports(io.fds[m]) /\ rev[m] \in SUBSET (Flags \cup {"hup"})
  BY <1>1, <1>2 DEF Flags
<1> DEFINE F(m) == [io.fds[m] EXCEPT !.revents = rev[m]]
           g == [m \in 1 .. n |-> F(m)]
<1>4. io' = [io EXCEPT !.pc = "poll", !.at = 1, !.fds = g]
  BY <1>1, <1>2
<1>5. \A m \in 1 .. n : /\ F(m) \in FdType /\ F(m).revents = rev[m]
                        /\ F(m).who = io.fds[m].who /\ F(m).events = io.fds[m].events
  BY <1>1, <1>3 DEF FdType
<1> HIDE DEF F
<1>6. /\ g \in Seq(FdType) /\ Len(g) = n
      /\ \A m \in 1 .. n : g[m] = F(m)
  BY <1>1, <1>5
<1> HIDE DEF g
<1>7. /\ io' \in LoopType /\ io'.conn = io.conn /\ io'.fds = g /\ io'.pc = "poll"
      /\ io'.half = 0 /\ io'.at = 1 /\ io'.some_always = io.some_always
      /\ io'.num_closing = io.num_closing /\ io'.num_waiting = io.num_waiting
  BY <1>1, <1>4, <1>6 DEF LoopType
<1>8. Table(io', 0)
  BY <1>1, <1>5, <1>6, <1>7, TableSame DEF n
<1>9. Quiet(io')
  BY <1>1, <1>7 DEF Quiet, Live, Plan
<1>10. Reported(io', 0)
  <2>1. \A e \in Live(io) : ~Closing(io, e)
    <3>1. IsFiniteSet(ClosingSet(io)) /\ Cardinality(ClosingSet(io)) = 0
      BY <1>1, SetsFinite DEF Table, Counted
    <3>2. ClosingSet(io) = {}
      BY <3>1, FS_EmptySet
    <3> QED BY <3>2 DEF ClosingSet
  <2>2. \A e \in Live(io') : ~Closing(io', e)
    BY <1>7, <2>1 DEF Live, Closing, Plan
  <2>3. \A m \in 1 .. n : /\ rev[m] \ {"hup"} \subseteq io.fds[m].events
                          /\ "hup" \in rev[m] => rev[m] = {"hup"}
    <3> SUFFICES ASSUME NEW m \in 1 .. n
                 PROVE  /\ rev[m] \ {"hup"} \subseteq io.fds[m].events
                        /\ "hup" \in rev[m] => rev[m] = {"hup"}
      OBVIOUS
    <3>1. rev[m] \in SUBSET io.fds[m].events \/ rev[m] = {"hup"}
      BY <1>3 DEF Reports
    <3>2. "hup" \notin io.fds[m].events
      BY <1>1 DEF FdType, Flags
    <3> QED BY <3>1, <3>2
  <2> QED BY <1>5, <1>6, <1>7, <2>2, <2>3 DEF Reported
<1>11. io'.at - 1 = 0
  BY <1>7
<1> QED BY <1>7, <1>8, <1>9, <1>10, <1>11 DEF LoopInv, Phase

LEMMA PollError == ASSUME IoAssumption, LoopInv, poll_error PROVE LoopInv'
<1>1. Table(io, 0) /\ io \in LoopType /\ io' = [io EXCEPT !.pc = "end"]
  BY DEF LoopInv, poll_error, Table, Shape
<1>2. /\ io' \in LoopType /\ io'.conn = io.conn /\ io'.fds = io.fds /\ io'.pc = "end"
      /\ io'.num_closing = io.num_closing /\ io'.num_waiting = io.num_waiting
  BY <1>1 DEF LoopType
<1>3. Table(io', 0)
  BY <1>1, <1>2, TableSame
<1> QED BY <1>2, <1>3, EndPhase DEF LoopInv

(* A turn of handle_always() for a half that was always ready, or was not. *)
LEMMA TurnsKept ==
    ASSUME NEW s, NEW u, NEW c, Turns(s), Readied(s, u, c), u.pc # "end",
           Plan(s, c) = "always"
    PROVE  \A e \in Live(u) : Plan(u, e) = "always" =>
             \/ u.some_always
             \/ /\ e # c /\ e \in Live(s) /\ u.conn[e].slot = s.conn[e].slot
                /\ \/ s.conn[e].slot > s.at
                   \/ s.conn[e].slot = s.at /\ (s.half = 0 \/ e # s.fds[s.at].who)
<1>1. s.some_always => u.some_always
  BY DEF Readied, Step
<1> QED BY <1>1 DEF Readied, Step, Turns

LEMMA FirstHalf ==
    ASSUME NEW s, Table(s, 0), s.pc = "always", s.at > 0,
           \A e \in Live(s) : Plan(s, e) = "always" =>
             \/ s.some_always
             \/ s.conn[e].slot > s.at
             \/ s.conn[e].slot = s.at /\ e # s.fds[s.at].who
    PROVE  LET t == [s EXCEPT !.half = 1] IN Table(t, 0) /\ Phase(t)
<1> DEFINE t == [s EXCEPT !.half = 1]
<1>1. s \in LoopType
  BY DEF Table, Shape
<1>2. /\ t \in LoopType /\ t.conn = s.conn /\ t.fds = s.fds /\ t.pc = "always" /\ t.half = 1
      /\ t.at = s.at /\ t.some_always = s.some_always
      /\ t.num_closing = s.num_closing /\ t.num_waiting = s.num_waiting
  BY <1>1 DEF LoopType
<1> HIDE DEF t
<1>3. Table(t, 0)
  BY <1>2, TableSame
<1>4. Live(t) = Live(s) /\ \A e : Plan(t, e) = Plan(s, e)
  BY <1>2 DEF Live, Plan
<1>5. Turns(t)
  BY <1>2, <1>4 DEF Turns
<1>6. Phase(t)
  BY <1>2, <1>5 DEF Phase
<1> QED BY <1>3, <1>6 DEF t

LEMMA SecondHalf ==
    ASSUME IoAssumption, NEW s, Table(s, 0), s.pc = "always", s.at > 0,
           s.at \in 1 .. Len(s.fds),
           \A e \in Live(s) : Plan(s, e) = "always" => s.some_always \/ s.conn[e].slot > s.at
    PROVE  LET t == Advance(s) IN Table(t, 0) /\ Phase(t)
<1> DEFINE t == Advance(s)
<1>1. /\ Table(t, 0) /\ t.pc = s.pc /\ t.at = s.at + 1 /\ t.half = 0
      /\ t.conn = s.conn /\ t.some_always = s.some_always
  BY AdvanceTable
<1>2. s.at \in Nat /\ \A e \in Live(s) : s.conn[e].slot \in Nat
  BY DEF Table, Shape, LoopType, ConnType, Live
<1> HIDE DEF t
<1>3. Live(t) = Live(s) /\ \A e : Plan(t, e) = Plan(s, e)
  BY <1>1 DEF Live, Plan
<1>4. \A e \in Live(s) : s.conn[e].slot > s.at =>
        s.conn[e].slot > s.at + 1 \/ s.conn[e].slot = s.at + 1
  BY <1>2
<1>5. Turns(t)
  BY <1>1, <1>3, <1>4 DEF Turns
<1>6. t.at > 0
  BY <1>1, <1>2
<1>7. Phase(t)
  BY <1>1, <1>5, <1>6 DEF Phase
<1> QED BY <1>1, <1>7 DEF t

LEMMA HandleAlways == ASSUME IoAssumption, LoopInv, handle_always PROVE LoopInv'
<1> DEFINE c == At(io).who
           d == IF c = Listener THEN None ELSE Duplex(io, c)
<1>1. /\ Table(io, 0) /\ Turns(io) /\ io.pc = "always" /\ io.at > 0 /\ io.at <= Len(io.fds)
  BY DEF LoopInv, Phase, handle_always, InLoop
<1>2. /\ io.at \in 1 .. Len(io.fds) /\ Len(io.fds) \in Nat
      /\ c = Listener => \A e \in Live(io) : io.conn[e].slot # io.at
      /\ c # Listener =>
           /\ c \in Live(io) /\ io.conn[c].slot = io.at
           /\ d # None => d \in Live(io) /\ d # c /\ io.conn[d].slot = io.at
           /\ \A e \in Live(io) : io.conn[e].slot = io.at => e = c \/ (e = d /\ d # None)
  BY <1>1, TurnOf
<1>3. c = io.fds[io.at].who /\ (c = Listener => d = None)
  BY DEF At
<1>4. \/ /\ io.half = 0 /\ c # Listener
         /\ IF Plan(io, c) = "always"
            THEN \E s \in Ready(io, c) : io' = Then(s, [s EXCEPT !.half = 1])
            ELSE io' = [io EXCEPT !.half = 1]
      \/ /\ io.half = 1
         /\ IF d # None /\ Plan(io, d) = "always"
            THEN \E s \in Ready(io, d) : io' = Then(s, Advance(s))
            ELSE io' = Advance(io)
      \/ c = Listener /\ io' = Advance(io)
  BY DEF handle_always
<1> HIDE DEF c, d
<1>5. \A e \in Live(io) : Plan(io, e) = "always" =>
        \/ io.some_always
        \/ io.conn[e].slot > io.at
        \/ io.conn[e].slot = io.at /\ (io.half = 0 \/ e # c)
  BY <1>1, <1>3 DEF Turns
<1>6. ASSUME NEW s, NEW a \in Live(io), s \in Ready(io, a), Plan(io, a) = "always",
             ~Ended(s)
      PROVE  /\ Table(s, 0) /\ s.pc = "always" /\ s.at = io.at
             /\ s.at \in 1 .. Len(s.fds) /\ s.fds[io.at].who = c
             /\ \A e \in Live(s) : Plan(s, e) = "always" =>
                  \/ s.some_always
                  \/ /\ e # a /\ e \in Live(io) /\ s.conn[e].slot = io.conn[e].slot
                     /\ \/ io.conn[e].slot > io.at
                        \/ io.conn[e].slot = io.at /\ (io.half = 0 \/ e # c)
  <2>1. Readied(io, s, a) /\ s.pc # "end"
    BY <1>1, <1>6, ReadyTable DEF Ended
  <2>2. Table(s, 0) /\ Step(io, s, a)
    BY <2>1 DEF Readied
  <2>3. /\ s.pc = io.pc /\ s.at = io.at /\ Len(s.fds) >= Len(io.fds)
        /\ s.fds[io.at].who = io.fds[io.at].who
    BY <1>2, <2>2 DEF Step
  <2>4. Len(s.fds) \in Nat
    BY <2>2, SetsFinite DEF Table
  <2>5. s.at \in 1 .. Len(s.fds)
    BY <1>2, <2>3, <2>4
  <2>6. \A e \in Live(s) : Plan(s, e) = "always" =>
          \/ s.some_always
          \/ /\ e # a /\ e \in Live(io) /\ s.conn[e].slot = io.conn[e].slot
             /\ \/ io.conn[e].slot > io.at
                \/ io.conn[e].slot = io.at /\ (io.half = 0 \/ e # io.fds[io.at].who)
    BY <1>1, <1>6, <2>1, TurnsKept
  <2> QED BY <1>1, <1>3, <2>2, <2>3, <2>5, <2>6
<1>7. ASSUME io.half = 0, c # Listener, Plan(io, c) = "always",
             NEW s \in Ready(io, c), io' = Then(s, [s EXCEPT !.half = 1])
      PROVE  LoopInv'
  <2>1. CASE Ended(s)
    <3>1. io' = s /\ io'.pc = "end"
      BY <1>7, <2>1 DEF Then, Ended
    <3>2. Table(s, 0)
      BY <1>1, <1>2, <1>7, ReadyTable DEF Readied
    <3> QED BY <3>1, <3>2, EndPhase DEF LoopInv
  <2>2. CASE ~Ended(s)
    <3>1. /\ Table(s, 0) /\ s.pc = "always" /\ s.at = io.at /\ s.fds[io.at].who = c
          /\ \A e \in Live(s) : Plan(s, e) = "always" =>
               \/ s.some_always
               \/ /\ e # c /\ s.conn[e].slot = io.conn[e].slot
                  /\ io.conn[e].slot > io.at \/ io.conn[e].slot = io.at
      BY <1>2, <1>6, <1>7, <2>2
    <3>2. Table([s EXCEPT !.half = 1], 0) /\ Phase([s EXCEPT !.half = 1])
      BY <1>1, <3>1, FirstHalf
    <3>3. io' = [s EXCEPT !.half = 1]
      BY <1>7, <2>2 DEF Then
    <3> QED BY <3>2, <3>3 DEF LoopInv
  <2> QED BY <2>1, <2>2
<1>8. ASSUME c # Listener, Plan(io, c) # "always", io' = [io EXCEPT !.half = 1]
      PROVE  LoopInv'
  <2>1. \A e \in Live(io) : Plan(io, e) = "always" =>
          \/ io.some_always
          \/ io.conn[e].slot > io.at
          \/ io.conn[e].slot = io.at /\ e # io.fds[io.at].who
    BY <1>3, <1>5, <1>8
  <2>2. Table([io EXCEPT !.half = 1], 0) /\ Phase([io EXCEPT !.half = 1])
    BY <1>1, <2>1, FirstHalf
  <2> QED BY <1>8, <2>2 DEF LoopInv
<1>9. ASSUME io.half = 1, d # None, Plan(io, d) = "always",
             NEW s \in Ready(io, d), io' = Then(s, Advance(s))
      PROVE  LoopInv'
  <2>0. d \in Live(io) /\ c # Listener
    BY <1>2, <1>3, <1>9
  <2>1. CASE Ended(s)
    <3>1. io' = s /\ io'.pc = "end"
      BY <1>9, <2>1 DEF Then, Ended
    <3>2. Table(s, 0)
      BY <1>1, <1>9, <2>0, ReadyTable DEF Readied
    <3> QED BY <3>1, <3>2, EndPhase DEF LoopInv
  <2>2. CASE ~Ended(s)
    <3>1. /\ Table(s, 0) /\ s.pc = "always" /\ s.at = io.at /\ s.at \in 1 .. Len(s.fds)
          /\ \A e \in Live(s) : Plan(s, e) = "always" =>
               \/ s.some_always
               \/ /\ e # d /\ e \in Live(io) /\ s.conn[e].slot = io.conn[e].slot
                  /\ io.conn[e].slot > io.at \/ (io.conn[e].slot = io.at /\ e # c)
      BY <1>6, <1>9, <2>0, <2>2
    <3>2. \A e \in Live(s) : Plan(s, e) = "always" => s.some_always \/ s.conn[e].slot > s.at
      BY <1>2, <2>0, <3>1
    <3>3. Table(Advance(s), 0) /\ Phase(Advance(s))
      BY <1>1, <3>1, <3>2, SecondHalf
    <3>4. io' = Advance(s)
      BY <1>9, <2>2 DEF Then
    <3> QED BY <3>3, <3>4 DEF LoopInv
  <2> QED BY <2>1, <2>2
<1>10. ASSUME io' = Advance(io), c = Listener \/ (io.half = 1 /\ ~(d # None /\ Plan(io, d) = "always"))
       PROVE  LoopInv'
  <2>1. \A e \in Live(io) : Plan(io, e) = "always" => io.some_always \/ io.conn[e].slot > io.at
    BY <1>2, <1>5, <1>10
  <2>2. Table(Advance(io), 0) /\ Phase(Advance(io))
    BY <1>1, <1>2, <2>1, SecondHalf
  <2> QED BY <1>10, <2>2 DEF LoopInv
<1> QED BY <1>4, <1>7, <1>8, <1>9, <1>10

LEMMA PollNext ==
    ASSUME IoAssumption, NEW s, Table(s, 0), s.pc = "poll", s.at \in 1 .. Len(s.fds),
           Quiet(s), Reported(s, s.at)
    PROVE  Table(Advance(s), 0) /\ Phase(Advance(s))
<1> DEFINE t == Advance(s)
<1>1. /\ Table(t, 0) /\ t.pc = s.pc /\ t.at = s.at + 1 /\ t.half = 0
      /\ Quiet(t) /\ Reported(t, s.at)
  BY AdvanceTable
<1> HIDE DEF t
<1>2. s.at \in Nat
  BY DEF Table, Shape, LoopType
<1>3. t.at > 0 /\ t.at - 1 = s.at
  BY <1>1, <1>2
<1>4. Phase(t)
  BY <1>1, <1>3 DEF Phase
<1> QED BY <1>1, <1>4 DEF t

(* What a turn in poll()'s loop starts from, and what it leaves. *)
LEMMA PollTurn ==
    ASSUME IoAssumption, LoopInv, io.pc = "poll", io.at <= Len(io.fds)
    PROVE  /\ Table(io, 0) /\ Quiet(io) /\ Reported(io, io.at - 1) /\ Reported(io, io.at)
           /\ io.at > 0 /\ io.at \in Nat /\ io.at \in 1 .. Len(io.fds)
<1>1. /\ Table(io, 0) /\ Quiet(io) /\ Reported(io, io.at - 1) /\ io.at > 0
  BY DEF LoopInv, Phase
<1>2. /\ io.at \in Nat /\ io.at \in 1 .. Len(io.fds) /\ Len(io.fds) \in Nat
      /\ \A e \in Live(io) : io.conn[e].slot \in Nat
  BY <1>1, TurnOf DEF Table, Shape, LoopType, ConnType, Live
<1>3. Reported(io, io.at)
  <2>1. \A n \in Nat : n > io.at => n > io.at - 1
    BY <1>2
  <2>2. \A n \in 1 .. Len(io.fds) : n \in Nat
    BY <1>2
  <2> QED BY <1>1, <1>2, <2>1, <2>2 DEF Reported
<1> QED BY <1>1, <1>2, <1>3

LEMMA PollStep ==
    ASSUME IoAssumption, NEW s, NEW t, NEW c, Table(s, 0), Table(t, 0), Step(s, t, c),
           s.at \in 1 .. Len(s.fds), Quiet(s), Reported(s, s.at),
           c \in Live(s) => s.conn[c].slot = s.at
    PROVE  t.pc = s.pc /\ t.at = s.at /\ t.at \in 1 .. Len(t.fds) /\ Quiet(t) /\ Reported(t, t.at)
<1>1. t.pc = s.pc /\ t.at = s.at /\ Len(t.fds) >= Len(s.fds)
  BY DEF Step
<1>2. Len(s.fds) \in Nat /\ Len(t.fds) \in Nat /\ s.at \in Nat
  BY SetsFinite DEF Table, Shape, LoopType
<1>3. t.at \in 1 .. Len(t.fds)
  BY <1>1, <1>2
<1>4. c \in Live(s) => s.conn[c].slot <= s.at
  BY <1>2
<1>5. Reported(t, s.at)
  BY <1>2, <1>4, ReportedKept
<1> QED BY <1>1, <1>3, <1>5, QuietKept

LEMMA AcceptConn == ASSUME IoAssumption, LoopInv, accept_conn PROVE LoopInv'
<1>1. /\ Table(io, 0) /\ Quiet(io) /\ Reported(io, io.at) /\ io.at \in 1 .. Len(io.fds)
      /\ io.pc = "poll"
  BY PollTurn DEF accept_conn, InLoop
<1>2. PICK s \in Effects(io) \cup {io} : io' = Advance(s)
  BY DEF accept_conn
<1>3. Table(s, 0) /\ Step(io, s, Listener)
  BY <1>1, <1>2, EffectsTable DEF Effects
<1>4. Listener \notin Live(io)
  BY HalvesOfConn DEF Live
<1>5. /\ s.pc = io.pc /\ s.at = io.at /\ s.at \in 1 .. Len(s.fds) /\ Quiet(s)
      /\ Reported(s, s.at)
  BY <1>1, <1>3, <1>4, PollStep
<1> QED BY <1>1, <1>2, <1>3, <1>5, PollNext DEF LoopInv

LEMMA PollNothing == ASSUME IoAssumption, LoopInv, poll_nothing PROVE LoopInv'
  BY PollTurn, PollNext DEF poll_nothing, InLoop, LoopInv

LEMMA PollEnd == ASSUME IoAssumption, LoopInv, poll_end PROVE LoopInv'
<1>1. Table(io, 0) /\ Quiet(io) /\ io' = Leave(io)
  BY DEF LoopInv, Phase, poll_end
<1> QED BY <1>1, LeavePhase DEF LoopInv

LEMMA PollHup == ASSUME IoAssumption, LoopInv, poll_hup PROVE LoopInv'
<1> DEFINE c == At(io).who
           d == Duplex(io, c)
           s == set_plan(io, c, "close")
           t == IF d = None THEN s ELSE set_plan(s, d, "close")
<1>1. /\ Table(io, 0) /\ Quiet(io) /\ Reported(io, io.at) /\ Reported(io, io.at - 1)
      /\ io.at \in 1 .. Len(io.fds) /\ io.at > 0 /\ io.at \in Nat /\ io.at <= Len(io.fds)
      /\ io.pc = "poll" /\ c # Listener
      /\ io.fds[io.at].revents = {"hup"} /\ io' = Advance(t)
  BY PollTurn DEF poll_hup, InLoop, At
<1>2. /\ c \in Live(io) /\ io.conn[c].slot = io.at
      /\ d # None => d \in Live(io) /\ d # c /\ io.conn[d].slot = io.at
  BY <1>1, TurnOf
<1> HIDE DEF c, d
<1>3. ~Closing(io, c) /\ (d # None => ~Closing(io, d))
  <2>1. io.at > io.at - 1
    BY <1>1
  <2> QED BY <1>1, <1>2, <2>1 DEF Reported
<1>4. "close" \in PlanKinds /\ Shape(io) /\ \A e \in Live(io) : e \in Conns
  BY <1>1 DEF PlanKinds, Table, Live
<1>5. /\ Table(s, 0) /\ Step(io, s, c)
      /\ Live(s) = Live(io)
      /\ \A e \in Conns : /\ s.conn[e].slot = io.conn[e].slot
                          /\ e # c => Plan(s, e) = Plan(io, e)
  BY <1>1, <1>2, <1>3, <1>4, SetPlanTable, SetPlanStep, SetPlanFrame
<1> HIDE DEF s
<1>6. /\ s.pc = io.pc /\ s.at = io.at /\ s.at \in 1 .. Len(s.fds) /\ Quiet(s)
      /\ Reported(s, s.at)
  BY <1>1, <1>2, <1>5, PollStep
<1>7. Table(t, 0) /\ t.pc = "poll" /\ t.at \in 1 .. Len(t.fds) /\ Quiet(t) /\ Reported(t, t.at)
  <2>1. CASE d = None
    BY <1>1, <1>5, <1>6, <2>1
  <2>2. CASE d # None
    <3>1. d \in Live(s) /\ ~Closing(s, d) /\ s.conn[d].slot = s.at
      BY <1>2, <1>3, <1>4, <1>5, <1>6, <2>2 DEF Closing
    <3>2. t = set_plan(s, d, "close")
      BY <2>2
    <3>3. Table(t, 0) /\ Step(s, t, d)
      BY <1>4, <1>5, <3>1, <3>2, SetPlanTable, SetPlanStep
    <3> HIDE DEF t
    <3>4. /\ t.pc = s.pc /\ t.at = s.at /\ t.at \in 1 .. Len(t.fds) /\ Quiet(t)
          /\ Reported(t, t.at)
      BY <1>5, <1>6, <3>1, <3>3, PollStep
    <3> QED BY <1>1, <1>6, <3>3, <3>4
  <2> QED BY <2>1, <2>2
<1> HIDE DEF t
<1> QED BY <1>1, <1>7, PollNext DEF LoopInv

(* The other half is next, for what is left. *)
LEMMA OtherHalf ==
    ASSUME IoAssumption, NEW s, Table(s, 0), s.pc = "poll", s.at \in 1 .. Len(s.fds),
           Quiet(s), Reported(s, s.at), NEW R \in SUBSET s.fds[s.at].events
    PROVE  LET t == [s EXCEPT !.half = 1, !.fds[s.at].revents = R] IN Table(t, 0) /\ Phase(t)
<1> DEFINE k == s.at
           g == [s.fds EXCEPT ![k].revents = R]
           t == [s EXCEPT !.half = 1, !.fds[s.at].revents = R]
<1>1. s \in LoopType /\ k \in Nat /\ k > 0 /\ s.fds \in Seq(FdType) /\ Len(s.fds) \in Nat
      /\ \A n \in 1 .. Len(s.fds) : s.fds[n] \in FdType
  BY SetsFinite DEF Table, Shape, LoopType
<1>2. R \in SUBSET Flags /\ "hup" \notin R
  BY <1>1 DEF FdType, Flags
<1>3. /\ g \in Seq(FdType) /\ Len(g) = Len(s.fds) /\ g[k].revents = R
      /\ \A n \in 1 .. Len(s.fds) : /\ g[n].who = s.fds[n].who /\ g[n].events = s.fds[n].events
                                    /\ n # k => g[n] = s.fds[n]
  <2> DEFINE fd == [s.fds[k] EXCEPT !.revents = R]
  <2>1. fd \in FdType /\ fd.who = s.fds[k].who /\ fd.events = s.fds[k].events /\ fd.revents = R
    BY <1>1, <1>2 DEF FdType
  <2>2. g = [s.fds EXCEPT ![k] = fd]
    OBVIOUS
  <2>3. k \in 1 .. Len(s.fds)
    OBVIOUS
  <2> HIDE DEF fd, g, k
  <2>4. /\ g \in Seq(FdType) /\ Len(g) = Len(s.fds)
        /\ \A n \in 1 .. Len(s.fds) : g[n] = IF n = k THEN fd ELSE s.fds[n]
    BY <1>1, <2>1, <2>2, <2>3, ExceptSeq
  <2> QED BY <2>1, <2>3, <2>4
<1>4. t = [s EXCEPT !.half = 1, !.fds = g]
  OBVIOUS
<1> HIDE DEF t, g
<1>5. /\ t \in LoopType /\ t.conn = s.conn /\ t.fds = g /\ t.pc = "poll" /\ t.half = 1
      /\ t.at = k
      /\ t.num_closing = s.num_closing /\ t.num_waiting = s.num_waiting
      /\ t.some_always = s.some_always
  BY <1>1, <1>3, <1>4 DEF LoopType
<1>6. Table(t, 0)
  BY <1>3, <1>5, TableSame
<1>7. Quiet(t)
  BY <1>5 DEF Quiet, Live, Plan
<1>8. Reported(t, k - 1)
  <2>1. \A n \in 1 .. Len(s.fds) : n > k - 1 => n = k \/ n > k
    BY <1>1
  <2>2. \A e \in Live(s) : s.conn[e].slot \in 1 .. Len(s.fds)
    BY DEF Table, Shape, SlotExact
  <2>3. /\ Live(t) = Live(s) /\ Len(t.fds) = Len(s.fds)
        /\ \A e : Closing(t, e) <=> Closing(s, e)
    BY <1>3, <1>5 DEF Live, Closing, Plan
  <2>4. \A n \in 1 .. Len(s.fds) : n > k => n # k /\ t.fds[n] = s.fds[n]
    BY <1>1, <1>3, <1>5
  <2>5. t.fds[k].revents = R /\ R \subseteq t.fds[k].events
    BY <1>3, <1>5
  <2>6. \A n \in 1 .. Len(t.fds) : n > k - 1 =>
          /\ t.fds[n].revents \ {"hup"} \subseteq t.fds[n].events
          /\ "hup" \in t.fds[n].revents => t.fds[n].revents = {"hup"}
    BY <1>2, <2>1, <2>3, <2>4, <2>5 DEF Reported
  <2>7. \A e \in Live(t) :
          t.conn[e].slot > k - 1 /\ "hup" \in t.fds[t.conn[e].slot].revents => ~Closing(t, e)
    BY <1>2, <1>5, <2>1, <2>2, <2>3, <2>4, <2>5 DEF Reported
  <2> QED BY <2>6, <2>7 DEF Reported
<1>9. Phase(t)
  BY <1>1, <1>5, <1>7, <1>8 DEF Phase
<1> QED BY <1>6, <1>9 DEF t

LEMMA PollReady == ASSUME IoAssumption, LoopInv, poll_ready PROVE LoopInv'
<1> DEFINE c == At(io).who
           d == Duplex(io, c)
           ev == At(io).revents
           R == Rest(io, d)
<1>1. /\ Table(io, 0) /\ Quiet(io) /\ Reported(io, io.at) /\ Reported(io, io.at - 1)
      /\ io.at \in 1 .. Len(io.fds) /\ io.at > 0 /\ io.at \in Nat /\ io.at <= Len(io.fds)
      /\ io.pc = "poll" /\ c # Listener
  BY PollTurn DEF poll_ready, InLoop
<1>2. /\ c \in Live(io) /\ io.conn[c].slot = io.at
      /\ d # None => d \in Live(io) /\ d # c /\ io.conn[d].slot = io.at
  BY <1>1, TurnOf
<1>3. /\ ev \cap {"in", "out"} # {}
      /\ IF io.half = 0 /\ d # None /\ R # ev
         THEN \E s \in Ready(io, d) :
                io' = Then(s, IF R = {} \/ Closing(s, c) THEN Advance(s)
                              ELSE [s EXCEPT !.half = 1, !.fds[s.at].revents = R])
         ELSE \E s \in Ready(io, c) : io' = Then(s, Advance(s))
  BY DEF poll_ready
<1>4. ev = io.fds[io.at].revents /\ R = ev \ pollflag(Plan(io, d))
  BY DEF At, Rest
<1>5. ev \subseteq Wants(io, c)
  <2>1. io.at > io.at - 1
    BY <1>1
  <2>2. "hup" \notin ev /\ ev \ {"hup"} \subseteq io.fds[io.at].events
    BY <1>1, <1>3, <1>4, <2>1 DEF Reported
  <2>3. io.fds[io.at].events = Wants(io, c)
    BY <1>1, <1>2 DEF Table, EventsBut
  <2> QED BY <2>2, <2>3
<1> HIDE DEF c, d, ev, R
<1>6. ASSUME NEW a \in Live(io), io.conn[a].slot = io.at, NEW s \in Ready(io, a)
      PROVE  /\ Ended(s) => Table(s, 0) /\ Phase(s)
             /\ ~Ended(s) => /\ Table(s, 0) /\ Step(io, s, a) /\ s.pc = "poll" /\ s.at = io.at
                             /\ s.at \in 1 .. Len(s.fds) /\ Quiet(s) /\ Reported(s, s.at)
  <2>1. Readied(io, s, a)
    BY <1>1, <1>6, ReadyTable
  <2>2. ASSUME Ended(s) PROVE Table(s, 0) /\ Phase(s)
    BY <2>1, <2>2, EndPhase DEF Readied, Ended
  <2>3. ASSUME ~Ended(s)
        PROVE  /\ Table(s, 0) /\ Step(io, s, a) /\ s.pc = "poll" /\ s.at = io.at
               /\ s.at \in 1 .. Len(s.fds) /\ Quiet(s) /\ Reported(s, s.at)
    <3>1. Table(s, 0) /\ Step(io, s, a)
      BY <2>1, <2>3 DEF Readied, Ended
    <3> QED BY <1>1, <1>6, <3>1, PollStep
  <2> QED BY <2>2, <2>3
<1>7. ASSUME NEW s, io' = Then(s, Advance(s)), NEW a \in Live(io), io.conn[a].slot = io.at,
             s \in Ready(io, a)
      PROVE  LoopInv'
  <2>1. CASE Ended(s)
    BY <1>6, <1>7, <2>1 DEF Then, LoopInv
  <2>2. CASE ~Ended(s)
    <3>1. io' = Advance(s)
      BY <1>7, <2>2 DEF Then
    <3>2. Table(Advance(s), 0) /\ Phase(Advance(s))
      BY <1>6, <1>7, <2>2, PollNext
    <3> QED BY <3>1, <3>2 DEF LoopInv
  <2> QED BY <2>1, <2>2
<1>8. ASSUME d # None, NEW s \in Ready(io, d), ~Ended(s), ~Closing(s, c),
             io' = [s EXCEPT !.half = 1, !.fds[s.at].revents = R]
      PROVE  LoopInv'
  <2>1. /\ Table(s, 0) /\ Step(io, s, d) /\ s.pc = "poll" /\ s.at = io.at
        /\ s.at \in 1 .. Len(s.fds) /\ Quiet(s) /\ Reported(s, s.at)
    BY <1>2, <1>6, <1>8
  <2>2. /\ c \in Live(s) /\ s.conn[c].slot = s.at
        /\ pollflag(Plan(s, c)) = pollflag(Plan(io, c))
    BY <1>2, <1>8, <2>1 DEF Step
  <2>3. s.fds[s.at].events = Wants(s, c)
    BY <1>1, <2>1, <2>2 DEF Table, EventsBut
  <2>4. R \subseteq pollflag(Plan(io, c))
    BY <1>4, <1>5, <1>8 DEF Wants, d
  <2>5. R \in SUBSET s.fds[s.at].events
    BY <2>2, <2>3, <2>4 DEF Wants
  <2>6. /\ Table([s EXCEPT !.half = 1, !.fds[s.at].revents = R], 0)
        /\ Phase([s EXCEPT !.half = 1, !.fds[s.at].revents = R])
    BY <2>1, <2>5, OtherHalf
  <2> QED BY <1>8, <2>6 DEF LoopInv
<1>9. CASE io.half = 0 /\ d # None /\ R # ev
  <2>1. PICK s \in Ready(io, d) :
          io' = Then(s, IF R = {} \/ Closing(s, c) THEN Advance(s)
                        ELSE [s EXCEPT !.half = 1, !.fds[s.at].revents = R])
    BY <1>3, <1>9
  <2>2. CASE Ended(s)
    <3>1. io' = Then(s, Advance(s))
      BY <2>1, <2>2 DEF Then
    <3> QED BY <1>2, <1>7, <1>9, <3>1
  <2>3. CASE R = {} \/ Closing(s, c)
    <3>1. io' = Then(s, Advance(s))
      BY <2>1, <2>3
    <3> QED BY <1>2, <1>7, <1>9, <3>1
  <2>4. CASE ~Ended(s) /\ R # {} /\ ~Closing(s, c)
    <3>1. io' = [s EXCEPT !.half = 1, !.fds[s.at].revents = R]
      BY <2>1, <2>4 DEF Then
    <3> QED BY <1>8, <1>9, <2>4, <3>1
  <2> QED BY <2>2, <2>3, <2>4
<1>10. CASE ~(io.half = 0 /\ d # None /\ R # ev)
  <2>1. PICK s \in Ready(io, c) : io' = Then(s, Advance(s))
    BY <1>3, <1>10
  <2> QED BY <1>2, <1>7, <2>1
<1> QED BY <1>9, <1>10

LEMMA LoopStart == ASSUME IoAssumption, IoInit PROVE LoopInv
<1> DEFINE g == <<NewFd>>
           f == [c \in Conns |-> Gone]
<1>1. io = [conn |-> f, fds |-> g, num_closing |-> 0, num_waiting |-> 1, some_always |-> FALSE,
            pc |-> "top", at |-> 0, half |-> 0]
  BY DEF IoInit
<1>2. NewFd \in FdType /\ NewFd.who = Listener /\ NewFd.events = {"in"}
  BY DEF NewFd, FdType, Flags
<1>3. Gone \in ConnType /\ Gone.slot = 0
  BY DEF Gone, ConnType, PlanKinds
<1>4. g \in Seq(FdType) /\ Len(g) = 1 /\ g[1] = NewFd
  BY <1>2
<1>5. f \in [Conns -> ConnType] /\ \A c \in Conns : f[c] = Gone
  BY <1>3
<1> HIDE DEF f, g
<1>6. io \in LoopType
  BY <1>1, <1>4, <1>5 DEF LoopType
<1>7. Live(io) = {} /\ \A c \in Conns : io.conn[c] = Gone
  BY <1>1, <1>3, <1>5 DEF Live
<1>8. 1 .. Len(io.fds) = {1} /\ io.fds[1] = NewFd
  <2>1. io.fds = g
    BY <1>1
  <2>2. 1 .. 1 = {1}
    OBVIOUS
  <2> QED BY <1>4, <2>1, <2>2
<1>9. Shape(io)
  BY <1>2, <1>6, <1>7, <1>8 DEF Shape, WhoExact
<1>10. Counted(io)
  <2>1. ClosingSet(io) = {}
    BY <1>7 DEF ClosingSet
  <2>2. WaitingSet(io) = {1} /\ {1} = {} \cup {1}
    BY <1>2, <1>8 DEF WaitingSet
  <2>3. Cardinality({}) = 0 /\ IsFiniteSet({})
    BY FS_EmptySet
  <2>4. Cardinality({} \cup {1}) = 1
    BY <2>3, FS_AddElement
  <2> QED BY <1>1, <2>1, <2>2, <2>3, <2>4 DEF Counted
<1>11. EventsBut(io, 0) /\ Quiet(io)
  BY <1>7 DEF EventsBut, Quiet
<1>12. io.pc = "top" /\ io.half = 0
  BY <1>1
<1> QED BY <1>9, <1>10, <1>11, <1>12 DEF LoopInv, Table, Phase

LEMMA LoopTable == ASSUME IoAssumption, LoopInv PROVE TableExact
<1>1. /\ Table(io, 0) /\ DOMAIN io.fds = 1 .. Len(io.fds)
      /\ None \notin Conns /\ Listener \notin Conns
      /\ \A c \in Live(io) : SlotExact(io, c) /\ c \in Conns /\ Other(c) \in Conns
      /\ \A n \in 1 .. Len(io.fds) : WhoExact(io, n)
  BY SetsFinite, HalvesOfConn DEF LoopInv, Table, Shape, Live
<1>2. io.num_closing = Cardinality({c \in Live(io) : Closing(io, c)})
  BY <1>1 DEF Table, Counted, ClosingSet
<1>3. io.num_waiting = Cardinality({n \in DOMAIN io.fds : io.fds[n].events # {}})
  BY <1>1 DEF Table, Counted, WaitingSet
<1>4. ASSUME NEW c \in Live(io)
      PROVE  LET f == io.fds[io.conn[c].slot]
                 halves == {c, Duplex(io, c)} \ {None}
             IN /\ io.conn[c].slot \in DOMAIN io.fds
                /\ f.who \in halves
                /\ \A d \in halves : io.conn[d].slot = io.conn[c].slot
                /\ f.events = UNION {pollflag(Plan(io, d)) : d \in halves}
  <2> DEFINE n == io.conn[c].slot
             f == io.fds[n]
             d == Duplex(io, c)
             halves == {c, d} \ {None}
  <2>1. /\ n \in 1 .. Len(io.fds) /\ f.who \in {c, Other(c)}
        /\ d = IF Other(c) \in Live(io) THEN Other(c) ELSE None
        /\ Other(c) \in Live(io) => io.conn[Other(c)].slot = n
        /\ c # None /\ Other(c) # None
    BY <1>1 DEF SlotExact
  <2>2. f.who \in halves
    <3>1. f.who = Listener \/ f.who \in Live(io)
      BY <1>1, <2>1 DEF WhoExact
    <3> QED BY <1>1, <2>1, <3>1
  <2>3. \A e \in halves : io.conn[e].slot = n
    BY <1>1, <2>1
  <2>4. f.events = Wants(io, c)
    BY <1>1 DEF Table, EventsBut, Live
  <2>5. f.events = UNION {pollflag(Plan(io, e)) : e \in halves}
    <3> HIDE DEF d
    <3>1. CASE d = None
      <4>1. halves = {c}
        BY <2>1, <3>1
      <4> QED BY <2>4, <3>1, <4>1 DEF Wants, d
    <3>2. CASE d # None
      <4>1. halves = {c, d}
        BY <2>1, <3>2
      <4> QED BY <2>4, <3>2, <4>1 DEF Wants, d
    <3> QED BY <3>1, <3>2
  <2> HIDE DEF n, f, d, halves
  <2>6. n \in DOMAIN io.fds
    BY <1>1, <2>1
  <2> QED BY <2>2, <2>3, <2>5, <2>6 DEF n, f, d, halves
<1>5. ReadyHasIo
  <2>1. ASSUME io.pc = "poll"
        PROVE  \A n \in DOMAIN io.fds : n >= io.at =>
                 io.fds[n].revents \ {"hup"} \subseteq io.fds[n].events
    <3>1. Reported(io, io.at - 1) /\ io.at \in Nat
      BY <2>1 DEF LoopInv, Phase, Table, Shape, LoopType
    <3>2. \A n \in 1 .. Len(io.fds) : n >= io.at => n > io.at - 1
      BY <3>1
    <3> QED BY <1>1, <3>1, <3>2 DEF Reported
  <2>2. io.pc \in {"top", "poll", "finish"} => Quiet(io)
    BY DEF LoopInv, Phase
  <2> QED BY <2>1, <2>2 DEF ReadyHasIo, Quiet
<1> QED BY <1>2, <1>3, <1>4, <1>5 DEF TableExact

LEMMA LoopStep == ASSUME IoAssumption, LoopInv, [IoNext]_io PROVE LoopInv'
<1>1. CASE UNCHANGED io
  BY <1>1 DEF LoopInv
<1> QED BY <1>1, FinishConns, FinishConnsEnd, HandleAlways, AlwaysEnd, LoopTop, AcceptConn,
           PollReady, PollHup, PollNothing, PollEnd, Poll, PollError DEF IoNext

(* The counts and the table of the event loop are exact after every        *)
(* callback, whatever it does, for every number of descriptors: io_ready() *)
(* is never called for a connection that has nothing to do, and the loop   *)
(* never sleeps over one that is always ready (ccan/io, io_loop() in       *)
(* poll.c).                                                                *)
THEOREM TableCorrect == ASSUME IoAssumption PROVE IoSpec => []TableExact
<1>1. IoInit => LoopInv
  BY LoopStart
<1>2. LoopInv /\ [IoNext]_io => LoopInv'
  BY LoopStep
<1>3. LoopInv => TableExact
  BY LoopTable
<1> QED BY <1>1, <1>2, <1>3, PTL DEF IoSpec

-----------------------------------------------------------------------------
(* Numbers *)

(* Induction up to a number, and functions defined by recursion up to it.  *)
LEMMA UpTo ==
    ASSUME NEW n \in Nat, NEW S, 0 \in S, \A j \in 0 .. n - 1 : j \in S => j + 1 \in S
    PROVE  \A j \in 0 .. n : j \in S
<1> DEFINE T == (0 .. n) \ S
<1>1. SUFFICES ASSUME T # {} PROVE FALSE
  OBVIOUS
<1>2. PICK m \in T : \A x \in T : m <= x
  <2>1. T \in SUBSET Nat
    OBVIOUS
  <2> HIDE DEF T
  <2> QED BY <1>1, <2>1, LeastNatural
<1>3. m \in 0 .. n /\ m \notin S /\ m # 0
  BY <1>2
<1>4. m - 1 \in 0 .. n - 1 /\ m - 1 \notin T /\ (m - 1) + 1 = m
  BY <1>2, <1>3
<1> QED BY <1>3, <1>4

StepsIn(G, n, V) == G \in [1 .. n -> [V -> V]]
FollowsFrom(f, c, G, n, V) ==
    f \in [0 .. n -> V] /\ f[0] = c /\ \A k \in 1 .. n : f[k] = G[k][f[k - 1]]

LEMMA RecursionWorks ==
    ASSUME NEW n \in Nat, NEW V, NEW c \in V, NEW G, StepsIn(G, n, V)
    PROVE  \E f : FollowsFrom(f, c, G, n, V)
<1>0. G \in [1 .. n -> [V -> V]]
  BY DEF StepsIn
<1> DEFINE Goes(f, j) == f[0] = c /\ \A k \in 1 .. j : f[k] = G[k][f[k - 1]]
           S == {j \in 0 .. n : \E f \in [0 .. j -> V] : Goes(f, j)}
<1>1. 0 \in S
  <2>1. [k \in 0 .. 0 |-> c] \in [0 .. 0 -> V] /\ Goes([k \in 0 .. 0 |-> c], 0)
    OBVIOUS
  <2> HIDE DEF Goes
  <2> QED BY <2>1
<1>2. ASSUME NEW j \in 0 .. n - 1, j \in S PROVE j + 1 \in S
  <2>1. PICK f \in [0 .. j -> V] : Goes(f, j)
    BY <1>2
  <2> DEFINE g == [k \in 0 .. j + 1 |-> IF k <= j THEN f[k] ELSE G[j + 1][f[j]]]
  <2>2. G[j + 1] \in [V -> V] /\ f[j] \in V
    BY <1>0, <2>1
  <2>3. g \in [0 .. j + 1 -> V]
    BY <2>1, <2>2
  <2>4. Goes(g, j + 1)
    <3>1. g[0] = c
      BY <2>1
    <3>2. ASSUME NEW k \in 1 .. j + 1 PROVE g[k] = G[k][g[k - 1]]
      <4>1. CASE k <= j
        BY <2>1, <4>1
      <4>2. CASE k = j + 1
        <5>1. g[k] = G[k][f[k - 1]]
          BY <4>2
        <5>2. g[k - 1] = f[k - 1]
          BY <4>2
        <5> HIDE DEF g
        <5> QED BY <5>1, <5>2
      <4> HIDE DEF g
      <4> QED BY <4>1, <4>2
    <3> HIDE DEF g
    <3> QED BY <3>1, <3>2
  <2>5. j + 1 \in 0 .. n
    OBVIOUS
  <2> HIDE DEF g, Goes
  <2> QED BY <2>3, <2>4, <2>5
<1>3. n \in S
  <2>1. \A j \in 0 .. n : j \in S
    <3> HIDE DEF S
    <3> QED BY <1>1, <1>2, UpTo
  <2> HIDE DEF S
  <2> QED BY <2>1
<1> QED BY <1>3 DEF FollowsFrom

(* A power of two counts the subsets of a set. *)
LEMMA PowerCounts ==
    ASSUME NEW n \in Nat
    PROVE  /\ IsFiniteSet(SUBSET (1 .. n)) /\ Cardinality(SUBSET (1 .. n)) = 2^n
           /\ 2^n \in Nat
<1>1. IsFiniteSet(1 .. n) /\ Cardinality(1 .. n) = n
  BY FS_Interval
<1>2. IsFiniteSet(SUBSET (1 .. n)) /\ Cardinality(SUBSET (1 .. n)) = 2^Cardinality(1 .. n)
  <2> DEFINE S == 1 .. n
  <2>1. IsFiniteSet(S)
    BY <1>1
  <2>2. IsFiniteSet(SUBSET S) /\ Cardinality(SUBSET S) = 2^Cardinality(S)
    <3> HIDE DEF S
    <3> QED BY <2>1, FS_SUBSET, Zenon
  <2> QED BY <2>2
<1>3. Cardinality(SUBSET (1 .. n)) \in Nat
  BY <1>2, FS_CardinalityType
<1>4. Cardinality(SUBSET (1 .. n)) = 2^n
  BY <1>1, <1>2
<1>5. 2^n \in Nat
  BY <1>3, <1>4
<1> QED BY <1>2, <1>4, <1>5

LEMMA PowerOfZero == 2^0 = 1
<1>1. Cardinality(SUBSET (1 .. 0)) = 2^0
  BY PowerCounts
<1>2. SUBSET (1 .. 0) = {{}}
  OBVIOUS
<1>3. Cardinality({{}}) = 1
  BY FS_Singleton
<1> QED BY <1>1, <1>2, <1>3

LEMMA PowerDoubles ==
    ASSUME NEW n \in Nat
    PROVE  2^(n + 1) = 2 * 2^n
<1> DEFINE A == SUBSET (1 .. n)
           B == {S \cup {n + 1} : S \in A}
           f == [S \in A |-> S \cup {n + 1}]
<1>1. IsFiniteSet(A) /\ Cardinality(A) = 2^n /\ 2^n \in Nat
  BY PowerCounts
<1>2. \A S \in A : n + 1 \notin S
  OBVIOUS
<1>3. f \in Bijection(A, B)
  <2>1. f \in Surjection(A, B)
    BY DEF Surjection
  <2>2. ASSUME NEW S \in A, NEW T \in A, S \cup {n + 1} = T \cup {n + 1} PROVE S = T
    BY <1>2, <2>2
  <2>3. \A S \in A : f[S] = S \cup {n + 1}
    OBVIOUS
  <2>4. \A S, T \in A : f[S] = f[T] => S = T
    <3>1. \A S, T \in A : S \cup {n + 1} = T \cup {n + 1} => S = T
      BY <2>2
    <3> HIDE DEF f, A
    <3> QED BY <2>3, <3>1
  <2>5. f \in [A -> B]
    BY <2>1 DEF Surjection
  <2> HIDE DEF f, A, B
  <2> QED BY <2>1, <2>4, <2>5 DEF Bijection, Injection, IsInjective
<1>4. IsFiniteSet(B) /\ Cardinality(B) = 2^n
  <2> HIDE DEF A, B, f
  <2> QED BY <1>1, <1>3, FS_Bijection DEF ExistsBijection
<1>5. A \cup B = SUBSET (1 .. n + 1)
  <2>1. ASSUME NEW S \in SUBSET (1 .. n + 1) PROVE S \in A \cup B
    <3>1. S \ {n + 1} \in A
      OBVIOUS
    <3>2. CASE n + 1 \in S
      <4>1. S = (S \ {n + 1}) \cup {n + 1}
        BY <3>2
      <4>2. (S \ {n + 1}) \cup {n + 1} \in B
        BY <3>1
      <4> QED BY <4>1, <4>2, Zenon
    <3>3. CASE n + 1 \notin S
      <4>1. S = S \ {n + 1}
        BY <3>3
      <4> QED BY <3>1, <4>1
    <3> QED BY <3>2, <3>3
  <2>2. A \cup B \subseteq SUBSET (1 .. n + 1)
    <3>1. A \subseteq SUBSET (1 .. n + 1)
      OBVIOUS
    <3>2. ASSUME NEW S \in A PROVE S \cup {n + 1} \in SUBSET (1 .. n + 1)
      OBVIOUS
    <3>3. B \subseteq SUBSET (1 .. n + 1)
      BY <3>2
    <3> HIDE DEF A, B
    <3> QED BY <3>1, <3>3
  <2> HIDE DEF A, B
  <2> QED BY <2>1, <2>2
<1>6. A \cap B = {}
  BY <1>2
<1>7. Cardinality(A \cup B) = 2^n + 2^n
  <2>1. Cardinality(A \cup B) = Cardinality(A) + Cardinality(B) - Cardinality(A \cap B)
    <3> HIDE DEF A, B
    <3> QED BY <1>1, <1>4, FS_Union
  <2>2. Cardinality(A \cap B) = 0
    BY <1>6, FS_EmptySet
  <2> HIDE DEF A, B
  <2> QED BY <2>1, <2>2, <1>1, <1>4
<1>8. Cardinality(SUBSET (1 .. n + 1)) = 2^(n + 1)
  BY PowerCounts
<1>9. 2^(n + 1) = 2^n + 2^n
  BY <1>5, <1>7, <1>8
<1>10. \A p \in Nat : p + p = 2 * p
  OBVIOUS
<1> HIDE DEF A, B, f
<1> QED BY <1>1, <1>9, <1>10

(* What division by a power of two does. *)
LEMMA DivIs ==
    ASSUME NEW p \in Nat, p > 0, NEW q \in Nat, NEW r \in Nat, r < p
    PROVE  (p * q + r) \div p = q
<1>1. p * q \in Nat
  OBVIOUS
<1> DEFINE t == p * q + r
           d == t \div p
           e == t % p
<1>2. t \in Nat /\ d \in Nat /\ e \in Nat /\ e < p /\ t = p * d + e
  BY <1>1
<1> HIDE DEF d, e
<1>3. ASSUME d < q PROVE FALSE
  <2>1. p * (d + 1) <= p * q
    BY <1>2, <1>3
  <2>2. p * (d + 1) = p * d + p
    BY <1>2
  <2> QED BY <1>1, <1>2, <2>1, <2>2
<1>4. ASSUME q < d PROVE FALSE
  <2>1. p * (q + 1) <= p * d
    BY <1>2, <1>4
  <2>2. p * (q + 1) = p * q + p
    OBVIOUS
  <2> QED BY <1>1, <1>2, <2>1, <2>2
<1>5. d = q
  BY <1>2, <1>3, <1>4
<1> QED BY <1>5 DEF d

LEMMA PowerPositive ==
    ASSUME NEW n \in Nat
    PROVE  2^n \in Nat /\ 2^n > 0
<1> DEFINE S == SUBSET (1 .. n)
<1>1. S # {}
  OBVIOUS
<1>2. IsFiniteSet(S) /\ Cardinality(S) = 2^n /\ 2^n \in Nat
  BY PowerCounts
<1> HIDE DEF S
<1>3. Cardinality(S) # 0
  BY <1>1, <1>2, FS_EmptySet
<1>4. 2^n # 0
  BY <1>2, <1>3
<1>5. \A p \in Nat : p # 0 => p > 0
  OBVIOUS
<1> QED BY <1>2, <1>4, <1>5

-----------------------------------------------------------------------------
(* Proof *)

(* Trees and proofs, layer by layer. *)
Leaf(s, o) == IF o >= Len(s) THEN zero ELSE merkle_tx(s, o)
Layer(m, s, k) ==
    [o \in Nat |-> IF k = 0 THEN Leaf(s, o)
                   ELSE merkle_two_hashes(m[k - 1][o], m[k - 1][o + 2^(k - 1)])]
IsTree(m, s, n) == m = [k \in 0 .. n |-> Layer(m, s, k)]
TreeOf(s, n) == CHOOSE m : IsTree(m, s, n)

LEMMA RecurseIsTree ==
    ASSUME NEW s, NEW o, NEW n
    PROVE  merkle_recurse(s, o, n) = TreeOf(s, n)[n][o]
BY DEF merkle_recurse, TreeOf, IsTree, Layer, Leaf

Rung(up, pair, t, merkles, i) ==
    IF i = 0 THEN merkle_two_hashes(pair[1], pair[2])
    ELSE IF Bit(t, i - 1) = 1 THEN merkle_two_hashes(merkles[i - 1], up[i - 1])
    ELSE merkle_two_hashes(up[i - 1], merkles[i - 1])
IsClimb(up, pair, t, merkles) == up = [i \in 0 .. Levels |-> Rung(up, pair, t, merkles, i)]
Climb(pair, t, merkles) == CHOOSE up : IsClimb(up, pair, t, merkles)

LEMMA ProofIsClimb ==
    ASSUME NEW pair, NEW t, NEW merkles
    PROVE  proof_merkles_to(pair, t, merkles) = Climb(pair, t, merkles)[Levels]
BY DEF proof_merkles_to, Climb, IsClimb, Rung

(* A layer is made of the one below it. *)
LEMMA LayersMatch ==
    ASSUME NEW f, NEW g, NEW s, NEW k \in Nat, k > 0 => f[k - 1] = g[k - 1]
    PROVE  Layer(f, s, k) = Layer(g, s, k)
<1>1. CASE k = 0
  BY <1>1 DEF Layer
<1>2. CASE k > 0
  BY <1>2 DEF Layer
<1> QED BY <1>1, <1>2

LEMMA TreeExists ==
    ASSUME NEW s, NEW n \in Nat
    PROVE  IsTree(TreeOf(s, n), s, n)
<1> DEFINE T == {j \in Nat : ~ \E m : IsTree(m, s, j)}
<1>1. T = {}
  <2>1. SUFFICES ASSUME T # {} PROVE FALSE
    OBVIOUS
  <2>2. PICK j \in T : \A x \in T : j <= x
    <3>1. T \in SUBSET Nat
      OBVIOUS
    <3> HIDE DEF T
    <3> QED BY <2>1, <3>1, LeastNatural
  <2>3. j \in Nat /\ ~ \E m : IsTree(m, s, j)
    BY <2>2
  <2>4. CASE j = 0
    <3> DEFINE m == [k \in 0 .. 0 |-> Layer(<<>>, s, k)]
    <3>1. \A k \in 0 .. 0 : Layer(<<>>, s, k) = Layer(m, s, k)
      <4>1. Layer(<<>>, s, 0) = Layer(m, s, 0)
        <5> HIDE DEF m
        <5> QED BY LayersMatch
      <4> HIDE DEF m
      <4> QED BY <4>1
    <3>2. m = [k \in 0 .. 0 |-> Layer(m, s, k)]
      BY <3>1
    <3> HIDE DEF m
    <3> QED BY <3>2, <2>3, <2>4 DEF IsTree
  <2>5. CASE j > 0
    <3>1. PICK g : IsTree(g, s, j - 1)
      <4>1. j - 1 \in Nat /\ j - 1 \notin T
        BY <2>2, <2>3, <2>5
      <4> QED BY <4>1
    <3>2. \A k \in 0 .. j - 1 : g[k] = Layer(g, s, k)
      BY <3>1 DEF IsTree
    <3> DEFINE m == [k \in 0 .. j |-> IF k < j THEN g[k] ELSE Layer(g, s, k)]
    <3>3. \A k \in 0 .. j : m[k] = Layer(g, s, k)
      BY <3>2, <2>3
    <3>4. \A k \in 0 .. j - 1 : m[k] = g[k]
      BY <2>3
    <3>5. \A k \in 0 .. j : Layer(g, s, k) = Layer(m, s, k)
      <4>1. TAKE k \in 0 .. j
      <4>2. k \in Nat /\ (k > 0 => g[k - 1] = m[k - 1])
        BY <3>4, <2>3
      <4> HIDE DEF m
      <4> QED BY <4>2, LayersMatch
    <3>6. m = [k \in 0 .. j |-> Layer(m, s, k)]
      <4>1. m = [k \in 0 .. j |-> m[k]]
        OBVIOUS
      <4> HIDE DEF m
      <4> QED BY <4>1, <3>3, <3>5
    <3> HIDE DEF m
    <3> QED BY <3>6, <2>3 DEF IsTree
  <2> QED BY <2>3, <2>4, <2>5
<1>2. \E m : IsTree(m, s, n)
  BY <1>1
<1> QED BY <1>2 DEF TreeOf

LEMMA TreesMatch ==
    ASSUME NEW s, NEW a \in Nat, NEW b \in Nat, a <= b
    PROVE  \A k \in 0 .. a : TreeOf(s, a)[k] = TreeOf(s, b)[k]
<1> DEFINE f == TreeOf(s, a)
           g == TreeOf(s, b)
           T == {k \in 0 .. a : f[k] # g[k]}
<1>1. \A k \in 0 .. a : f[k] = Layer(f, s, k)
  BY TreeExists DEF IsTree
<1>2. \A k \in 0 .. b : g[k] = Layer(g, s, k)
  BY TreeExists DEF IsTree
<1> HIDE DEF f, g
<1>3. T = {}
  <2>1. SUFFICES ASSUME T # {} PROVE FALSE
    OBVIOUS
  <2>2. PICK j \in T : \A x \in T : j <= x
    <3>1. T \in SUBSET Nat
      OBVIOUS
    <3> HIDE DEF T
    <3> QED BY <2>1, <3>1, LeastNatural
  <2>3. j \in Nat /\ j \in 0 .. a /\ j \in 0 .. b
    BY <2>2
  <2>4. j > 0 => f[j - 1] = g[j - 1]
    BY <2>2, <2>3
  <2>5. Layer(f, s, j) = Layer(g, s, j)
    BY <2>3, <2>4, LayersMatch
  <2> QED BY <1>1, <1>2, <2>2, <2>3, <2>5
<1>4. \A k \in 0 .. a : f[k] = g[k]
  BY <1>3
<1> QED BY <1>4 DEF f, g

(* merkle_recurse() of a leaf, and of a node. *)
LEMMA MerkleRecursion ==
    ASSUME NEW s, NEW o \in Nat, NEW n \in Nat
    PROVE  /\ merkle_recurse(s, o, 0) = Leaf(s, o)
           /\ merkle_recurse(s, o, n + 1) =
                  <<merkle_recurse(s, o, n), merkle_recurse(s, o + 2^n, n)>>
<1>1. TreeOf(s, 0)[0] = Layer(TreeOf(s, 0), s, 0)
  BY TreeExists DEF IsTree
<1>2. merkle_recurse(s, o, 0) = Leaf(s, o)
  BY <1>1, RecurseIsTree DEF Layer
<1>3. TreeOf(s, n + 1)[n + 1] = Layer(TreeOf(s, n + 1), s, n + 1)
  BY TreeExists DEF IsTree
<1>4. TreeOf(s, n + 1)[n] = TreeOf(s, n)[n]
  BY TreesMatch
<1>5. n + 1 # 0 /\ (n + 1) - 1 = n
  OBVIOUS
<1>6. Layer(TreeOf(s, n + 1), s, n + 1)[o] = <<TreeOf(s, n)[n][o], TreeOf(s, n)[n][o + 2^n]>>
  BY <1>4, <1>5 DEF Layer, merkle_two_hashes
<1> QED BY <1>2, <1>3, <1>6, RecurseIsTree
(* The same for the hashes of a proof, from the leaf upwards. *)
LEMMA RungsMatch ==
    ASSUME NEW f, NEW g, NEW pair, NEW t, NEW merkles, NEW i \in Nat, i > 0 => f[i - 1] = g[i - 1]
    PROVE  Rung(f, pair, t, merkles, i) = Rung(g, pair, t, merkles, i)
<1>1. CASE i = 0
  BY <1>1 DEF Rung
<1>2. CASE i > 0
  BY <1>2 DEF Rung
<1> QED BY <1>1, <1>2

LEMMA ClimbExists ==
    ASSUME ProofAssumption, NEW pair, NEW t, NEW merkles
    PROVE  IsClimb(Climb(pair, t, merkles), pair, t, merkles)
<1> DEFINE R(f, i) == Rung(f, pair, t, merkles, i)
           T == {j \in Nat : ~ \E f : f = [i \in 0 .. j |-> R(f, i)]}
<1>1. T = {}
  <2>1. SUFFICES ASSUME T # {} PROVE FALSE
    OBVIOUS
  <2>2. PICK j \in T : \A x \in T : j <= x
    <3>1. T \in SUBSET Nat
      OBVIOUS
    <3> HIDE DEF T
    <3> QED BY <2>1, <3>1, LeastNatural
  <2>3. j \in Nat /\ ~ \E f : f = [i \in 0 .. j |-> R(f, i)]
    BY <2>2
  <2>4. CASE j = 0
    <3> DEFINE f == [i \in 0 .. 0 |-> R(<<>>, i)]
    <3>1. \A i \in 0 .. 0 : R(<<>>, i) = R(f, i)
      <4>1. R(<<>>, 0) = R(f, 0)
        <5> HIDE DEF f
        <5> QED BY RungsMatch
      <4> HIDE DEF f, R
      <4> QED BY <4>1
    <3>2. f = [i \in 0 .. 0 |-> R(f, i)]
      <4> HIDE DEF R
      <4> QED BY <3>1
    <3> HIDE DEF f, R
    <3> QED BY <3>2, <2>3, <2>4
  <2>5. CASE j > 0
    <3>1. PICK g : g = [i \in 0 .. j - 1 |-> R(g, i)]
      <4>1. j - 1 \in Nat /\ j - 1 \notin T
        BY <2>2, <2>3, <2>5
      <4> HIDE DEF R
      <4> QED BY <4>1
    <3>2. \A i \in 0 .. j - 1 : g[i] = R(g, i)
      <4> HIDE DEF R
      <4> QED BY <3>1
    <3> DEFINE f == [i \in 0 .. j |-> IF i < j THEN g[i] ELSE R(g, i)]
    <3>3. \A i \in 0 .. j : f[i] = R(g, i)
      <4> HIDE DEF R
      <4> QED BY <3>2, <2>3
    <3>4. \A i \in 0 .. j - 1 : f[i] = g[i]
      BY <2>3
    <3>5. \A i \in 0 .. j : R(g, i) = R(f, i)
      <4>1. TAKE i \in 0 .. j
      <4>2. i \in Nat /\ (i > 0 => g[i - 1] = f[i - 1])
        BY <3>4, <2>3
      <4> HIDE DEF f
      <4> QED BY <4>2, RungsMatch
    <3>6. f = [i \in 0 .. j |-> R(f, i)]
      <4>1. f = [i \in 0 .. j |-> f[i]]
        OBVIOUS
      <4> HIDE DEF f, R
      <4> QED BY <4>1, <3>3, <3>5
    <3> HIDE DEF f, R
    <3> QED BY <3>6, <2>3
  <2> QED BY <2>3, <2>4, <2>5
<1>2. \E f : f = [i \in 0 .. Levels |-> R(f, i)]
  BY <1>1 DEF ProofAssumption
<1>3. \E f : IsClimb(f, pair, t, merkles)
  BY <1>2 DEF IsClimb
<1> QED BY <1>3 DEF Climb

(* Halving once more. *)
LEMMA HalvedAgain ==
    ASSUME NEW t \in Nat, NEW i \in Nat
    PROVE  LET q == t \div 2^i  h == t \div 2^(i + 1)
           IN  /\ q \in Nat /\ h \in Nat
               /\ q = 2 * h + Bit(t, i) /\ Bit(t, i) \in {0, 1}
<1> DEFINE p == 2^i
           q == t \div p
           e == t % p
           h == q \div 2
           b == q % 2
<1>1. p \in Nat /\ p > 0 /\ 2^(i + 1) = 2 * p
  BY PowerPositive, PowerDoubles
<1> HIDE DEF p
<1>2. q \in Nat /\ e \in Nat /\ e < p /\ t = p * q + e
  BY <1>1
<1> HIDE DEF q, e
<1>3. h \in Nat /\ b \in {0, 1} /\ q = 2 * h + b
  BY <1>2
<1> HIDE DEF h, b
<1>4. /\ p * b \in Nat /\ p * b + e < 2 * p /\ p * b + e \in Nat
      /\ t = (2 * p) * h + (p * b + e)
  <2>1. p * b \in Nat /\ p * b <= p
    <3>1. CASE b = 0
      BY <3>1, <1>1
    <3>2. CASE b = 1
      BY <3>2, <1>1
    <3> QED BY <1>3, <3>1, <3>2
  <2>2. p * q = (2 * p) * h + p * b
    BY <1>1, <1>2, <1>3
  <2>3. (2 * p) * h \in Nat
    BY <1>1, <1>3
  <2> QED BY <1>1, <1>2, <2>1, <2>2, <2>3
<1>5. t \div (2 * p) = h
  <2> DEFINE r == p * b + e  d == 2 * p
  <2>1. d \in Nat /\ d > 0 /\ r \in Nat /\ r < d
    BY <1>1, <1>4
  <2> HIDE DEF r, d
  <2>2. (d * h + r) \div d = h
    BY <2>1, <1>3, DivIs
  <2> QED BY <2>2, <1>4 DEF r, d
<1>6. t \div 2^(i + 1) = h
  BY <1>1, <1>5
<1>7. Bit(t, i) = b
  BY DEF Bit, b, q, p
<1> QED BY <1>2, <1>3, <1>6, <1>7 DEF q, p
(* The nodes on the way from leaf t to the root, and their siblings. *)
Node(t, i) == merkle_recurse(shard, 2^i * (t \div 2^i), i)
Beside(t, i) == IF Bit(t, i) = 1 THEN (t \div 2^i) - 1 ELSE (t \div 2^i) + 1

LEMMA NodeAbove ==
    ASSUME NEW t \in Nat, NEW i \in Nat
    PROVE  /\ Beside(t, i) \in Nat
           /\ LET sibling == merkle_recurse(shard, 2^i * Beside(t, i), i)
              IN  Node(t, i + 1) = IF Bit(t, i) = 1 THEN <<sibling, Node(t, i)>>
                                   ELSE <<Node(t, i), sibling>>
<1> DEFINE p == 2^i
           q == t \div 2^i
           h == t \div 2^(i + 1)
           o == (2 * p) * h
<1>1. p \in Nat /\ 2^(i + 1) = 2 * p
  BY PowerPositive, PowerDoubles
<1>2. q \in Nat /\ h \in Nat /\ q = 2 * h + Bit(t, i) /\ Bit(t, i) \in {0, 1}
  BY HalvedAgain
<1>3. Beside(t, i) = IF Bit(t, i) = 1 THEN q - 1 ELSE q + 1
  BY DEF Beside
<1> HIDE DEF q, h, p
<1>4. o \in Nat /\ o = p * (2 * h) /\ o + p = p * (2 * h + 1)
  BY <1>1, <1>2
<1> HIDE DEF o
<1>5. merkle_recurse(shard, o, i + 1) =
          <<merkle_recurse(shard, o, i), merkle_recurse(shard, o + p, i)>>
  BY <1>4, MerkleRecursion DEF p
<1>6. Node(t, i + 1) = merkle_recurse(shard, o, i + 1)
  BY <1>1 DEF Node, o, h
<1>7. Node(t, i) = merkle_recurse(shard, p * q, i)
  BY DEF Node, p, q
<1>8. CASE Bit(t, i) = 1
  <2>1. Beside(t, i) = 2 * h /\ q = 2 * h + 1 /\ Beside(t, i) \in Nat
    BY <1>2, <1>3, <1>8
  <2>2. Node(t, i) = merkle_recurse(shard, o + p, i)
    BY <1>4, <1>7, <2>1
  <2>3. merkle_recurse(shard, 2^i * Beside(t, i), i) = merkle_recurse(shard, o, i)
    BY <1>4, <2>1 DEF p
  <2> QED BY <1>5, <1>6, <1>8, <2>1, <2>2, <2>3
<1>9. CASE Bit(t, i) # 1
  <2>1. Beside(t, i) = 2 * h + 1 /\ q = 2 * h /\ Beside(t, i) \in Nat
    BY <1>2, <1>3, <1>9
  <2>2. Node(t, i) = merkle_recurse(shard, o, i)
    BY <1>4, <1>7, <2>1
  <2>3. merkle_recurse(shard, 2^i * Beside(t, i), i) = merkle_recurse(shard, o + p, i)
    BY <1>4, <2>1 DEF p
  <2> QED BY <1>5, <1>6, <1>9, <2>1, <2>2, <2>3
<1> QED BY <1>8, <1>9

LEMMA NodeEnds ==
    ASSUME ProofAssumption, NEW t \in 0 .. 2^Levels - 1
    PROVE  Node(t, Levels) = merkle_txs(shard) /\ Node(t, 0) = Leaf(shard, t)
<1>1. 2^Levels \in Nat /\ t \in Nat /\ t < 2^Levels /\ Levels \in Nat
  BY PowerPositive DEF ProofAssumption
<1>2. 2^Levels * (t \div 2^Levels) = 0
  <2> DEFINE p == 2^Levels
  <2>1. p \in Nat /\ p > 0 /\ t < p
    BY <1>1
  <2> HIDE DEF p
  <2>2. (p * 0 + t) \div p = 0
    BY <1>1, <2>1, DivIs
  <2>3. p * 0 = 0 /\ p * 0 + t = t
    BY <1>1, <2>1
  <2>4. p * (t \div p) = 0
    BY <2>2, <2>3
  <2> QED BY <2>4 DEF p
<1>3. 2^0 * (t \div 2^0) = t
  BY <1>1, PowerOfZero
<1>4. Node(t, Levels) = merkle_txs(shard)
  BY <1>2 DEF Node, merkle_txs, merkle_some_txs
<1>5. Node(t, 0) = Leaf(shard, t)
  BY <1>1, <1>3, MerkleRecursion DEF Node
<1> QED BY <1>4, <1>5

(* What leads to the root leads there by the nodes above the leaf. *)
LEMMA ClimbDown ==
    ASSUME ProofAssumption, NEW t \in Nat, NEW pair, NEW merkles, NEW up,
           IsClimb(up, pair, t, merkles), up[Levels] = Node(t, Levels)
    PROVE  \A i \in 0 .. Levels : up[i] = Node(t, i)
<1>0. Levels \in Nat
  BY DEF ProofAssumption
<1>1. \A i \in 0 .. Levels : up[i] = Rung(up, pair, t, merkles, i)
  BY DEF IsClimb
<1> DEFINE T == {j \in 0 .. Levels : up[Levels - j] # Node(t, Levels - j)}
<1>2. T = {}
  <2>1. SUFFICES ASSUME T # {} PROVE FALSE
    OBVIOUS
  <2>2. PICK j \in T : \A x \in T : j <= x
    <3>1. T \in SUBSET Nat
      OBVIOUS
    <3> HIDE DEF T
    <3> QED BY <2>1, <3>1, LeastNatural
  <2>3. j \in 0 .. Levels /\ up[Levels - j] # Node(t, Levels - j)
    BY <2>2
  <2>4. j # 0
    BY <1>0, <2>3
  <2> DEFINE i == Levels - j
  <2>5. i \in Nat /\ i + 1 \in 0 .. Levels /\ i + 1 = Levels - (j - 1) /\ j - 1 \in 0 .. Levels
    BY <1>0, <2>3, <2>4
  <2>6. up[i + 1] = Node(t, i + 1)
    BY <2>2, <2>3, <2>5
  <2> HIDE DEF i
  <2>7. up[i + 1] = IF Bit(t, i) = 1 THEN <<merkles[i], up[i]>> ELSE <<up[i], merkles[i]>>
    <3>1. i + 1 # 0 /\ (i + 1) - 1 = i
      BY <2>5
    <3> QED BY <1>1, <2>5, <3>1 DEF Rung, merkle_two_hashes
  <2>8. \E x : Node(t, i + 1) = IF Bit(t, i) = 1 THEN <<x, Node(t, i)>> ELSE <<Node(t, i), x>>
    BY <2>5, NodeAbove
  <2>9. up[i] = Node(t, i)
    BY <2>6, <2>7, <2>8
  <2> QED BY <2>3, <2>9 DEF i
<1>3. ASSUME NEW i \in 0 .. Levels PROVE up[i] = Node(t, i)
  <2>1. Levels - i \in 0 .. Levels /\ Levels - (Levels - i) = i
    BY <1>0
  <2> QED BY <1>2, <2>1
<1> QED BY <1>3

(* And the siblings of those nodes lead to the root. *)
LEMMA ClimbUp ==
    ASSUME ProofAssumption, NEW t \in Nat, NEW merkles, NEW up,
           IsClimb(up, Node(t, 0), t, merkles),
           \E a, b : Node(t, 0) = <<a, b>>,
           \A i \in 0 .. Levels - 1 :
               merkles[i] = merkle_recurse(shard, 2^i * Beside(t, i), i)
    PROVE  up[Levels] = Node(t, Levels)
<1>0. Levels \in Nat
  BY DEF ProofAssumption
<1>1. \A i \in 0 .. Levels : up[i] = Rung(up, Node(t, 0), t, merkles, i)
  BY DEF IsClimb
<1> DEFINE T == {j \in 0 .. Levels : up[j] # Node(t, j)}
<1>2. T = {}
  <2>1. SUFFICES ASSUME T # {} PROVE FALSE
    OBVIOUS
  <2>2. PICK j \in T : \A x \in T : j <= x
    <3>1. T \in SUBSET Nat
      OBVIOUS
    <3> HIDE DEF T
    <3> QED BY <2>1, <3>1, LeastNatural
  <2>3. j \in 0 .. Levels /\ up[j] # Node(t, j)
    BY <2>2
  <2>4. CASE j = 0
    <3>1. up[0] = <<Node(t, 0)[1], Node(t, 0)[2]>>
      BY <1>1, <2>3, <2>4 DEF Rung, merkle_two_hashes
    <3>2. up[0] = Node(t, 0)
      BY <3>1
    <3> QED BY <2>3, <2>4, <3>2
  <2>5. CASE j # 0
    <3> DEFINE i == j - 1
    <3>1. i \in Nat /\ i \in 0 .. Levels - 1 /\ i \in 0 .. Levels /\ j = i + 1
      BY <1>0, <2>3, <2>5
    <3>2. up[i] = Node(t, i)
      BY <2>2, <2>3, <3>1
    <3> HIDE DEF i
    <3>3. up[i + 1] = IF Bit(t, i) = 1 THEN <<merkles[i], up[i]>> ELSE <<up[i], merkles[i]>>
      <4>1. i + 1 # 0 /\ (i + 1) - 1 = i
        BY <3>1
      <4> QED BY <1>1, <2>3, <3>1, <4>1 DEF Rung, merkle_two_hashes
    <3>4. up[i + 1] = Node(t, i + 1)
      BY <3>1, <3>2, <3>3, NodeAbove
    <3> QED BY <2>3, <3>1, <3>4
  <2> QED BY <2>4, <2>5
<1> QED BY <1>0, <1>2
(* A leaf that exists is under as many nodes as the tree has levels, and   *)
(* so is the sibling of each of them.                                      *)
LEMMA NodesInside ==
    ASSUME ProofAssumption, NEW t \in 0 .. 2^Levels - 1
    PROVE  \A i \in 0 .. Levels - 1 : Beside(t, i) \in 0 .. 2^(Levels - i) - 1
<1>1. 2^Levels \in Nat /\ t \in Nat /\ t < 2^Levels /\ Levels \in Nat
  BY PowerPositive DEF ProofAssumption
<1>2. \A i \in 0 .. Levels : t \div 2^i \in Nat /\ 2^(Levels - i) \in Nat
  <2>1. TAKE i \in 0 .. Levels
  <2>2. i \in Nat /\ Levels - i \in Nat
    BY <1>1
  <2> QED BY <1>1, <2>2, HalvedAgain, PowerPositive
<1>3. ASSUME NEW i \in 0 .. Levels - 1, t \div 2^(i + 1) < 2^(Levels - (i + 1))
      PROVE  /\ t \div 2^i < 2^(Levels - i)
             /\ Beside(t, i) \in 0 .. 2^(Levels - i) - 1
  <2> DEFINE q == t \div 2^i
             h == t \div 2^(i + 1)
             p == 2^(Levels - (i + 1))
             b == Bit(t, i)
  <2>1. i \in Nat /\ Levels - (i + 1) \in Nat /\ (Levels - (i + 1)) + 1 = Levels - i
    BY <1>1
  <2>2. q \in Nat /\ h \in Nat /\ q = 2 * h + b /\ b \in {0, 1}
    BY <1>1, <2>1, HalvedAgain
  <2>3. 2^(Levels - i) = 2 * p /\ p \in Nat
    BY <2>1, PowerDoubles, PowerPositive
  <2>4. h < p
    BY <1>3
  <2>5. Beside(t, i) = IF b = 1 THEN q - 1 ELSE q + 1
    BY DEF Beside
  <2> HIDE DEF q, h, p, b
  <2>6. Beside(t, i) \in 0 .. 2 * p - 1 /\ q < 2 * p
    BY <2>2, <2>3, <2>4, <2>5
  <2>7. Beside(t, i) \in 0 .. 2^(Levels - i) - 1 /\ q < 2^(Levels - i)
    BY <2>3, <2>6
  <2> QED BY <2>7 DEF q
<1> DEFINE T == {j \in 0 .. Levels : ~(t \div 2^(Levels - j) < 2^(Levels - (Levels - j)))}
<1>4. T = {}
  <2>1. SUFFICES ASSUME T # {} PROVE FALSE
    OBVIOUS
  <2>2. PICK j \in T : \A x \in T : j <= x
    <3>1. T \in SUBSET Nat
      OBVIOUS
    <3> HIDE DEF T
    <3> QED BY <2>1, <3>1, LeastNatural
  <2>3. j \in 0 .. Levels /\ ~(t \div 2^(Levels - j) < 2^(Levels - (Levels - j)))
    BY <2>2
  <2>4. CASE j = 0
    <3> DEFINE p == 2^Levels
    <3>1. (p * 0 + t) \div p = 0
      <4>1. p \in Nat /\ p > 0 /\ t < p
        BY <1>1
      <4> HIDE DEF p
      <4> QED BY <1>1, <4>1, DivIs
    <3>2. p * 0 + t = t
      <4>1. p \in Nat
        BY <1>1
      <4> HIDE DEF p
      <4> QED BY <1>1, <4>1
    <3>3. t \div 2^Levels = 0
      BY <3>1, <3>2
    <3>4. Levels - 0 = Levels /\ Levels - Levels = 0
      BY <1>1
    <3>5. 2^(Levels - (Levels - 0)) = 1
      BY <3>4, PowerOfZero, Zenon
    <3>6. t \div 2^(Levels - 0) = 0
      BY <3>3, <3>4, Zenon
    <3>7. t \div 2^(Levels - 0) < 2^(Levels - (Levels - 0))
      BY <3>5, <3>6
    <3> QED BY <2>3, <2>4, <3>7, Zenon
  <2>5. CASE j # 0
    <3> DEFINE i == Levels - j
    <3>1. i \in 0 .. Levels - 1 /\ i + 1 = Levels - (j - 1) /\ j - 1 \in 0 .. Levels
      BY <1>1, <2>3, <2>5
    <3>2. t \div 2^(i + 1) < 2^(Levels - (i + 1))
      <4>1. j - 1 \notin T
        BY <2>2, <3>1
      <4>2. t \div 2^(Levels - (j - 1)) < 2^(Levels - (Levels - (j - 1)))
        BY <3>1, <4>1
      <4> HIDE DEF i
      <4> QED BY <4>2, <3>1
    <3>3. t \div 2^i < 2^(Levels - i)
      BY <1>3, <3>1, <3>2
    <3> QED BY <2>3, <3>3
  <2> QED BY <2>4, <2>5
<1>5. ASSUME NEW i \in 0 .. Levels - 1 PROVE t \div 2^(i + 1) < 2^(Levels - (i + 1))
  <2> DEFINE j == Levels - (i + 1)
  <2>1. j \in 0 .. Levels /\ Levels - j = i + 1
    BY <1>1
  <2>2. t \div 2^(Levels - j) < 2^(Levels - (Levels - j))
    BY <1>4, <2>1
  <2> HIDE DEF j
  <2>3. t \div 2^(i + 1) < 2^(Levels - (i + 1))
    BY <2>1, <2>2
  <2> QED BY <2>3
<1> QED BY <1>3, <1>5

(* What check_proof_byhash() accepts for slot t is what is in it. *)
LEMMA AcceptedIsThere ==
    ASSUME ProofAssumption, Len(shard) \in Nat, NEW t \in 0 .. 2^Levels - 1,
           NEW merkles, NEW a, NEW b,
           check_proof_byhash(shard, t, merkles, <<a, b>>)
    PROVE  <<a, b>> = <<txhash(shard[t + 1]), refhash(shard[t + 1])>>
<1> DEFINE up == Climb(<<a, b>>, t, merkles)
<1>1. t \in Nat /\ t < Len(shard) /\ ~(t >= Len(shard)) /\ Levels \in Nat
  <2>1. t < Len(shard)
    BY DEF check_proof_byhash
  <2> QED BY <2>1, PowerPositive DEF ProofAssumption
<1>2. IsClimb(up, <<a, b>>, t, merkles)
  BY ClimbExists
<1>3. up[Levels] = Node(t, Levels)
  BY NodeEnds, ProofIsClimb DEF check_proof_byhash
<1> HIDE DEF up
<1>4. up[0] = Node(t, 0)
  BY <1>1, <1>2, <1>3, ClimbDown
<1>5. up[0] = <<a, b>>
  <2>1. up[0] = Rung(up, <<a, b>>, t, merkles, 0)
    <3>1. 0 \in 0 .. Levels
      BY <1>1
    <3>2. up = [i \in 0 .. Levels |-> Rung(up, <<a, b>>, t, merkles, i)]
      BY <1>2 DEF IsClimb
    <3> QED BY <3>1, <3>2
  <2> QED BY <2>1 DEF Rung, merkle_two_hashes
<1>6. Node(t, 0) = <<txhash(shard[t + 1]), refhash(shard[t + 1])>>
  BY <1>1, NodeEnds DEF Leaf, merkle_tx, merkle_two_hashes
<1> QED BY <1>4, <1>5, <1>6

(* For every transaction there is a proof made of hashes of the tree. *)
LEMMA SomeProof ==
    ASSUME ProofAssumption, Len(shard) \in Nat, NEW t \in 0 .. 2^Levels - 1, t < Len(shard)
    PROVE  \E merkles \in [0 .. Levels - 1 -> Hashes] :
               check_proof(shard, t, merkles, shard[t + 1])
<1> DEFINE M == [i \in 0 .. Levels - 1 |-> merkle_recurse(shard, 2^i * Beside(t, i), i)]
           up == Climb(Node(t, 0), t, M)
<1>1. t \in Nat /\ ~(t >= Len(shard)) /\ Levels \in Nat
  BY PowerPositive DEF ProofAssumption
<1>2. M \in [0 .. Levels - 1 -> Hashes]
  <2>1. ASSUME NEW i \in 0 .. Levels - 1
        PROVE  merkle_recurse(shard, 2^i * Beside(t, i), i) \in Hashes
    <3>1. Beside(t, i) \in 0 .. 2^(Levels - i) - 1 /\ i \in 0 .. Levels
      BY <1>1, NodesInside
    <3>2. 2^i * Beside(t, i) = Beside(t, i) * 2^i
      <4>1. 2^i \in Nat /\ Beside(t, i) \in Nat
        <5>1. i \in Nat
          BY <1>1
        <5> QED BY <1>1, <5>1, NodeAbove, PowerPositive
      <4> DEFINE p == 2^i
      <4> HIDE DEF p
      <4>2. p * Beside(t, i) = Beside(t, i) * p
        BY <4>1 DEF p
      <4> QED BY <4>2 DEF p
    <3>3. merkle_some_txs(shard, Beside(t, i) * 2^i, i)
              \in {merkle_some_txs(shard, o * 2^i, i) : o \in 0 .. 2^(Levels - i) - 1}
      BY <3>1
    <3>4. merkle_some_txs(shard, Beside(t, i) * 2^i, i) \in Hashes
      BY <3>1, <3>3 DEF Hashes
    <3> QED BY <3>2, <3>4 DEF merkle_some_txs
  <2> QED BY <2>1
<1>3. Node(t, 0) = <<txhash(shard[t + 1]), refhash(shard[t + 1])>>
  BY <1>1, NodeEnds DEF Leaf, merkle_tx, merkle_two_hashes
<1>4. IsClimb(up, Node(t, 0), t, M)
  BY ClimbExists
<1>5. \A i \in 0 .. Levels - 1 : M[i] = merkle_recurse(shard, 2^i * Beside(t, i), i)
  OBVIOUS
<1> HIDE DEF M
<1>6. up[Levels] = Node(t, Levels)
  <2> HIDE DEF up
  <2> QED BY <1>1, <1>3, <1>4, <1>5, ClimbUp
<1>7. proof_merkles_to(Node(t, 0), t, M) = merkle_txs(shard)
  BY <1>6, NodeEnds, ProofIsClimb
<1>8. check_proof(shard, t, M, shard[t + 1])
  BY <1>3, <1>7 DEF check_proof, check_proof_byhash
<1> QED BY <1>2, <1>8

(* A proof shows what it is about: of all hashes that can be made from a   *)
(* shard, check_proof_byhash() takes those of the transaction in the slot, *)
(* and for each transaction some proof is taken.                           *)
THEOREM ProofsCorrect ==
    ASSUME ProofAssumption
    PROVE  ProofSpec => []ProofsSound
<1> DEFINE I == Len(shard) \in Nat /\ shard \in Seq(LeafTxs)
<1>1. ProofInit => I
  BY DEF ProofInit
<1>2. I /\ [ProofNext]_shard => I'
  BY DEF ProofNext
<1>3. I => ProofsSound
  <2>1. SUFFICES ASSUME Len(shard) \in Nat PROVE ProofsSound
    OBVIOUS
  <2>2. ASSUME NEW t \in 0 .. 2^Levels - 1
        PROVE  /\ \A merkles \in [0 .. Levels - 1 -> Hashes], a, b \in Hashes :
                      check_proof_byhash(shard, t, merkles, <<a, b>>) =>
                          <<a, b>> = <<txhash(shard[t + 1]), refhash(shard[t + 1])>>
               /\ t < Len(shard) =>
                      \E merkles \in [0 .. Levels - 1 -> Hashes] :
                          check_proof(shard, t, merkles, shard[t + 1])
    BY <2>1, AcceptedIsThere, SomeProof
  <2> QED BY <2>2 DEF ProofsSound
<1> QED BY <1>1, <1>2, <1>3, PTL DEF ProofSpec

-----------------------------------------------------------------------------
(* Consensus *)
ChainType ==
    /\ Depth \in 0 .. MaxDepth
    /\ \E D : chain \in Seq([time : Nat, diff : D])

LEMMA ChainTypeInvariant == ConsensusSpec => []ChainType
<1>1. ConsensusInit => ChainType
  <2>1. SUFFICES ASSUME ConsensusInit PROVE ChainType
    OBVIOUS
  <2> DEFINE B == [time : Nat, diff : {GenesisDifficulty}]
             g == [time |-> 0, diff |-> GenesisDifficulty]
  <2>2. g \in B /\ chain = <<g>>
    BY <2>1 DEF ConsensusInit
  <2>3. chain \in Seq(B) /\ Len(chain) = 1
    <3> HIDE DEF B, g
    <3> QED BY <2>2
  <2>4. MaxDepth \in Nat
    BY ConsensusAssumption DEF ConsensusAssumption
  <2>5. Depth \in 0 .. MaxDepth
    BY <2>3, <2>4 DEF Depth
  <2> QED BY <2>3, <2>5 DEF ChainType
<1>2. ChainType /\ [ConsensusNext]_consensusVars => ChainType'
  <2>1. SUFFICES ASSUME ChainType, [ConsensusNext]_consensusVars PROVE ChainType'
    OBVIOUS
  <2>2. CASE UNCHANGED chain
    BY <2>1, <2>2 DEF ChainType, Depth
  <2>3. ASSUME NEW t \in Times, check_block_header(t), chain' # chain PROVE ChainType'
    <3>1. PICK x : chain' = Append(chain, [time |-> t, diff |-> x])
      BY <2>3 DEF check_block_header
    <3>2. Depth < MaxDepth
      BY <2>3 DEF check_block_header
    <3>3. PICK D : chain \in Seq([time : Nat, diff : D])
      BY <2>1 DEF ChainType
    <3>4. t \in Nat /\ MaxDepth \in Nat
      BY ConsensusAssumption DEF ConsensusAssumption
    <3> DEFINE B == [time : Nat, diff : D \cup {x}]
               A == [time : Nat, diff : D]
    <3>5. A \subseteq B /\ [time |-> t, diff |-> x] \in B
      BY <3>4
    <3>6. chain \in Seq(B)
      <4>1. chain \in Seq(A)
        BY <3>3
      <4> HIDE DEF A, B
      <4> QED BY <3>5, <4>1
    <3>7. chain' \in Seq(B) /\ Len(chain') = Len(chain) + 1
      <4> HIDE DEF B
      <4> QED BY <3>1, <3>5, <3>6
    <3>8. \E E : chain' \in Seq([time : Nat, diff : E])
      BY <3>7
    <3>9. Depth' \in 0 .. MaxDepth
      BY <2>1, <3>2, <3>4, <3>7 DEF ChainType, Depth
    <3> QED BY <3>8, <3>9 DEF ChainType
  <2> QED BY <2>1, <2>2, <2>3 DEF ConsensusNext, consensusVars
<1> QED BY <1>1, <1>2, PTL DEF ConsensusSpec

LEMMA TimesNatural ==
    ASSUME ChainType, NEW d \in 0 .. Depth
    PROVE  Time(d) \in Nat
<1>1. PICK D : chain \in Seq([time : Nat, diff : D])
  BY DEF ChainType
<1>2. d + 1 \in 1 .. Len(chain)
  BY <1>1 DEF Depth
<1>3. chain[d + 1] \in [time : Nat, diff : D]
  BY <1>1, <1>2, ElementOfSeq
<1> QED BY <1>3 DEF Time

LEMMA ReferencesReach == ASSUME ChainType PROVE RefsReach
<1>1. SUFFICES ASSUME Depth > 0, NEW d \in 0 .. Depth - 1, NEW now \in Times,
                      resolve_input(d, now), Time(Depth) <= now + Close
               PROVE  LET ago == BlocksAgo(Depth - 1, d, 1)
                      IN block_ancestor(Depth, ago) = d /\ check_ref(Depth, ago)
  BY DEF RefsReach
<1>2. Depth \in Nat /\ now \in Nat /\ Horizon \in Nat /\ Close \in Nat
  BY ConsensusAssumption DEF ChainType, ConsensusAssumption
<1>3. Time(d) \in Nat /\ Time(Depth) \in Nat
  BY <1>1, <1>2, TimesNatural
<1>4. BlocksAgo(Depth - 1, d, 1) = Depth - d
  BY <1>1, <1>2 DEF BlocksAgo
<1>5. block_ancestor(Depth, Depth - d) = d /\ d # NoBlock
  BY <1>1, <1>2 DEF block_ancestor, NoBlock
<1>6. Time(d) + Horizon >= Time(Depth)
  BY <1>1, <1>2, <1>3 DEF resolve_input
<1> QED BY <1>4, <1>5, <1>6 DEF check_ref

-----------------------------------------------------------------------------
(* The blocks visited. *)
IsVisit(at, d) ==
    at = [i \in 0 .. Visits - 1 |->
             IF i = 0 THEN d - 1 ELSE block_ancestor(at[i - 1], 2^(i - 1))]
VisitAt(d) == CHOOSE at : IsVisit(at, d)
VisitEnds(d) == {n \in 0 .. Visits : \A i \in 0 .. n - 1 : VisitAt(d)[i] >= 0}

LEMMA VisitedFrom ==
    ASSUME NEW d
    PROVE  for_each_prev_txhash(d) =
               SubSeq([i \in 1 .. Visits |-> VisitAt(d)[i - 1]], 1, Cardinality(VisitEnds(d)) - 1)
BY DEF for_each_prev_txhash, VisitAt, VisitEnds, IsVisit

(* Powers of two back, and then nothing. *)
LEMMA VisitedAt ==
    ASSUME NEW d \in Nat, d > 0
    PROVE  \A i \in 0 .. Visits - 1 : VisitAt(d)[i] = IF 2^i <= d THEN d - 2^i ELSE -1
<1>0. Visits \in Nat /\ Visits > 0 /\ Visits - 1 \in Nat
  BY ConsensusAssumption DEF ConsensusAssumption
<1>1. IsVisit(VisitAt(d), d)
  <2> DEFINE G == [k \in 1 .. Visits - 1 |-> [x \in Int |-> block_ancestor(x, 2^(k - 1))]]
  <2>1. G \in [1 .. Visits - 1 -> [Int -> Int]]
    <3>1. ASSUME NEW k \in 1 .. Visits - 1, NEW x \in Int PROVE block_ancestor(x, 2^(k - 1)) \in Int
      <4>1. k - 1 \in Nat
        OBVIOUS
      <4>2. 2^(k - 1) \in Nat
        BY <4>1, PowerPositive
      <4> QED BY <4>2 DEF block_ancestor, NoBlock
    <3> QED BY <3>1
  <2>2. PICK f \in [0 .. Visits - 1 -> Int] :
            f[0] = d - 1 /\ \A k \in 1 .. Visits - 1 : f[k] = G[k][f[k - 1]]
    <3>1. d - 1 \in Int /\ StepsIn(G, Visits - 1, Int)
      BY <2>1 DEF StepsIn
    <3>2. \E f : FollowsFrom(f, d - 1, G, Visits - 1, Int)
      <4> HIDE DEF G
      <4> QED BY <1>0, <3>1, RecursionWorks
    <3> QED BY <3>2 DEF FollowsFrom
  <2>3. \A k \in 1 .. Visits - 1 : f[k] = block_ancestor(f[k - 1], 2^(k - 1))
    <3>1. TAKE k \in 1 .. Visits - 1
    <3>2. f[k - 1] \in Int
      BY <1>0, <2>2
    <3> QED BY <2>2, <3>2
  <2> HIDE DEF G
  <2>4. \A i \in 0 .. Visits - 1 :
            f[i] = IF i = 0 THEN d - 1 ELSE block_ancestor(f[i - 1], 2^(i - 1))
    BY <1>0, <2>2, <2>3
  <2>5. IsVisit(f, d)
    <3>1. f = [i \in 0 .. Visits - 1 |-> f[i]]
      BY <2>2
    <3> QED BY <2>4, <3>1 DEF IsVisit
  <2> QED BY <2>5 DEF VisitAt
<1> DEFINE at == VisitAt(d)
           S == {i \in 0 .. Visits - 1 : at[i] = IF 2^i <= d THEN d - 2^i ELSE -1}
<1>2. \A i \in 0 .. Visits - 1 : at[i] = IF i = 0 THEN d - 1 ELSE block_ancestor(at[i - 1], 2^(i - 1))
  BY <1>1 DEF IsVisit
<1> HIDE DEF at
<1>3. 0 \in S
  <2>1. 0 \in 0 .. Visits - 1
    BY <1>0
  <2>2. at[0] = d - 1
    BY <1>2, <2>1
  <2> QED BY <2>1, <2>2, PowerOfZero
<1>4. ASSUME NEW j \in 0 .. (Visits - 1) - 1, j \in S PROVE j + 1 \in S
  <2> DEFINE p == 2^j
  <2>1. j \in Nat /\ j + 1 \in 0 .. Visits - 1 /\ j + 1 # 0 /\ (j + 1) - 1 = j
    BY <1>0
  <2>2. p \in Nat /\ p > 0 /\ 2^(j + 1) = 2 * p
    BY <2>1, PowerPositive, PowerDoubles
  <2>3. at[j] = IF p <= d THEN d - p ELSE -1
    BY <1>4
  <2>4. at[j + 1] = block_ancestor(at[j], p)
    BY <1>2, <2>1
  <2> HIDE DEF p
  <2>5. at[j + 1] = IF 2 * p <= d THEN d - 2 * p ELSE -1
    <3>1. CASE p <= d
      BY <2>2, <2>3, <2>4, <3>1 DEF block_ancestor, NoBlock
    <3>2. CASE ~(p <= d)
      BY <2>2, <2>3, <2>4, <3>2 DEF block_ancestor, NoBlock
    <3> QED BY <3>1, <3>2
  <2> QED BY <2>1, <2>2, <2>5
<1>5. \A i \in 0 .. Visits - 1 : i \in S
  <2> HIDE DEF S
  <2> QED BY <1>0, <1>3, <1>4, UpTo
<1> QED BY <1>5 DEF at

(* for_each_prev_txhash() in a formula. *)
LEMMA Visited ==
    ASSUME NEW d \in Nat, d > 0
    PROVE  LET v == for_each_prev_txhash(d)
           IN  /\ v \in Seq(0 .. d - 1) /\ Len(v) \in 0 .. Visits
               /\ \A k \in 1 .. Len(v) : v[k] = d - 2^(k - 1)
               /\ Len(v) < Visits => d < 2^Len(v)
<1>0. Visits \in Nat /\ Visits > 0
  BY ConsensusAssumption DEF ConsensusAssumption
<1> DEFINE at == VisitAt(d)
           Good == {n \in 0 .. Visits : \A i \in 0 .. n - 1 : at[i] >= 0}
           T == {n \in 0 .. Visits + 1 : n \notin Good}
<1>1. \A i \in 0 .. Visits - 1 : at[i] = IF 2^i <= d THEN d - 2^i ELSE -1
  BY VisitedAt
<1>2. \A i \in 0 .. Visits - 1 : 2^i \in Nat /\ 2^i > 0
  <2>1. TAKE i \in 0 .. Visits - 1
  <2>2. i \in Nat
    BY <1>0
  <2> QED BY <2>2, PowerPositive
<1>3. Good = VisitEnds(d)
  BY DEF VisitEnds
<1> HIDE DEF at
<1>4. PICK m \in T : \A x \in T : m <= x
  <2>1. T \in SUBSET Nat /\ Visits + 1 \in T
    BY <1>0
  <2> HIDE DEF T
  <2> QED BY <2>1, LeastNatural
<1>5. 0 \in Good
  BY <1>0
<1> DEFINE N == m - 1
<1>6. m \in 1 .. Visits + 1 /\ m \notin Good /\ N \in 0 .. Visits
  BY <1>0, <1>4, <1>5
<1>7. N \in Good
  <2>1. N \notin T
    BY <1>4, <1>6
  <2> QED BY <1>0, <1>6, <2>1
<1>8. N < Visits => at[N] < 0
  <2>1. SUFFICES ASSUME N < Visits PROVE at[N] < 0
    OBVIOUS
  <2>2. m \in 0 .. Visits /\ m = N + 1
    BY <1>0, <1>6, <2>1
  <2>3. PICK i \in 0 .. m - 1 : ~(at[i] >= 0)
    BY <1>6, <2>2
  <2>4. ~(i \in 0 .. N - 1)
    BY <1>7, <2>3
  <2>5. i = N
    BY <1>6, <2>2, <2>3, <2>4
  <2>6. at[N] \in Int
    <3>1. N \in 0 .. Visits - 1
      BY <1>0, <1>6, <2>1
    <3>2. 2^N \in Nat /\ at[N] = IF 2^N <= d THEN d - 2^N ELSE -1
      BY <1>1, <1>2, <3>1
    <3> QED BY <3>2
  <2> QED BY <2>3, <2>5, <2>6
<1> HIDE DEF N
<1>9. Good = 0 .. N
  <2>1. ASSUME NEW n \in 0 .. N PROVE n \in Good
    BY <1>0, <1>6, <1>7, <2>1
  <2>2. ASSUME NEW n \in Good, ~(n \in 0 .. N) PROVE FALSE
    <3>1. n \in 0 .. Visits /\ N < n /\ N < Visits /\ N \in 0 .. n - 1
      BY <1>0, <1>6, <2>2
    <3>2. at[N] >= 0
      BY <2>2, <3>1
    <3>3. at[N] \in Int
      <4>1. N \in 0 .. Visits - 1
        BY <1>0, <1>6, <3>1
      <4>2. 2^N \in Nat /\ at[N] = IF 2^N <= d THEN d - 2^N ELSE -1
        BY <1>1, <1>2, <4>1
      <4> QED BY <4>2
    <3> QED BY <1>8, <3>1, <3>2, <3>3
  <2> HIDE DEF Good
  <2> QED BY <2>1, <2>2
<1>10. Cardinality(VisitEnds(d)) - 1 = N
  <2>1. Cardinality(0 .. N) = N + 1
    BY <1>6, FS_Interval
  <2>2. Cardinality(VisitEnds(d)) = N + 1
    <3> HIDE DEF Good
    <3> QED BY <1>3, <1>9, <2>1
  <2> QED BY <1>6, <2>2
<1> DEFINE w == [i \in 1 .. Visits |-> at[i - 1]]
           v == SubSeq(w, 1, N)
<1>11. for_each_prev_txhash(d) = v
  BY <1>10, VisitedFrom DEF at
<1>12. v = [k \in 1 .. N |-> at[k - 1]]
  <2>1. v = [k \in 1 .. N |-> w[k]]
    <3> HIDE DEF w
    <3> QED BY <1>0, <1>6
  <2>2. \A k \in 1 .. N : w[k] = at[k - 1]
    BY <1>0, <1>6
  <2> HIDE DEF v, w
  <2> QED BY <2>1, <2>2
<1>13. \A k \in 1 .. N : at[k - 1] = d - 2^(k - 1) /\ at[k - 1] \in 0 .. d - 1
  <2>1. TAKE k \in 1 .. N
  <2>2. k - 1 \in 0 .. N - 1 /\ k - 1 \in 0 .. Visits - 1
    BY <1>0, <1>6
  <2>3. at[k - 1] >= 0
    BY <1>7, <2>2
  <2>4. at[k - 1] = IF 2^(k - 1) <= d THEN d - 2^(k - 1) ELSE -1
    BY <1>1, <2>2
  <2>5. 2^(k - 1) \in Nat /\ 2^(k - 1) > 0
    BY <1>2, <2>2
  <2> QED BY <2>3, <2>4, <2>5
<1> HIDE DEF v
<1>14. v \in Seq(0 .. d - 1) /\ Len(v) = N
  <2>1. v \in [1 .. N -> 0 .. d - 1]
    BY <1>12, <1>13
  <2> QED BY <1>6, <2>1
<1>15. \A k \in 1 .. N : v[k] = d - 2^(k - 1)
  BY <1>12, <1>13
<1>16. N < Visits => d < 2^N
  <2>1. SUFFICES ASSUME N < Visits PROVE d < 2^N
    OBVIOUS
  <2>2. N \in 0 .. Visits - 1
    BY <1>0, <1>6, <2>1
  <2>3. at[N] = IF 2^N <= d THEN d - 2^N ELSE -1
    BY <1>1, <2>2
  <2>4. 2^N \in Nat
    BY <1>2, <2>2
  <2> QED BY <1>8, <2>1, <2>3, <2>4
<1> QED BY <1>6, <1>11, <1>14, <1>15, <1>16

-----------------------------------------------------------------------------
(* The hash bytes of the blocks visited, one after the other. *)
IsSum(f, v) == f = [k \in 0 .. Len(v) |-> IF k = 0 THEN 0 ELSE f[k - 1] + num_shards(v[k])]
SumOver(v) == CHOOSE f : IsSum(f, v)
IsOff(f, v) ==
    f = [k \in 1 .. Len(v) + 1 |-> IF k = 1 THEN 0 ELSE f[k - 1] + num_shards(v[k - 1])]
OffOver(v) == CHOOSE f : IsOff(f, v)
IsCat(f, v) ==
    f = [k \in 0 .. Len(v) |->
            IF k = 0 THEN <<>>
            ELSE f[k - 1] \o [j \in 1 .. num_shards(v[k]) |-> <<v[k], j>>]]
CatOver(v) == CHOOSE f : IsCat(f, v)

LEMMA BytesFrom ==
    ASSUME NEW d, NEW m, NEW K
    PROVE  LET v == for_each_prev_txhash(d)
           IN  /\ num_prev_txhashes(d) = SumOver(v)[Len(v)]
               /\ make_prev_txhashes(d) = CatOver(v)[Len(v)]
               /\ check_prev_txhashes(d, m, K) <=>
                      \A k \in DOMAIN v : \A j \in 1 .. num_shards(v[k]) :
                          <<v[k], j>> \in K => m[OffOver(v)[k] + j] = <<v[k], j>>
<1>1. num_prev_txhashes(d) = SumOver(for_each_prev_txhash(d))[Len(for_each_prev_txhash(d))]
  BY DEF num_prev_txhashes, SumOver, IsSum
<1>2. make_prev_txhashes(d) = CatOver(for_each_prev_txhash(d))[Len(for_each_prev_txhash(d))]
  BY DEF make_prev_txhashes, CatOver, IsCat
<1>3. check_prev_txhashes(d, m, K) <=>
          \A k \in DOMAIN for_each_prev_txhash(d) :
              \A j \in 1 .. num_shards(for_each_prev_txhash(d)[k]) :
                  <<for_each_prev_txhash(d)[k], j>> \in K =>
                      m[OffOver(for_each_prev_txhash(d))[k] + j]
                          = <<for_each_prev_txhash(d)[k], j>>
  BY DEF check_prev_txhashes, OffOver, IsOff
<1> QED BY <1>1, <1>2, <1>3

(* A block has some number of shards. *)
LEMMA ShardsNatural ==
    ASSUME NEW v \in Seq(0 .. MaxDepth), NEW k \in 1 .. Len(v)
    PROVE  v[k] \in 0 .. MaxDepth /\ num_shards(v[k]) \in Nat
<1>1. v[k] \in 0 .. MaxDepth
  BY ElementOfSeq
<1>2. ShardNums[v[k]] \in Seq(Nat)
  BY <1>1, ConsensusAssumption DEF ConsensusAssumption
<1> QED BY <1>1, <1>2 DEF num_shards

LEMMA SumsAdd ==
    ASSUME NEW v \in Seq(0 .. MaxDepth)
    PROVE  LET sum == SumOver(v)
           IN  /\ \A k \in 0 .. Len(v) : sum[k] \in Nat
               /\ sum[0] = 0
               /\ \A k \in 1 .. Len(v) : sum[k] = sum[k - 1] + num_shards(v[k])
<1> DEFINE N == Len(v)
           n(k) == num_shards(v[k])
<1>0. N \in Nat /\ \A k \in 1 .. N : n(k) \in Nat
  BY ShardsNatural
<1>1. IsSum(SumOver(v), v)
  <2> DEFINE G == [k \in 1 .. N |-> [x \in Nat |-> x + n(k)]]
  <2>1. StepsIn(G, N, Nat)
    <3>1. ASSUME NEW k \in 1 .. N, NEW x \in Nat PROVE x + n(k) \in Nat
      BY <1>0
    <3> QED BY <3>1 DEF StepsIn
  <2>2. PICK f : FollowsFrom(f, 0, G, N, Nat)
    <3> HIDE DEF G, N
    <3> QED BY <1>0, <2>1, RecursionWorks
  <2>3. \A k \in 1 .. N : f[k] = f[k - 1] + n(k)
    <3>1. TAKE k \in 1 .. N
    <3>2. f[k - 1] \in Nat
      <4>1. k - 1 \in 0 .. N
        BY <1>0
      <4> HIDE DEF N
      <4> QED BY <2>2, <4>1 DEF FollowsFrom
    <3>3. f[k] = G[k][f[k - 1]]
      BY <2>2 DEF FollowsFrom
    <3> QED BY <3>2, <3>3
  <2> HIDE DEF G
  <2>4. f = [k \in 0 .. N |-> f[k]] /\ f[0] = 0
    BY <2>2 DEF FollowsFrom
  <2>5. \A k \in 0 .. N : f[k] = IF k = 0 THEN 0 ELSE f[k - 1] + n(k)
    <3>1. TAKE k \in 0 .. N
    <3>2. k = 0 \/ k \in 1 .. N
      BY <1>0
    <3> HIDE DEF N, n
    <3> QED BY <2>3, <2>4, <3>2
  <2>6. f = [k \in 0 .. N |-> IF k = 0 THEN 0 ELSE f[k - 1] + n(k)]
    <3> HIDE DEF N, n
    <3> QED BY <2>4, <2>5
  <2> QED BY <2>6 DEF SumOver, IsSum
<1> DEFINE sum == SumOver(v)
<1>2. \A k \in 0 .. N : sum[k] = IF k = 0 THEN 0 ELSE sum[k - 1] + n(k)
  BY <1>1 DEF IsSum
<1> HIDE DEF sum
<1> DEFINE S == {k \in 0 .. N : sum[k] \in Nat}
<1>3. sum[0] = 0 /\ \A k \in 1 .. N : sum[k] = sum[k - 1] + n(k)
  <2> HIDE DEF N, n
  <2> QED BY <1>0, <1>2
<1>4. 0 \in S
  BY <1>0, <1>3
<1>5. ASSUME NEW j \in 0 .. N - 1, j \in S PROVE j + 1 \in S
  <2>1. j + 1 \in 1 .. N /\ j + 1 \in 0 .. N /\ (j + 1) - 1 = j
    BY <1>0
  <2>2. sum[j + 1] = sum[j] + n(j + 1)
    BY <1>3, <2>1
  <2>3. n(j + 1) \in Nat
    BY <1>0, <2>1
  <2> HIDE DEF n
  <2> QED BY <1>5, <2>1, <2>2, <2>3
<1>6. \A j \in 0 .. N : j \in S
  <2> HIDE DEF S, N
  <2> QED BY <1>0, <1>4, <1>5, UpTo
<1>7. \A k \in 0 .. N : sum[k] \in Nat
  BY <1>6
<1> QED BY <1>3, <1>7 DEF sum

(* check_prev_txhashes() starts a block where make_prev_txhashes() does. *)
LEMMA OffsetsAreSums ==
    ASSUME NEW v \in Seq(0 .. MaxDepth)
    PROVE  \A k \in 1 .. Len(v) : OffOver(v)[k] = SumOver(v)[k - 1]
<1> DEFINE N == Len(v)
           n(k) == num_shards(v[k])
           sum == SumOver(v)
<1>0. N \in Nat
  OBVIOUS
<1>1. sum[0] = 0 /\ \A k \in 1 .. N : sum[k] = sum[k - 1] + n(k)
  BY SumsAdd
<1> HIDE DEF sum
<1>2. IsOff(OffOver(v), v)
  <2> DEFINE f == [k \in 1 .. N + 1 |-> sum[k - 1]]
  <2>1. ASSUME NEW k \in 1 .. N + 1 PROVE f[k] = IF k = 1 THEN 0 ELSE f[k - 1] + n(k - 1)
    <3>1. CASE k = 1
      BY <1>0, <1>1, <3>1
    <3>2. CASE k # 1
      <4>1. k - 1 \in 1 .. N /\ k - 1 \in 1 .. N + 1 /\ k - 1 # 0
        BY <1>0, <3>2
      <4>2. f[k] = sum[k - 1] /\ f[k - 1] = sum[(k - 1) - 1]
        BY <1>0, <4>1
      <4>3. sum[k - 1] = sum[(k - 1) - 1] + n(k - 1)
        BY <1>1, <4>1
      <4> HIDE DEF f, n
      <4> QED BY <3>2, <4>2, <4>3
    <3> QED BY <3>1, <3>2
  <2>2. f = [k \in 1 .. N + 1 |-> f[k]]
    OBVIOUS
  <2> HIDE DEF f
  <2>3. f = [k \in 1 .. N + 1 |-> IF k = 1 THEN 0 ELSE f[k - 1] + n(k - 1)]
    <3> HIDE DEF n, N
    <3> QED BY <2>1, <2>2
  <2> QED BY <2>3 DEF OffOver, IsOff
<1> DEFINE off == OffOver(v)
<1>3. \A k \in 1 .. N + 1 : off[k] = IF k = 1 THEN 0 ELSE off[k - 1] + n(k - 1)
  BY <1>2 DEF IsOff
<1> HIDE DEF off
<1> DEFINE S == {k \in 0 .. N : off[k + 1] = sum[k]}
<1>4. 0 \in S
  <2>1. off[1] = 0
    BY <1>0, <1>3
  <2> QED BY <1>0, <1>1, <2>1
<1>5. ASSUME NEW j \in 0 .. N - 1, j \in S PROVE j + 1 \in S
  <2>1. j + 1 \in 1 .. N /\ j + 1 \in 0 .. N /\ (j + 1) - 1 = j
    BY <1>0
  <2>2. (j + 1) + 1 \in 1 .. N + 1 /\ (j + 1) + 1 # 1 /\ ((j + 1) + 1) - 1 = j + 1
    BY <1>0
  <2>3. off[(j + 1) + 1] = off[j + 1] + n(j + 1)
    BY <1>3, <2>2
  <2>4. sum[j + 1] = sum[j] + n(j + 1)
    BY <1>1, <2>1
  <2> HIDE DEF n
  <2> QED BY <1>5, <2>1, <2>3, <2>4
<1>6. \A j \in 0 .. N : j \in S
  <2> HIDE DEF S, N
  <2> QED BY <1>0, <1>4, <1>5, UpTo
<1>7. ASSUME NEW k \in 1 .. N PROVE off[k] = sum[k - 1]
  <2>1. k - 1 \in 0 .. N /\ (k - 1) + 1 = k
    BY <1>0
  <2> QED BY <1>6, <2>1
<1> QED BY <1>7 DEF off, sum
LEMMA BytesConcatenated ==
    ASSUME NEW v \in Seq(0 .. MaxDepth)
    PROVE  LET cat == CatOver(v)  X == (0 .. MaxDepth) \X Nat
           IN  /\ \A k \in 0 .. Len(v) : cat[k] \in Seq(X)
               /\ cat[0] = <<>>
               /\ \A k \in 1 .. Len(v) :
                      cat[k] = cat[k - 1] \o [j \in 1 .. num_shards(v[k]) |-> <<v[k], j>>]
<1> DEFINE N == Len(v)
           X == (0 .. MaxDepth) \X Nat
           b(k) == [j \in 1 .. num_shards(v[k]) |-> <<v[k], j>>]
<1>0. N \in Nat
  OBVIOUS
<1>1. \A k \in 1 .. N : b(k) \in Seq(X)
  <2>1. TAKE k \in 1 .. N
  <2>2. v[k] \in 0 .. MaxDepth /\ num_shards(v[k]) \in Nat
    BY ShardsNatural
  <2>3. \A j \in 1 .. num_shards(v[k]) : <<v[k], j>> \in X
    BY <2>2
  <2> DEFINE n == num_shards(v[k])  w == v[k]
  <2>4. n \in Nat
    BY <2>2
  <2>5. [j \in 1 .. n |-> <<w, j>>] \in [1 .. n -> X]
    BY <2>3
  <2> HIDE DEF n, w, X
  <2>6. [j \in 1 .. n |-> <<w, j>>] \in Seq(X)
    BY <2>4, <2>5
  <2> QED BY <2>6 DEF n, w
<1> HIDE DEF b, X
<1>2. CatOver(v) = [k \in 0 .. N |-> IF k = 0 THEN <<>> ELSE CatOver(v)[k - 1] \o b(k)]
  <2> DEFINE G == [k \in 1 .. N |-> [x \in Seq(X) |-> x \o b(k)]]
  <2>1. StepsIn(G, N, Seq(X))
    <3>1. ASSUME NEW k \in 1 .. N, NEW x \in Seq(X) PROVE x \o b(k) \in Seq(X)
      <4>1. b(k) \in Seq(X)
        BY <1>1
      <4> QED BY <4>1
    <3> QED BY <3>1 DEF StepsIn
  <2>2. PICK f : FollowsFrom(f, <<>>, G, N, Seq(X))
    <3>1. <<>> \in Seq(X)
      OBVIOUS
    <3> DEFINE V == Seq(X)  e == <<>>
    <3>2. N \in Nat /\ e \in V /\ StepsIn(G, N, V)
      BY <1>0, <2>1, <3>1
    <3>3. \E f : FollowsFrom(f, e, G, N, V)
      <4> HIDE DEF G, N, V, e
      <4> QED BY <3>2, RecursionWorks
    <3> QED BY <3>3
  <2>3. \A k \in 1 .. N : f[k] = f[k - 1] \o b(k)
    <3>1. TAKE k \in 1 .. N
    <3>2. f[k - 1] \in Seq(X)
      <4>1. k - 1 \in 0 .. N
        BY <1>0
      <4> HIDE DEF N
      <4> QED BY <2>2, <4>1 DEF FollowsFrom
    <3>3. f[k] = G[k][f[k - 1]]
      BY <2>2 DEF FollowsFrom
    <3> QED BY <3>2, <3>3
  <2> HIDE DEF G
  <2>4. f = [k \in 0 .. N |-> f[k]] /\ f[0] = <<>>
    BY <2>2 DEF FollowsFrom
  <2>5. \A k \in 0 .. N : f[k] = IF k = 0 THEN <<>> ELSE f[k - 1] \o b(k)
    <3>1. TAKE k \in 0 .. N
    <3>2. k = 0 \/ k \in 1 .. N
      BY <1>0
    <3> HIDE DEF N
    <3> QED BY <2>3, <2>4, <3>2
  <2>6. f = [k \in 0 .. N |-> IF k = 0 THEN <<>> ELSE f[k - 1] \o b(k)]
    <3> HIDE DEF N
    <3> QED BY <2>4, <2>5
  <2>7. IsCat(f, v)
    BY <2>6 DEF IsCat, b
  <2>8. IsCat(CatOver(v), v)
    BY <2>7 DEF CatOver
  <2> QED BY <2>8 DEF IsCat, b
<1> DEFINE cat == CatOver(v)
<1>3. \A k \in 0 .. N : cat[k] = IF k = 0 THEN <<>> ELSE cat[k - 1] \o b(k)
  BY <1>2
<1> HIDE DEF cat
<1> DEFINE S == {k \in 0 .. N : cat[k] \in Seq(X)}
<1>4. cat[0] = <<>> /\ \A k \in 1 .. N : cat[k] = cat[k - 1] \o b(k)
  <2>1. 0 \in 0 .. N
    BY <1>0
  <2>2. \A k \in 1 .. N : k \in 0 .. N /\ k # 0
    BY <1>0
  <2> HIDE DEF N
  <2>3. cat[0] = <<>>
    BY <1>3, <2>1
  <2>4. \A k \in 1 .. N : cat[k] = cat[k - 1] \o b(k)
    BY <1>3, <2>2
  <2> QED BY <2>3, <2>4
<1>5. 0 \in S
  <2>1. 0 \in 0 .. N /\ <<>> \in Seq(X)
    BY <1>0
  <2> HIDE DEF N
  <2> QED BY <2>1, <1>4
<1>6. ASSUME NEW j \in 0 .. N - 1, j \in S PROVE j + 1 \in S
  <2>1. j + 1 \in 1 .. N /\ j + 1 \in 0 .. N /\ (j + 1) - 1 = j
    BY <1>0
  <2>2. cat[j + 1] = cat[j] \o b(j + 1)
    BY <1>4, <2>1
  <2>3. b(j + 1) \in Seq(X) /\ cat[j] \in Seq(X)
    BY <1>1, <1>6, <2>1
  <2>4. cat[j] \o b(j + 1) \in Seq(X)
    BY <2>3, ConcatProperties
  <2>5. cat[j + 1] \in Seq(X)
    BY <2>2, <2>4
  <2> HIDE DEF N
  <2> QED BY <2>1, <2>5
<1>7. \A j \in 0 .. N : j \in S
  <2> HIDE DEF S, N
  <2> QED BY <1>0, <1>5, <1>6, UpTo
<1>8. \A k \in 0 .. N : cat[k] \in Seq(X)
  BY <1>7
<1> QED BY <1>4, <1>8 DEF cat, b, X

(* Where the bytes of each block are, and that there are no others. *)
BytesPlaced(v, n) ==
    LET cat == CatOver(v)[n]  sum == SumOver(v)
    IN  /\ Len(cat) = sum[n]
        /\ \A k \in 1 .. n : \A j \in 1 .. num_shards(v[k]) :
               /\ sum[k - 1] + j \in 1 .. sum[n]
               /\ cat[sum[k - 1] + j] = <<v[k], j>>
        /\ \A p \in 1 .. sum[n] :
               \E k \in 1 .. n : \E j \in 1 .. num_shards(v[k]) : p = sum[k - 1] + j

LEMMA BytesArePlaced ==
    ASSUME NEW v \in Seq(0 .. MaxDepth)
    PROVE  BytesPlaced(v, Len(v))
<1> DEFINE N == Len(v)
           X == (0 .. MaxDepth) \X Nat
           n(k) == num_shards(v[k])
           sum == SumOver(v)
           cat == CatOver(v)
           S == {k \in 0 .. N : BytesPlaced(v, k)}
<1>0. N \in Nat /\ \A k \in 1 .. N : n(k) \in Nat
  BY ShardsNatural
<1>1. /\ sum[0] = 0 /\ \A k \in 0 .. N : sum[k] \in Nat
      /\ \A k \in 1 .. N : sum[k] = sum[k - 1] + n(k)
  BY SumsAdd
<1>2. /\ cat[0] = <<>> /\ \A k \in 0 .. N : cat[k] \in Seq(X)
      /\ \A k \in 1 .. N : cat[k] = cat[k - 1] \o [j \in 1 .. n(k) |-> <<v[k], j>>]
  BY BytesConcatenated
<1>3. 0 \in S
  <2>1. Len(cat[0]) = 0 /\ 1 .. sum[0] = {}
    BY <1>1, <1>2
  <2>2. BytesPlaced(v, 0)
    BY <1>1, <2>1 DEF BytesPlaced
  <2> QED BY <1>0, <2>2
<1>4. ASSUME NEW i \in 0 .. N - 1, i \in S PROVE i + 1 \in S
  <2> DEFINE k == i + 1
             s == sum[i]
             l == n(k)
             b == [j \in 1 .. l |-> <<v[k], j>>]
  <2>1. k \in 1 .. N /\ k \in 0 .. N /\ k - 1 = i /\ i \in 0 .. N /\ i \in Nat
    BY <1>0
  <2>2. s \in Nat /\ l \in Nat /\ sum[k] = s + l
    BY <1>0, <1>1, <2>1
  <2>3. cat[k] = cat[i] \o b /\ cat[i] \in Seq(X)
    BY <1>2, <2>1
  <2>4. b \in Seq(X) /\ Len(b) = l /\ \A j \in 1 .. l : b[j] = <<v[k], j>>
    <3>1. v[k] \in 0 .. MaxDepth
      BY <2>1, ShardsNatural
    <3>2. \A j \in 1 .. l : <<v[k], j>> \in X
      BY <2>2, <3>1
    <3> DEFINE w == v[k]
    <3>3. b \in [1 .. l -> X]
      BY <3>2
    <3> HIDE DEF X, l, w
    <3> QED BY <2>2, <3>3
  <2>5. /\ Len(cat[i]) = s
        /\ \A q \in 1 .. i : \A j \in 1 .. n(q) :
               /\ sum[q - 1] + j \in 1 .. s
               /\ cat[i][sum[q - 1] + j] = <<v[q], j>>
        /\ \A p \in 1 .. s :
               \E q \in 1 .. i : \E j \in 1 .. n(q) : p = sum[q - 1] + j
    BY <1>4 DEF BytesPlaced
  <2> HIDE DEF n, sum, cat, X, s, l, b
  <2>6. /\ Len(cat[k]) = s + l
        /\ \A p \in 1 .. s : cat[k][p] = cat[i][p]
        /\ \A j \in 1 .. l : cat[k][s + j] = <<v[k], j>>
    <3>1. /\ Len(cat[i] \o b) = Len(cat[i]) + Len(b)
          /\ \A p \in 1 .. Len(cat[i]) + Len(b) :
                 (cat[i] \o b)[p] = IF p <= Len(cat[i]) THEN cat[i][p] ELSE b[p - Len(cat[i])]
      BY <2>3, <2>4, ConcatProperties
    <3>2. /\ Len(cat[k]) = s + l
          /\ \A p \in 1 .. s + l : cat[k][p] = IF p <= s THEN cat[i][p] ELSE b[p - s]
      <4> HIDE DEF k
      <4> QED BY <3>1, <2>3, <2>4, <2>5
    <3>3. ASSUME NEW p \in 1 .. s PROVE cat[k][p] = cat[i][p]
      <4>1. p \in 1 .. s + l /\ p <= s
        BY <2>2
      <4> HIDE DEF k
      <4> QED BY <3>2, <4>1
    <3>4. ASSUME NEW j \in 1 .. l PROVE cat[k][s + j] = <<v[k], j>>
      <4>1. s + j \in 1 .. s + l /\ ~(s + j <= s) /\ (s + j) - s = j
        BY <2>2
      <4>2. cat[k][s + j] = b[(s + j) - s]
        BY <3>2, <4>1
      <4> QED BY <2>4, <4>1, <4>2
    <3> QED BY <3>2, <3>3, <3>4
  <2>7. ASSUME NEW q \in 1 .. k, NEW j \in 1 .. n(q)
        PROVE  sum[q - 1] + j \in 1 .. s + l /\ cat[k][sum[q - 1] + j] = <<v[q], j>>
    <3>1. CASE q = k
      <4>1. sum[q - 1] = s /\ n(q) = l
        BY <2>1, <3>1 DEF s, l
      <4>2. j \in 1 .. l
        BY <4>1
      <4> QED BY <2>2, <2>6, <3>1, <4>1, <4>2
    <3>2. CASE q # k
      <4>1. q \in 1 .. i
        BY <2>1, <3>2
      <4>2. sum[q - 1] + j \in 1 .. s /\ cat[i][sum[q - 1] + j] = <<v[q], j>>
        BY <2>5, <4>1
      <4>3. sum[q - 1] + j \in 1 .. s + l
        BY <2>2, <4>2
      <4> QED BY <2>6, <4>2, <4>3
    <3> QED BY <3>1, <3>2
  <2>8. ASSUME NEW p \in 1 .. s + l
        PROVE  \E q \in 1 .. k : \E j \in 1 .. n(q) : p = sum[q - 1] + j
    <3>1. CASE p <= s
      <4>1. p \in 1 .. s
        BY <2>2, <3>1
      <4>2. PICK q \in 1 .. i : \E j \in 1 .. n(q) : p = sum[q - 1] + j
        BY <2>5, <4>1
      <4>3. q \in 1 .. k
        BY <2>1
      <4> QED BY <4>2, <4>3
    <3>2. CASE ~(p <= s)
      <4>1. p - s \in 1 .. l /\ p = s + (p - s)
        BY <2>2, <3>2
      <4>2. k \in 1 .. k /\ sum[k - 1] = s /\ n(k) = l
        BY <2>1 DEF s, l
      <4> HIDE DEF k
      <4> QED BY <4>1, <4>2
    <3> QED BY <3>1, <3>2
  <2>9. BytesPlaced(v, k)
    <3>1. sum[k] = s + l
      BY <2>2
    <3> HIDE DEF k
    <3>2. /\ Len(cat[k]) = sum[k]
          /\ \A q \in 1 .. k : \A j \in 1 .. n(q) :
               /\ sum[q - 1] + j \in 1 .. sum[k]
               /\ cat[k][sum[q - 1] + j] = <<v[q], j>>
          /\ \A p \in 1 .. sum[k] :
               \E q \in 1 .. k : \E j \in 1 .. n(q) : p = sum[q - 1] + j
      BY <2>6, <2>7, <2>8, <3>1
    <3> QED BY <3>2 DEF BytesPlaced, n, sum, cat
  <2> QED BY <2>1, <2>9
<1>5. \A j \in 0 .. N : j \in S
  <2> HIDE DEF S, N
  <2> QED BY <1>0, <1>3, <1>4, UpTo
<1>6. N \in 0 .. N
  BY <1>0
<1> QED BY <1>5, <1>6

LEMMA PrevHashesRight == ASSUME ChainType PROVE PrevHashesChecked
<1>0. Depth \in Nat /\ MaxDepth \in Nat /\ Depth <= MaxDepth
  BY ConsensusAssumption DEF ChainType, ConsensusAssumption
<1>1. SUFFICES ASSUME NEW d \in 1 .. Depth
               PROVE LET v == for_each_prev_txhash(d)
                         m == make_prev_txhashes(d)
                         All == {m[k] : k \in DOMAIN m}
                     IN /\ \A k \in DOMAIN v : v[k] = d - (IF k = 1 THEN 1 ELSE 2^(k - 1))
                        /\ Len(v) < Visits => d < 2^Len(v)
                        /\ Len(m) = num_prev_txhashes(d)
                        /\ check_prev_txhashes(d, m, All)
                        /\ \A k \in DOMAIN m :
                               ~check_prev_txhashes(d, [m EXCEPT ![k] = <<>>], {m[k]})
  BY DEF PrevHashesChecked
<1> DEFINE v == for_each_prev_txhash(d)
           m == make_prev_txhashes(d)
           N == Len(v)
           n(k) == num_shards(v[k])
           sum == SumOver(v)
           off == OffOver(v)
           All == {m[k] : k \in DOMAIN m}
<1>2. d \in Nat /\ d > 0 /\ 0 .. d - 1 \subseteq 0 .. MaxDepth
  BY <1>0
<1>3. /\ v \in Seq(0 .. d - 1) /\ N \in Nat
      /\ \A k \in 1 .. N : v[k] = d - 2^(k - 1)
      /\ N < Visits => d < 2^N
  BY <1>2, Visited
<1>4. v \in Seq(0 .. MaxDepth) /\ DOMAIN v = 1 .. N
  <2> DEFINE A == 0 .. d - 1  B == 0 .. MaxDepth
  <2>1. A \subseteq B /\ v \in Seq(A)
    BY <1>2, <1>3
  <2>2. v \in Seq(B)
    <3> HIDE DEF A, B, v
    <3> QED BY <2>1
  <2>3. DOMAIN v = 1 .. N
    <3> HIDE DEF v
    <3> QED BY <1>3
  <2> QED BY <2>2, <2>3
<1>5. /\ num_prev_txhashes(d) = sum[N]
      /\ m = CatOver(v)[N]
      /\ \A M, K : check_prev_txhashes(d, M, K) <=>
             \A k \in DOMAIN v : \A j \in 1 .. n(k) :
                 <<v[k], j>> \in K => M[off[k] + j] = <<v[k], j>>
  BY BytesFrom
<1> HIDE DEF v, m
<1>6. \A k \in 1 .. N : off[k] = sum[k - 1]
  BY <1>4, OffsetsAreSums
<1>7. sum[N] \in Nat
  <2>1. N \in 0 .. N
    BY <1>3
  <2> QED BY <1>4, <2>1, SumsAdd
<1>8. m \in Seq((0 .. MaxDepth) \X Nat)
  <2>1. N \in 0 .. N
    BY <1>3
  <2> QED BY <1>4, <1>5, <2>1, BytesConcatenated
<1>9. BytesPlaced(v, N)
  BY <1>4, BytesArePlaced
<1> HIDE DEF sum, off, n, N
<1>10. /\ Len(m) = sum[N]
       /\ \A k \in 1 .. N : \A j \in 1 .. n(k) :
              sum[k - 1] + j \in 1 .. sum[N] /\ m[sum[k - 1] + j] = <<v[k], j>>
       /\ \A p \in 1 .. sum[N] : \E k \in 1 .. N : \E j \in 1 .. n(k) : p = sum[k - 1] + j
  BY <1>5, <1>9 DEF BytesPlaced, sum, n
<1>11. DOMAIN m = 1 .. sum[N]
  BY <1>8, <1>10
<1>12. \A k \in DOMAIN v : v[k] = d - (IF k = 1 THEN 1 ELSE 2^(k - 1))
  <2>1. 2^(1 - 1) = 1
    BY PowerOfZero
  <2>2. TAKE k \in DOMAIN v
  <2>3. v[k] = d - 2^(k - 1)
    BY <1>3, <1>4 DEF N
  <2> QED BY <2>1, <2>3
<1>13. check_prev_txhashes(d, m, All)
  <2>1. ASSUME NEW k \in DOMAIN v, NEW j \in 1 .. n(k) PROVE m[off[k] + j] = <<v[k], j>>
    <3>1. k \in 1 .. N
      BY <1>4
    <3> QED BY <3>1, <1>6, <1>10
  <2> HIDE DEF All
  <2> QED BY <1>5, <2>1
<1>14. ASSUME NEW p \in DOMAIN m
       PROVE  ~check_prev_txhashes(d, [m EXCEPT ![p] = <<>>], {m[p]})
  <2>1. PICK k \in 1 .. N : \E j \in 1 .. n(k) : p = sum[k - 1] + j
    BY <1>10, <1>11, <1>14
  <2>2. PICK j \in 1 .. n(k) : p = sum[k - 1] + j
    BY <2>1
  <2>3. m[p] = <<v[k], j>> /\ off[k] + j = p /\ k \in DOMAIN v
    BY <1>4, <1>6, <1>10, <2>1, <2>2
  <2> DEFINE M == [m EXCEPT ![p] = <<>>]
  <2>4. M[p] = <<>>
    BY <1>14
  <2>5. <<>> # <<v[k], j>>
    OBVIOUS
  <2>6. <<v[k], j>> \in {m[p]}
    BY <2>3
  <2> HIDE DEF M
  <2>7. ASSUME check_prev_txhashes(d, M, {m[p]}) PROVE FALSE
    <3>1. M[off[k] + j] = <<v[k], j>>
      BY <1>5, <2>2, <2>3, <2>6, <2>7
    <3> QED BY <2>3, <2>4, <2>5, <3>1
  <2> QED BY <2>7 DEF M
<1>15. (N < Visits => d < 2^N) /\ Len(m) = num_prev_txhashes(d)
  BY <1>3, <1>5, <1>10 DEF N
<1> QED BY <1>12, <1>13, <1>14, <1>15 DEF v, m, N

(* Whatever a block says of earlier ones leads to the block meant: a       *)
(* reference of create_refs() passes check_ref(), and of the bytes of      *)
(* make_prev_txhashes() every one is checked against the shard it stands   *)
(* for by whoever knows that shard.                                        *)
THEOREM HistoryCorrect == ConsensusSpec => []HistoryReached
<1>1. ChainType => HistoryReached
  BY ReferencesReach, PrevHashesRight DEF HistoryReached
<1> QED BY <1>1, ChainTypeInvariant, PTL
=============================================================================
