------------------------------- MODULE Shard -------------------------------
(***************************************************************************)
(* What a node knows of one shard of one block: block_shard.c, proof.c,    *)
(* the put_*_in_shard() functions of check_block.c and the packets that    *)
(* call them (recv_tx.c, recv_block.c, peer.c).                            *)
(*                                                                         *)
(* The header commits to a sequence of transactions (the merkle root).  A  *)
(* packet about a slot carries a proof or the whole list of hashes; one    *)
(* that fails the proof or the merkle root is refused and changes nothing, *)
(* so what is stored in slot i can only be leaves[i].  A transaction is a  *)
(* number; tx_cmp() is the order of numbers.                               *)
(*                                                                         *)
(* recv_shard() stores the hashes and then tries to resolve them one after *)
(* the other; `resolving' holds the slots it still has to visit.  Nothing  *)
(* else runs meanwhile.                                                    *)
(***************************************************************************)
EXTENDS Integers, Sequences, FiniteSets

CONSTANTS
    MaxSize,   \* bound: slots of a shard (shard_nums is a byte)
    ShardTxs,  \* the transactions, ordered as tx_cmp() orders them
    BadTxs     \* those with an input that check_tx_inputs_and_refs() refuses

ShardAssumption ==
    /\ MaxSize \in Nat \ {0}
    /\ ShardTxs \subseteq Nat
    /\ BadTxs \subseteq ShardTxs

VARIABLES
    leaves,     \* what the header commits to; <<>> before the block arrives
    slot,       \* what is stored in each slot: "null", "hash" or "tx"
    txcount,    \* shard->txcount
    hashcount,  \* shard->hashcount
    proof,      \* slots shard->proof has a proof for; {} when it is NULL
    blamed,     \* the block has a complaint
    elsewhere,  \* transactions txhash gives, with refs for this block
    resolving,  \* slots recv_shard() has still to visit
    aborted     \* check_block_shard() has failed

shardVars == <<leaves, slot, txcount, hashcount, proof, blamed, elsewhere,
               resolving, aborted>>

Slots == DOMAIN leaves
Known == {i \in Slots : slot[i] = "tx"}

ShardInit ==
    /\ leaves = <<>> /\ slot = <<>>
    /\ txcount = 0 /\ hashcount = 0
    /\ proof = {}
    /\ blamed = FALSE
    /\ elsewhere = {}
    /\ resolving = {}
    /\ aborted = FALSE

shard_all_hashes(txs, hashes) == txs + hashes = Len(leaves)

(* The assertions of check_block_shard() on the proofs, for the values a   *)
(* handler leaves behind.                                                  *)
check_block_shard(s, txs, hashes, p) ==
    /\ IF shard_all_hashes(txs, hashes) THEN p = {}
       ELSE txs # 0 => p # {}
    /\ p # {} => \A i \in Slots : s[i] = "tx" => i \in p

(* create_proof() has a canned proof to return, or can make one. *)
proof_available(i) ==
    \/ i \in proof
    \/ shard_all_hashes(txcount, hashcount)

(* The nearest known transaction on each side is in order with slot i's. *)
check_tx_ordering(i) ==
    /\ \A j \in Known : (j < i /\ \A k \in Known : k <= j \/ k >= i) => leaves[j] < leaves[i]
    /\ \A j \in Known : (j > i /\ \A k \in Known : k >= j \/ k <= i) => leaves[i] < leaves[j]

(* put_proof_in_shard(): nothing is kept once every hash is known. *)
put_proof_in_shard(i) ==
    IF shard_all_hashes(txcount, hashcount) THEN proof ELSE proof \cup {i}

(* Mutant: a hash that becomes a transaction is still counted. *)
MutHashesLeft(i) == hashcount

HashesLeft(i) == IF slot[i] = "hash" THEN hashcount - 1 ELSE hashcount

(* put_tx_in_shard() for slot i, with the proofs p it finds.  The call of  *)
(* check_resolved_txs() may find that a transaction it resolves an input   *)
(* of is bad: the action recheck_tx.                                       *)
put_tx_in_shard(i, p) ==
    IF slot[i] = "tx"
    THEN /\ proof' = p
         /\ UNCHANGED <<slot, txcount, hashcount, aborted>>
    ELSE /\ slot' = [slot EXCEPT ![i] = "tx"]
         /\ txcount' = txcount + 1
         /\ hashcount' = HashesLeft(i)
         /\ proof' = IF shard_all_hashes(txcount', hashcount') THEN {} ELSE p
         /\ aborted' = ~check_block_shard(slot', txcount', hashcount', proof')

(* The transaction of slot i is at hand: it is stored, or the block gets a *)
(* complaint because it is out of order.                                   *)
StoreOrComplain(i, p) ==
    IF check_tx_ordering(i)
    THEN put_tx_in_shard(i, p) /\ UNCHANGED blamed
    ELSE /\ blamed' = TRUE
         /\ UNCHANGED <<slot, txcount, hashcount, proof, aborted>>

-----------------------------------------------------------------------------
(* The block arrives; its header commits to s. *)
new_block_shard(s) ==
    /\ leaves = <<>>
    /\ leaves' = s
    /\ slot' = [i \in DOMAIN s |-> "null"]
    /\ UNCHANGED <<txcount, hashcount, proof, blamed, elsewhere, resolving, aborted>>

(* A transaction arrives with its proof: from a peer (recv_tx_from_peer()) *)
(* or from the block file.  check_tx_inputs_and_refs() may know enough to  *)
(* refuse a bad one.                                                       *)
recv_tx(i) ==
    /\ \/ StoreOrComplain(i, put_proof_in_shard(i))
       \/ /\ leaves[i] \in BadTxs
          /\ blamed' = TRUE
          /\ UNCHANGED <<slot, txcount, hashcount, proof, aborted>>
    /\ UNCHANGED <<leaves, elsewhere, resolving>>

(* put_txhash_in_shard() for the slots I, which held nothing. *)
put_txhash_in_shard(I) ==
    /\ slot' = [i \in Slots |-> IF i \in I THEN "hash" ELSE slot[i]]
    /\ hashcount' = hashcount + Cardinality(I)
    /\ aborted' = ~check_block_shard(slot', txcount, hashcount', proof)
    /\ UNCHANGED txcount

(* HASHES_IN_BLOCK: one hash with its proof.  The slot is then visited as  *)
(* recv_shard() visits all of them.                                        *)
recv_hashes_in_block(i) ==
    /\ slot[i] = "null"
    /\ put_txhash_in_shard({i})
    /\ proof' = IF aborted' \/ shard_all_hashes(txcount, hashcount') THEN proof ELSE proof \cup {i}
    /\ resolving' = {i}
    /\ UNCHANGED <<leaves, blamed, elsewhere>>

(* SHARD: the hashes of all slots.  A block with a complaint is left. *)
recv_shard ==
    LET I == {i \in Slots : slot[i] = "null"}
    IN  /\ ~blamed /\ leaves # <<>>
        /\ IF I = {} THEN UNCHANGED <<slot, txcount, hashcount, aborted>>
                     ELSE put_txhash_in_shard(I)
        /\ resolving' = {i \in Slots : slot'[i] = "hash"}
        /\ UNCHANGED <<leaves, proof, blamed, elsewhere>>

(* One iteration of try_resolve_hashes(): the loop ends with a complaint.  *)
(* find_tx_with_ref() finds a transaction whose references hash to what    *)
(* the block says, or none.                                                *)
try_resolve_hash(i) ==
    /\ \A j \in resolving : i <= j
    /\ \/ /\ leaves[i] \in elsewhere \cup {leaves[k] : k \in Known}
          /\ StoreOrComplain(i, proof)
       \/ UNCHANGED <<slot, txcount, hashcount, proof, blamed, aborted>>
    /\ resolving' = IF blamed' THEN {} ELSE resolving \ {i}
    /\ UNCHANGED <<leaves, elsewhere>>

(* A transaction is heard of on its own (recv_tx() of peer.c): it may      *)
(* resolve hashes.  One first seen in another block resolves none.         *)
LearnTx(t) ==
    /\ t \notin elsewhere
    /\ elsewhere' = elsewhere \cup {t}
    /\ \E I \in {{}, {i \in Slots : slot[i] = "hash" /\ leaves[i] = t}} : resolving' = I
    /\ UNCHANGED <<leaves, slot, txcount, hashcount, proof, blamed, aborted>>

(* An input of a stored transaction turns up and the recheck refuses it,   *)
(* or a peer's complaint about it is upheld.                               *)
recheck_tx ==
    /\ ~blamed
    /\ \E i \in Known : leaves[i] \in BadTxs /\ proof_available(i)
    /\ blamed' = TRUE
    /\ UNCHANGED <<leaves, slot, txcount, hashcount, proof, elsewhere, resolving, aborted>>

ShardNext ==
    /\ ~aborted
    /\ \/ /\ resolving = {}
          /\ \/ \E k \in 1..MaxSize : \E s \in [1..k -> ShardTxs] : new_block_shard(s)
             \/ \E i \in Slots : recv_tx(i)
             \/ \E i \in Slots : recv_hashes_in_block(i)
             \/ recv_shard
             \/ \E t \in ShardTxs : LearnTx(t)
             \/ recheck_tx
       \/ \E i \in resolving : try_resolve_hash(i)

ShardSpec == ShardInit /\ [][ShardNext]_shardVars

-----------------------------------------------------------------------------
(* Properties *)

(* However the transactions arrive, the ones stored in a shard are in      *)
(* order: comparing with the nearest known neighbours is enough.           *)
KnownInOrder == \A i, j \in Known : i < j => leaves[i] < leaves[j]

(* A block gets a complaint only if what its header commits to is wrong.   *)
NoFalseMisorder ==
    blamed => \/ \E i, j \in Slots : i < j /\ leaves[i] >= leaves[j]
              \/ \E i \in Slots : leaves[i] \in BadTxs

(* The counters agree with the slots, and create_proof() never fails for a *)
(* stored transaction: "We only should get rid of shard->proofs once we    *)
(* can make our own" (proof.c).  What is stored is in order, and what is   *)
(* refused as out of order is.                                             *)
ShardAccounts ==
    /\ txcount = Cardinality(Known)
    /\ hashcount = Cardinality({i \in Slots : slot[i] = "hash"})
    /\ ~aborted => \A i \in Known : proof_available(i)
    /\ KnownInOrder /\ NoFalseMisorder
=============================================================================
