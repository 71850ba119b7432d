------------------------------- MODULE Proof -------------------------------
(***************************************************************************)
(* The merkle tree of a shard and the proofs that a transaction is in it:  *)
(* merkle_recurse.c, merkle_txs.c, merkle_hashes.c and proof.c.            *)
(*                                                                         *)
(* A hash is the tuple of what was hashed, so that two hashes are equal    *)
(* only if their inputs are.  A tree has 2^Levels leaves (256).            *)
(***************************************************************************)
EXTENDS Naturals, Sequences

CONSTANTS
    Levels,   \* levels of the tree: 8
    LeafTxs   \* transactions

ProofAssumption == Levels \in Nat

VARIABLE shard   \* the transactions of the shard, in order

zero == <<>>
txhash(t) == <<t>>
refhash(t) == <<t, t, t>>  \* of the references, which belong to a transaction

merkle_two_hashes(a, b) == <<a, b>>

(* The hash of leaf n, from 0. *)
merkle_tx(s, n) == merkle_two_hashes(txhash(s[n + 1]), refhash(s[n + 1]))

(* merkle_recurse() of 2^level leaves from off. *)
merkle_recurse(s, off, level) ==
    LET m[k \in 0 .. level] ==
            [o \in Nat |->
                IF k = 0 THEN (IF o >= Len(s) THEN zero ELSE merkle_tx(s, o))
                ELSE merkle_two_hashes(m[k - 1][o], m[k - 1][o + 2^(k - 1)])]
    IN m[level][off]

merkle_some_txs(s, off, level) == merkle_recurse(s, off, level)
merkle_txs(s) == merkle_some_txs(s, 0, Levels)

Bit(n, i) == (n \div 2^i) % 2

(* create_proof(), when there is no canned one. *)
create_proof(s, txoff) ==
    [i \in 0 .. Levels - 1 |->
        IF Bit(txoff, i) = 1 THEN merkle_some_txs(s, 0, i)
        ELSE merkle_some_txs(s, 2^i, i)]

(* Mutant: the sibling is always put on the right. *)
MutMerklesTo(pair, txoff, merkles) ==
    LET up[i \in 0 .. Levels] ==
            IF i = 0 THEN merkle_two_hashes(pair[1], pair[2])
            ELSE merkle_two_hashes(up[i - 1], merkles[i - 1])
    IN up[Levels]

(* "What does proof say the merkle should be?" *)
proof_merkles_to(pair, txoff, merkles) ==
    LET up[i \in 0 .. Levels] ==
            IF i = 0 THEN merkle_two_hashes(pair[1], pair[2])
            ELSE IF Bit(txoff, i - 1) = 1
                 THEN merkle_two_hashes(merkles[i - 1], up[i - 1])
                 ELSE merkle_two_hashes(up[i - 1], merkles[i - 1])
    IN up[Levels]

(* check_proof_byhash() against the header of a block with this shard. *)
check_proof_byhash(s, txoff, merkles, pair) ==
    /\ txoff < Len(s)
    /\ proof_merkles_to(pair, txoff, merkles) = merkle_txs(s)

check_proof(s, txoff, merkles, t) ==
    check_proof_byhash(s, txoff, merkles, <<txhash(t), refhash(t)>>)

ProofInit == shard = <<>>
ProofNext ==
    /\ Len(shard) < 2^Levels
    /\ \E t \in LeafTxs : shard' = Append(shard, t)
ProofSpec == ProofInit /\ [][ProofNext]_shard

-----------------------------------------------------------------------------
(* Properties *)

(* The hashes that anybody who knows the shard can compute. *)
Hashes ==
    {txhash(t) : t \in LeafTxs} \cup {refhash(t) : t \in LeafTxs}
    \cup UNION {{merkle_some_txs(shard, o * 2^k, k) : o \in 0 .. 2^(Levels - k) - 1} :
                k \in 0 .. Levels}

(* A proof is accepted only for the transaction in the slot it names, even *)
(* if its hashes, or the hashes it is about, are those of other nodes of   *)
(* the tree; and for every transaction there is one that is.               *)
ProofsSound == shard # <<>> =>
    \A txoff \in 0 .. 2^Levels - 1 :
        /\ \A merkles \in [0 .. Levels - 1 -> Hashes], a, b \in Hashes :
              check_proof_byhash(shard, txoff, merkles, <<a, b>>) =>
                  <<a, b>> = <<txhash(shard[txoff + 1]), refhash(shard[txoff + 1])>>
        /\ txoff < Len(shard) =>
              \E merkles \in [0 .. Levels - 1 -> Hashes] :
                  check_proof(shard, txoff, merkles, shard[txoff + 1])

(* "Check it proves correctly": what create_proof() makes for a stored     *)
(* transaction passes check_proof().                                       *)
ProofsMade ==
    \A txoff \in 0 .. Len(shard) - 1 :
        check_proof(shard, txoff, create_proof(shard, txoff), shard[txoff + 1])
=============================================================================
