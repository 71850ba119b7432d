---------------------------- MODULE MCGenerator ----------------------------
EXTENDS Generator, TLC

(* Transactions take turns over the shards. *)
MCShardOf == [t \in Txs |-> (t % NumShards) + 1]

(* Which block is the head makes no difference to any step. *)
MCSymmetry == Permutations(Heads)
====
