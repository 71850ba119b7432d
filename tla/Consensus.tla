----------------------------- MODULE Consensus -----------------------------
(***************************************************************************)
(* The rules that depend on a block's place in its chain: timestamps       *)
(* (timestamp.c), difficulty and work (difficulty.c), references to inputs *)
(* (create_refs.c, input_refs.c), the hashes of earlier blocks             *)
(* (prev_txhashes.c) and which transaction decides a reward (reward.c).    *)
(*                                                                         *)
(* One chain, to which check_block_header() lets anybody add a block with  *)
(* any timestamp it accepts.  Chains elsewhere in the tree are other       *)
(* behaviours.  A number of `bytes' is a number of digits to base Base.    *)
(***************************************************************************)
EXTENDS Integers, Sequences, FiniteSets

CONSTANTS
    Window,      \* blocks whose median a timestamp must exceed: 11
    Interval,    \* PROTOCOL_DIFFICULTY_UPDATE_BLOCKS: 2016
    IdealTime,   \* how long Interval blocks should take
    Base,        \* 256
    Easier,      \* difficulty_one_sixteenth(): 16, the root of Base
    GenesisDifficulty,  \* <<exponent, mantissa>>
    Horizon,     \* PROTOCOL_TX_HORIZON_SECS
    Close,       \* CLOSE_TO_HORIZON
    Visits,      \* PROTOCOL_PREV_BLOCK_TXHASHES
    RewardPeriod,\* PROTOCOL_REWARD_PERIOD
    ShardNums,   \* ShardNums[d]: transactions in each shard of block d
    Times,       \* bound: timestamps less than two hours from now
    MaxDepth     \* bound: the depth of the chain

ASSUME ConsensusAssumption ==
    /\ {Window, Interval, IdealTime, Visits, RewardPeriod} \subseteq Nat \ {0}
    /\ {Horizon, Close, MaxDepth} \subseteq Nat /\ Times \subseteq Nat
    /\ Easier \in Nat \ {0, 1} /\ Base = Easier * Easier
    /\ ShardNums \in [0 .. MaxDepth -> Seq(Nat)]

VARIABLES
    chain,  \* chain[d + 1]: timestamp and difficulty of the block of depth d
    ended   \* the process has ended: "", "assert" or "errx"

consensusVars == <<chain, ended>>

Depth == Len(chain) - 1
Time(d) == chain[d + 1].time
Difficulty(d) == chain[d + 1].diff
NoBlock == -1

(* block_ancestor(); the argument is unsigned. *)
block_ancestor(d, n) == IF n < 0 \/ n > d THEN NoBlock ELSE d - n

-----------------------------------------------------------------------------
(* timestamp.c *)

LastOf(d) == {k \in 1 .. d : k > d - Window}

(* Element n, from 0, of the times of the blocks S in order. *)
Sorted(S, n) ==
    LET Below(k) == Cardinality({j \in S : Time(j) < Time(k)})
        Equal(k) == Cardinality({j \in S : Time(j) = Time(k)})
    IN Time(CHOOSE k \in S : Below(k) <= n /\ n < Below(k) + Equal(k))

(* The time that the block after the one of depth d must exceed.  The      *)
(* timestamp of genesis does not count.                                    *)
Median(d) == Sorted(LastOf(d), Cardinality(LastOf(d)) \div 2)

check_timestamp(t, d) == LastOf(d) # {} => t > Median(d)

-----------------------------------------------------------------------------
(* difficulty.c *)

decode_difficulty(x) == x[2] * Base^(x[1] - 3)

ByteCount(n) == CHOOSE e \in 1 .. 20 : Base^(e - 1) <= n /\ n < Base^e
Tiny(n) == n < Base^3
Mantissa(n) == n \div Base^(ByteCount(n) - 3)
encode_difficulty(n) == <<ByteCount(n), Mantissa(n)>>

(* "Will it overflow?"  The cap on the exponent is never met here. *)
difficulty_one_sixteenth(x) ==
    IF x[2] * Easier >= Base^3 THEN <<x[1] + 1, x[2] \div Easier>>
    ELSE <<x[1], x[2] * Easier>>

(* Mutant: slow periods are not limited. *)
MutClamp(t) == IF t >= 0 /\ t < IdealTime \div 4 THEN IdealTime \div 4 ELSE t

(* "Don't change by more than a factor of 4": the comparisons are of       *)
(* unsigned numbers, and a negative time is a very long one.               *)
Clamp(t) ==
    IF t >= 0 /\ t < IdealTime \div 4 THEN IdealTime \div 4
    ELSE IF t < 0 \/ t > IdealTime * 4 THEN IdealTime * 4
    ELSE t

Start(d) == IF d = Interval - 1 THEN 0 ELSE block_ancestor(d, Interval)
ActualTime(d) == Time(d) - Time(Start(d))
Scaled(d) ==
    (decode_difficulty(Difficulty(d)) * Clamp(ActualTime(d))) \div IdealTime
Adjusts(d) == (d + 1) % Interval = 0

(* The difficulty of the block after the one of depth d. *)
get_difficulty(d) ==
    IF ~Adjusts(d) THEN Difficulty(d)
    ELSE LET x == encode_difficulty(Scaled(d)) IN
         IF x[1] > GenesisDifficulty[1]
            \/ (x[1] = GenesisDifficulty[1] /\ x[2] > GenesisDifficulty[2])
         THEN GenesisDifficulty ELSE x

(* Work is 2^256 / (target + 1), here for hashes of 8 bytes. *)
Work(x) == Base^8 \div (decode_difficulty(x) + 1)
total_work_done(d) ==
    LET sum[k \in 0 .. d] == Work(Difficulty(k)) + (IF k = 0 THEN 0 ELSE sum[k - 1])
    IN sum[d]

-----------------------------------------------------------------------------
ConsensusInit ==
    /\ chain = <<[time |-> 0, diff |-> GenesisDifficulty]>>
    /\ ended = ""

(* check_block_header() for a block with time t, and block_add(). *)
check_block_header(t) ==
    /\ ended = "" /\ Depth < MaxDepth
    /\ check_timestamp(t, Depth)
    /\ IF Adjusts(Depth) /\ Tiny(Scaled(Depth))
       THEN ended' = "errx" /\ UNCHANGED chain
       ELSE IF Adjusts(Depth) /\ Mantissa(Scaled(Depth)) = Base^3 - 1
       THEN ended' = "assert" /\ UNCHANGED chain
       ELSE /\ chain' = Append(chain, [time |-> t, diff |-> get_difficulty(Depth)])
            /\ UNCHANGED ended

ConsensusNext == \E t \in Times : check_block_header(t)

ConsensusSpec == ConsensusInit /\ [][ConsensusNext]_consensusVars

-----------------------------------------------------------------------------
(* create_refs.c and input_refs.c *)

(* Mutant: "it might be going to go into *next* block" is forgotten. *)
MutBlocksAgo(prev, d, offset) == prev - d

BlocksAgo(prev, d, offset) == prev - d + offset

(* resolve_input() for an input in block d, to be mined on prev: whether   *)
(* it makes a reference, at local time now.                                *)
resolve_input(d, now) == Time(d) + Horizon - Close >= now

(* check_ref() for a reference of the block of depth d. *)
check_ref(d, ago) ==
    /\ block_ancestor(d, ago) # NoBlock
    /\ Time(block_ancestor(d, ago)) + Horizon >= Time(d)

-----------------------------------------------------------------------------
(* prev_txhashes.c: the blocks visited before one of depth d, in order. *)

(* Mutant: the first step is of two. *)
MutVisited(d) ==
    LET at[i \in 0 .. Visits - 1] ==
            IF i = 0 THEN d - 1 ELSE block_ancestor(at[i - 1], 2^i)
        Ends == {n \in 0 .. Visits : \A i \in 0 .. n - 1 : at[i] >= 0}
    IN SubSeq([i \in 1 .. Visits |-> at[i - 1]], 1, Cardinality(Ends) - 1)

for_each_prev_txhash(d) ==
    LET at[i \in 0 .. Visits - 1] ==
            IF i = 0 THEN d - 1 ELSE block_ancestor(at[i - 1], 2^(i - 1))
        Ends == {n \in 0 .. Visits : \A i \in 0 .. n - 1 : at[i] >= 0}
    IN SubSeq([i \in 1 .. Visits |-> at[i - 1]], 1, Cardinality(Ends) - 1)

num_shards(d) == Len(ShardNums[d])
num_prev_txhashes(d) ==
    LET v == for_each_prev_txhash(d)
        sum[k \in 0 .. Len(v)] == IF k = 0 THEN 0 ELSE sum[k - 1] + num_shards(v[k])
    IN sum[Len(v)]

(* The hash byte of a shard of a block stands for both. *)
make_prev_txhashes(d) ==
    LET v == for_each_prev_txhash(d)
        cat[k \in 0 .. Len(v)] ==
            IF k = 0 THEN <<>>
            ELSE cat[k - 1] \o [j \in 1 .. num_shards(v[k]) |-> <<v[k], j>>]
    IN cat[Len(v)]

(* check_prev_txhashes() of hashes m by a node that knows the shards K. *)
check_prev_txhashes(d, m, K) ==
    LET v == for_each_prev_txhash(d)
        off[k \in 1 .. Len(v) + 1] ==
            IF k = 1 THEN 0 ELSE off[k - 1] + num_shards(v[k - 1])
    IN \A k \in DOMAIN v : \A j \in 1 .. num_shards(v[k]) :
           <<v[k], j>> \in K => m[off[k] + j] = <<v[k], j>>

-----------------------------------------------------------------------------
(* reward.c *)

SumOf(s) == LET sum[k \in 0 .. Len(s)] == IF k = 0 THEN 0 ELSE sum[k - 1] + s[k]
            IN sum[Len(s)]

(* num_txs() adds them up and returns the number of shards. *)
num_txs(d) == num_shards(d)

RewardEnd(d) == ((d + RewardPeriod - 1) \div RewardPeriod) * RewardPeriod

(* The block whose hash decides the reward of block d for a claim in block *)
(* c: "Decider is reward_end on way to claim block".                       *)
Decider(d, c) == block_ancestor(c, d - RewardEnd(d))

reward_get_tx(d, c) == SumOf(ShardNums[d]) # 0 /\ c > RewardEnd(d)

(* get_shard_and_off() finds transaction n, or aborts. *)
get_shard_and_off(d, n) == n < SumOf(ShardNums[d])

-----------------------------------------------------------------------------
(* Properties *)

(* The difficulty only changes at the end of an interval, by a factor of   *)
(* at most 4 each way (up to the digits the mantissa drops), and the       *)
(* target never exceeds that of genesis; so every block adds work, and one *)
(* with a lower target no less.                                            *)
TargetsBounded ==
    \A d \in 1 .. Depth :
        LET old == decode_difficulty(Difficulty(d - 1))
            new == decode_difficulty(Difficulty(d))
        IN /\ ~Adjusts(d - 1) => new = old
           /\ new <= old * 4 /\ new <= decode_difficulty(GenesisDifficulty)
           /\ new + Base^(Difficulty(d)[1] - 3) > old \div 4
           /\ total_work_done(d) > total_work_done(d - 1)
           /\ new <= old => Work(Difficulty(d)) >= Work(Difficulty(d - 1))
           /\ LET e == decode_difficulty(difficulty_one_sixteenth(Difficulty(d)))
              IN e <= new * Easier /\ e + Base^(Difficulty(d)[1] - 2) > new * Easier

(* A reference made by create_refs() for the next block names the block    *)
(* that holds the input, and passes check_ref() there, if the block's time *)
(* is no more than CLOSE_TO_HORIZON after the reference was made.          *)
RefsReach ==
    Depth > 0 =>
        \A d \in 0 .. Depth - 1, now \in Times :
            /\ resolve_input(d, now) /\ Time(Depth) <= now + Close
            => LET ago == BlocksAgo(Depth - 1, d, 1)
               IN block_ancestor(Depth, ago) = d /\ check_ref(Depth, ago)

(* "We go back by powers of two from start": S-1, S-2, S-4...  What a      *)
(* miner makes passes the check of any node, and a wrong byte is found by  *)
(* every node that knows the shard it stands for.                          *)
PrevHashesChecked ==
    \A d \in 1 .. Depth :
        LET v == for_each_prev_txhash(d)
            m == make_prev_txhashes(d)
            All == {m[k] : k \in DOMAIN m}
        IN /\ \A k \in DOMAIN v : v[k] = d - (IF k = 1 THEN 1 ELSE 2^(k - 1))
           /\ Len(v) < Visits => d < 2^Len(v)
           /\ Len(m) = num_prev_txhashes(d)
           /\ check_prev_txhashes(d, m, All)
           /\ \A k \in DOMAIN m : ~check_prev_txhashes(d, [m EXCEPT ![k] = <<>>], {m[k]})

(* Whatever a block says of earlier ones leads to the block that is meant, *)
(* at any depth: references (create_refs(), check_ref()) and hashes of     *)
(* earlier shards (make_prev_txhashes(), check_prev_txhashes()).           *)
HistoryReached == RefsReach /\ PrevHashesChecked

(* "Decider is reward_end on way to claim block": the decider of a reward  *)
(* that can be claimed is there, and the transaction it picks exists.      *)
RewardDecided ==
    \A c \in 1 .. Depth : \A d \in 1 .. c :
        reward_get_tx(d, c) =>
            /\ Decider(d, c) = RewardEnd(d)
            /\ \A n \in 0 .. num_txs(d) - 1 : get_shard_and_off(d, n)
=============================================================================
