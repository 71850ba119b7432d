----------------------------- MODULE MCLibrary -----------------------------
(***************************************************************************)
(* The rules and the libraries that every part of a node rests on, each in *)
(* behaviours of its own: times, targets, references and rewards along a   *)
(* chain (Consensus), merkle proofs (Proof), the slots of a shard (Shard), *)
(* packets (Wire), the log (Log) and, of ccan, hash tables (Htable), the   *)
(* poll loop (Io), the allocator (Tal) and timers (Timer).                 *)
(***************************************************************************)
EXTENDS Consensus, Proof, Shard, Wire, Log, Htable, Io, Tal, Timer

VARIABLE active  \* the component this behaviour is about

(* Genesis as easy as a block can be; every other block has no             *)
(* transaction in one of its shards.                                       *)
EasyGenesis == <<6, 45>>
TwoShards == [d \in 0 .. MaxDepth |-> IF d % 2 = 0 THEN <<1, 0>> ELSE <<1, 2>>]

(* A transaction of two cells, and five for each input. *)
SmallTx == [normal |-> 2]
SmallInput == [normal |-> 5]

(* Pointers as sets of bits; three hashes collide in a table of two. *)
FivePtrs == {{4}, {4, 2}, {4, 1}, {4, 2, 0}, {4, 3}}
FewHashes == [p \in Ptrs |-> CASE p = {4} -> {0} [] p \in {{4, 2}, {4, 3}} -> {0, 1, 2}
                               [] p = {4, 1} -> {0, 1} [] OTHER -> {}]

ASSUME
    /\ ProofAssumption /\ ShardAssumption /\ WireAssumption /\ LogAssumption
    /\ IoAssumption /\ TalAssumption /\ TimerAssumption

Init ==
    /\ active \in {"consensus", "proof", "shard", "wire", "log", "htable", "io", "tal", "timer"}
    /\ ConsensusInit /\ ProofInit /\ ShardInit /\ WireInit /\ LogInit
    /\ HtableInit /\ IoInit /\ TalInit /\ TimerInit

OthersUnchanged ==
    /\ active # "consensus" => UNCHANGED consensusVars
    /\ active # "proof" => UNCHANGED shard
    /\ active # "shard" => UNCHANGED shardVars
    /\ active # "wire" => UNCHANGED wireVars
    /\ active # "log" => UNCHANGED logVars
    /\ active # "htable" => UNCHANGED ht
    /\ active # "io" => UNCHANGED io
    /\ active # "tal" => UNCHANGED tal
    /\ active # "timer" => UNCHANGED timerVars
    /\ UNCHANGED active

Next ==
    \/ active = "consensus" /\ ConsensusNext /\ OthersUnchanged
    \/ active = "proof" /\ ProofNext /\ OthersUnchanged
    \/ active = "shard" /\ ShardNext /\ OthersUnchanged
    \/ active = "wire" /\ WireNext /\ OthersUnchanged
    \/ active = "log" /\ LogNext /\ OthersUnchanged
    \/ active = "htable" /\ HtableNext /\ OthersUnchanged
    \/ active = "io" /\ IoNext /\ OthersUnchanged
    \/ active = "tal" /\ TalNext /\ OthersUnchanged
    \/ active = "timer" /\ TimerNext /\ OthersUnchanged

vars == <<active, consensusVars, shard, shardVars, wireVars, logVars, ht, io, tal, timerVars>>

Spec == Init /\ [][Next]_vars
=============================================================================
