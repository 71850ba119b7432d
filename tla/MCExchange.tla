---------------------------- MODULE MCExchange ----------------------------
(***************************************************************************)
(* What a node exchanges with others and with its disk, each in behaviours *)
(* of its own: chains while two nodes synchronise (Sync), the contents of  *)
(* a block (Contents) and the block file (Blockfile).                      *)
(***************************************************************************)
EXTENDS Sync, Contents, Blockfile

VARIABLE active  \* the component this behaviour is about

(* Two nodes that may have parts of a tree with a fork and a branch of four. *)
ForkTree == [b \in Tree |-> CASE b \in {"g", "a", "c"} -> "g" [] b = "b" -> "a" [] b = "d" -> "b"]

(* A shard the taker wants, and one with a transaction that affects it. *)
TwoOffs == [h \in Shards |-> IF h = 1 THEN 2 ELSE 1]
OtherShard == {<<2, 1>>}
LateSlots == {<<1, 1>>, <<2, 1>>}
KnownSlots == {<<1, 2>>}
SoughtSlots == {<<1, 1>>}

(* A chain of three blocks and another block, of records of several cells. *)
ChainNeeds == [x \in Items |-> CASE x = "b2" -> {"b1"} [] x = "b4" -> {"b2"} [] OTHER -> {}]
RecordCells == [x \in Items |-> IF x = "b2" THEN 3 ELSE 2]

ASSUME SyncAssumption
ASSUME ContentsAssumption /\ BlockfileAssumption

(* What a behaviour is not about stays in one of its initial states. *)
SyncVars == syncVars
SyncIdle == SyncInit /\ have = [n \in SyncNodes |-> {Genesis}]
ContentsVars == <<gives, takes, header, todo, syncing, theyAre, bad, open,
                  toGiver, toTaker, loose>>
ContentsIdle == 
    /\ ContentsInit
    /\ gives = [s \in Places |-> "tx"] /\ loose = {} /\ ~syncing /\ toTaker = <<>>
BlockfileVars == <<file, off, pos, inMemory, saved, loading, repaired>>
BlockfileIdle == BlockfileInit

Init ==
    \/ active = "sync" /\ SyncInit /\ ContentsIdle /\ BlockfileIdle
    \/ active = "contents" /\ ContentsInit /\ SyncIdle /\ BlockfileIdle
    \/ active = "blockfile" /\ BlockfileInit /\ SyncIdle /\ ContentsIdle

Next ==
    \/ active = "sync" /\ SyncNext /\ UNCHANGED <<active, ContentsVars, BlockfileVars>>
    \/ active = "contents" /\ ContentsNext /\ UNCHANGED <<active, SyncVars, BlockfileVars>>
    \/ active = "blockfile" /\ BlockfileNext /\ UNCHANGED <<active, SyncVars, ContentsVars>>

vars == <<active, SyncVars, ContentsVars, BlockfileVars>>

(* As in ContentsFairSpec: packets are delivered, the writer runs, and the *)
(* giver gets everything from somebody.                                    *)
Fair(A) == active = "contents" /\ A /\ UNCHANGED <<active, SyncVars, BlockfileVars>>
Fairness ==
    /\ WF_vars(Fair(Give)) /\ WF_vars(Fair(Take)) /\ WF_vars(Fair(Write))
    /\ \A s \in Places : WF_vars(Fair(open /\ GiverLearns(s)))

Spec == Init /\ [][Next]_vars /\ Fairness

=============================================================================
