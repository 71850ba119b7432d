------------------------------ MODULE Contents ------------------------------
(***************************************************************************)
(* How the contents of one block travel from a node to a peer: the         *)
(* requests GET_SHARD, GET_TX_IN_BLOCK, GET_TX and GET_TXMAP and their     *)
(* answers (peer.c, recv_block.c), and what is sent unasked.  `giver' has  *)
(* the block, `taker' gets it; each is the other's only peer, so that a    *)
(* request is waiting, asked or failed.  How requests are kept for several *)
(* peers is the module Todo, how a shard is filled the module Shard.       *)
(*                                                                         *)
(* The taker is interested in some of the shards.  A transaction in        *)
(* another shard may still affect one of those (its output is there).      *)
(* Every transaction is right; references can always be made.              *)
(***************************************************************************)
EXTENDS Naturals, Sequences, FiniteSets, SequencesExt

CONSTANTS
    Shards,      \* shards of the block
    Wanted,      \* the ones the taker is interested in
    Offs,        \* Offs[h]: transactions in shard h
    Affects,     \* slots <<h, i>> outside Wanted that affect one of Wanted
    Late,        \* slots the giver may not know at first
    Pool,        \* slots whose transaction the taker may know already
    Spent        \* slots whose transaction the taker may look for

Places == UNION {{<<h, i>> : i \in 1 .. Offs[h]} : h \in Shards}

ContentsAssumption ==
    /\ Wanted \subseteq Shards /\ Offs \in [Shards -> Nat \ {0}]
    /\ IsFiniteSet(Places)

VARIABLES
    gives,       \* gives[s]: what the giver has in slot s
    takes,       \* takes[s]: what the taker has
    header,      \* the taker has the block
    todo,        \* todo[r]: the taker's request r
    syncing,     \* the taker is syncing
    theyAre,     \* the giver's peer->they_are_syncing
    bad,         \* the giver has a complaint about the block
    open,        \* the connection
    toGiver, toTaker,   \* packets on their way
    loose        \* slots whose transaction the taker knows outside the block

contentVars == <<gives, takes, header, todo, syncing, theyAre, bad, open, toGiver, toTaker, loose>>

Request ==
    {<<"shard", h>> : h \in Shards} \cup {<<"txmap", h>> : h \in Shards}
    \cup {<<"tx_in_block", s>> : s \in Places} \cup {<<"tx", s>> : s \in Places}

shard_all_hashes(S, h) == \A i \in 1 .. Offs[h] : S[<<h, i>>] # "null"
shard_all_known(S, h) == \A i \in 1 .. Offs[h] : S[<<h, i>>] = "tx"

(* peer_wants_tx() and peer_wants_tx_other() for the taker. *)
peer_wants_tx(s) == s[1] \in Wanted
peer_wants_tx_other(s) == s \in Affects

Pushed(s) == ~peer_wants_tx(s) /\ peer_wants_tx_other(s)

(* The taker hears of the block or (while it is busy with something else)  *)
(* not yet.  Unless it is syncing, what the giver had at once was pushed.  *)
ContentsInit ==
    /\ gives \in {f \in [Places -> {"null", "hash", "tx"}] :
                    \A s \in Places : f[s] # "tx" => s \in Late}
    /\ takes = [s \in Places |-> "null"]
    /\ loose \in {{}, Pool}
    /\ header = FALSE
    /\ todo = [r \in Request |-> "none"]
    /\ syncing \in BOOLEAN /\ theyAre = syncing
    /\ bad = FALSE /\ open = TRUE
    /\ toGiver = <<>>
    /\ LET push == IF syncing THEN <<>> ELSE SetToSeq({s \in Places : gives[s] = "tx" /\ Pushed(s)})
           pkts == [i \in DOMAIN push |-> <<"tx_in_block", push[i], "NONE">>]
       IN  toTaker \in {<<<<"block">>>> \o pkts, <<>>}

-----------------------------------------------------------------------------
(* Requests. *)

(* new_todo_request(): nothing happens if it is there already. *)
AddAll(t, R) == [r \in Request |-> IF r \in R /\ t[r] = "none" THEN "waiting" ELSE t[r]]

(* finish_todo(): success deletes the request, failure counts if asked. *)
finish_todo(t, r, success) ==
    [t EXCEPT ![r] = IF success THEN "none" ELSE IF @ = "asked" THEN "failed" ELSE @]

Outstanding == {r \in Request : todo[r] = "asked"}

(* get_todo_pkt() sends the next request. *)
get_todo_pkt(r) ==
    /\ todo[r] = "waiting"
    /\ todo' = [todo EXCEPT ![r] = "asked"]
    /\ toGiver' = Append(toGiver, r)
    /\ UNCHANGED <<gives, takes, header, syncing, theyAre, bad, open, toTaker, loose>>

(* plan_output(): nothing left to ask and nothing outstanding, so the      *)
(* taker has synced and says so with a filter.                             *)
set_filter ==
    /\ syncing /\ header
    /\ \A r \in Request : todo[r] \in {"none", "failed"}
    /\ syncing' = FALSE
    /\ toGiver' = Append(toGiver, <<"set_filter">>)
    /\ UNCHANGED <<gives, takes, header, todo, theyAre, bad, open, toTaker, loose>>

-----------------------------------------------------------------------------
(* The giver answers. *)

Reply(p) == toGiver' = Tail(toGiver) /\ toTaker' = Append(toTaker, p)
GiverIdle == UNCHANGED <<gives, takes, header, todo, syncing, bad, open, loose>>

(* A block with a complaint is answered with the complaint only. *)
recv_get_shard(h) ==
    /\ Head(toGiver) = <<"shard", h>>
    /\ Reply(IF ~shard_all_hashes(gives, h) THEN <<"shard", h, "UNKNOWN_SHARD">>
             ELSE IF bad THEN <<"complaint">>
             ELSE <<"shard", h, "NONE">>)
    /\ GiverIdle /\ UNCHANGED theyAre

recv_get_tx_in_block(s) ==
    /\ Head(toGiver) = <<"tx_in_block", s>>
    /\ Reply(<<"tx_in_block", s, IF gives[s] = "tx" THEN "NONE" ELSE "UNKNOWN_TX">>)
    /\ GiverIdle /\ UNCHANGED theyAre

(* GET_TX is answered from the preferred chain if the block is on it. *)
recv_get_tx(s) ==
    /\ Head(toGiver) = <<"tx", s>>
    /\ IF gives[s] = "tx"
       THEN \/ Reply(<<"tx_in_block", s, "NONE">>)
            \/ Reply(<<"tx", s, "NONE">>)
       ELSE Reply(<<"tx", s, "UNKNOWN_TX">>)
    /\ GiverIdle /\ UNCHANGED theyAre

recv_get_txmap(h) ==
    /\ Head(toGiver) = <<"txmap", h>>
    /\ Reply(<<"txmap", h, {i \in 1 .. Offs[h] :
                 gives[<<h, i>>] = "tx" /\ peer_wants_tx_other(<<h, i>>)}>>)
    /\ GiverIdle /\ UNCHANGED theyAre

recv_set_filter ==
    /\ Head(toGiver) = <<"set_filter">>
    /\ theyAre' = FALSE
    /\ toGiver' = Tail(toGiver)
    /\ GiverIdle /\ UNCHANGED toTaker

(* The giver learns a hash, or the transaction, of a slot from others.     *)
(* put_tx_in_shard() sends the transaction on unasked if the taker would   *)
(* not get it with the shard: send_tx_in_block_to_peers().                 *)
GiverLearns(s) ==
    /\ gives[s] # "tx"
    /\ \E what \in {"hash", "tx"} :
          /\ what # gives[s]
          /\ gives' = [gives EXCEPT ![s] = what]
          /\ toTaker' = IF what = "tx" /\ ~theyAre /\ Pushed(s)
                        THEN Append(toTaker, <<"tx_in_block", s, "NONE">>) ELSE toTaker
    /\ UNCHANGED <<takes, header, todo, syncing, theyAre, bad, open, toGiver, loose>>

(* The giver learns that the block is bad: the complaint goes to everyone. *)
GiverComplains ==
    /\ ~bad
    /\ bad' = TRUE
    /\ toTaker' = Append(toTaker, <<"complaint">>)
    /\ UNCHANGED <<gives, takes, header, todo, syncing, theyAre, open, toGiver, loose>>

-----------------------------------------------------------------------------
(* The taker. *)

Handled == toTaker' = Tail(toTaker)
TakerIdle == UNCHANGED <<gives, syncing, theyAre, bad, open, toGiver, loose>>

(* The block itself.  sync_block_contents() or ask_block_contents(). *)
recv_block ==
    /\ Head(toTaker) = <<"block">>
    /\ Handled
    /\ header' = TRUE
    /\ todo' = AddAll(todo, {<<"shard", h>> : h \in Wanted}
                 \cup {<<"txmap", h>> : h \in IF syncing THEN Shards \ Wanted ELSE {}})
    /\ TakerIdle /\ UNCHANGED takes

(* Mutant: a shard that comes does not take the request off the list. *)
MutRecvShard(h, e) ==
    /\ toTaker # <<>> /\ Head(toTaker) = <<"shard", h, e>>
    /\ Handled
    /\ LET hash == [s \in Places |-> IF s[1] # h THEN takes[s]
                                     ELSE IF s \in loose THEN "tx"
                                     ELSE IF takes[s] = "null" THEN "hash" ELSE takes[s]]
       IN  IF e # "NONE"
           THEN todo' = finish_todo(todo, <<"shard", h>>, FALSE) /\ UNCHANGED takes
           ELSE /\ takes' = hash
                /\ todo' = AddAll(todo, {<<"tx_in_block", s>> : s \in {x \in Places : x[1] = h /\ hash[x] = "hash"}})
    /\ TakerIdle /\ UNCHANGED header

(* All the hashes of a shard.  try_resolve_hashes() finds the transactions *)
(* known already, and asks for the others.                                 *)
recv_shard(h, e) ==
    /\ toTaker # <<>> /\ Head(toTaker) = <<"shard", h, e>>
    /\ Handled
    /\ LET hash == [s \in Places |-> IF s[1] # h THEN takes[s]
                                     ELSE IF s \in loose THEN "tx"
                                     ELSE IF takes[s] = "null" THEN "hash" ELSE takes[s]]
           done == finish_todo(todo, <<"shard", h>>, e = "NONE")
       IN  IF e # "NONE" THEN todo' = done /\ UNCHANGED takes
           ELSE /\ takes' = hash
                /\ todo' = AddAll(done, {<<"tx_in_block", s>> : s \in {x \in Places : x[1] = h /\ hash[x] = "hash"}})
    /\ TakerIdle /\ UNCHANGED header

(* A transaction with its proof; if the block is not known it is dropped,  *)
(* and so is the fact that this was an answer.                             *)
recv_tx_in_block(s, e) ==
    /\ toTaker # <<>> /\ Head(toTaker) = <<"tx_in_block", s, e>>
    /\ Handled
    /\ IF e # "NONE"
       THEN todo' = finish_todo(todo, <<"tx_in_block", s>>, FALSE) /\ UNCHANGED takes
       ELSE IF ~header THEN UNCHANGED <<takes, todo>>
       ELSE /\ todo' = finish_todo(finish_todo(todo, <<"tx_in_block", s>>, TRUE), <<"tx", s>>, TRUE)
            /\ takes' = [takes EXCEPT ![s] = "tx"]
    /\ TakerIdle /\ UNCHANGED header

(* A transaction alone, which may resolve a hash. *)
recv_tx(s, e) ==
    /\ toTaker # <<>> /\ Head(toTaker) = <<"tx", s, e>>
    /\ Handled
    /\ todo' = finish_todo(todo, <<"tx", s>>, e = "NONE")
    /\ loose' = IF e = "NONE" THEN loose \cup {s} ELSE loose
    /\ takes' = IF e = "NONE" /\ takes[s] = "hash" THEN [takes EXCEPT ![s] = "tx"] ELSE takes
    /\ UNCHANGED <<gives, header, syncing, theyAre, bad, open, toGiver>>

(* Mutant: what the taker has is asked for, not what it lacks. *)
MutRecvTxmap ==
    /\ Head(toTaker)[1] = "txmap"
    /\ Handled
    /\ LET h == Head(toTaker)[2]
           I == Head(toTaker)[3]
       IN  todo' = AddAll(todo, {<<"tx_in_block", <<h, i>>>> : i \in {j \in I : takes[<<h, j>>] = "tx"}})
    /\ TakerIdle /\ UNCHANGED <<takes, header>>

(* Which transactions of a shard the taker should ask for.  Nothing calls  *)
(* todo_done_get_txmap().                                                  *)
recv_txmap ==
    /\ Head(toTaker)[1] = "txmap"
    /\ Handled
    /\ LET h == Head(toTaker)[2]
           I == Head(toTaker)[3]
       IN  todo' = AddAll(todo, {<<"tx_in_block", <<h, i>>>> : i \in {j \in I : takes[<<h, j>>] # "tx"}})
    /\ TakerIdle /\ UNCHANGED <<takes, header>>

(* A complaint is refused (the module Complaints): the connection ends. *)
recv_complaint ==
    /\ Head(toTaker) = <<"complaint">>
    /\ open' = FALSE
    /\ toTaker' = <<>> /\ toGiver' = <<>>
    /\ UNCHANGED <<gives, takes, header, todo, syncing, theyAre, bad, loose>>

(* Somebody sends the taker a transaction that spends one of the block. *)
WantInput(s) ==
    /\ open /\ takes[s] # "tx" /\ s \notin loose
    /\ todo[<<"tx", s>>] = "none"
    /\ todo' = AddAll(todo, {<<"tx", s>>})
    /\ UNCHANGED <<gives, takes, header, syncing, theyAre, bad, open, toGiver, toTaker, loose>>

-----------------------------------------------------------------------------
Give ==
    /\ toGiver # <<>>
    /\ \/ \E h \in Shards : recv_get_shard(h) \/ recv_get_txmap(h)
       \/ \E s \in Places : recv_get_tx_in_block(s) \/ recv_get_tx(s)
       \/ recv_set_filter
Take ==
    /\ toTaker # <<>>
    /\ \/ recv_block \/ recv_txmap \/ recv_complaint
       \/ \E h \in Shards, e \in {"NONE", "UNKNOWN_SHARD"} : recv_shard(h, e)
       \/ \E s \in Places, e \in {"NONE", "UNKNOWN_TX"} : recv_tx_in_block(s, e) \/ recv_tx(s, e)
Write == open /\ ((\E r \in Request : get_todo_pkt(r)) \/ set_filter)

ContentsNext ==
    \/ Give \/ Take \/ Write
    \/ open /\ \E s \in Places : GiverLearns(s)
    \/ open /\ GiverComplains
    \/ \E s \in Spent : WantInput(s)

ContentsSpec == ContentsInit /\ [][ContentsNext]_contentVars

(* Packets are delivered and the writer runs whenever it has something to  *)
(* write; the giver, in its turn, gets everything from somebody.           *)
ContentsFairness ==
    /\ WF_contentVars(Give) /\ WF_contentVars(Take) /\ WF_contentVars(Write)
    /\ \A s \in Places : WF_contentVars(open /\ GiverLearns(s))
ContentsFairSpec == ContentsSpec /\ ContentsFairness

-----------------------------------------------------------------------------
(* Properties *)

(* Every answer settles the request it answers: when nothing is on its     *)
(* way, what is still outstanding is a TXMAP request, which nothing ever   *)
(* settles, or a GET_TX that was answered from a block the taker does not  *)
(* know.                                                                   *)
AnswersSettle ==
    toGiver = <<>> /\ toTaker = <<>> /\ open =>
        \A r \in Outstanding : r[1] = "txmap" \/ (r[1] = "tx" /\ ~header)

(* The giver has it all; the taker has what it wants of the block. *)
GiverHasAll == \A s \in Places : gives[s] = "tx"
TakerHasAll == \A s \in Places : peer_wants_tx(s) \/ peer_wants_tx_other(s) => takes[s] = "tx"

(* If the giver had the whole block before the taker first heard of it,    *)
(* the taker gets everything in the shards it wants and everything that    *)
(* affects them, syncing or not.                                           *)
ContentsFetched == GiverHasAll => [](header => <>(TakerHasAll \/ bad))
=============================================================================
