----------------------------- MODULE Generator -----------------------------
(***************************************************************************)
(* Mining: the pending transactions of the daemon (pending.c), the process *)
(* it runs to mine on them (generating.c) and that process itself          *)
(* (pettycoin-generate.c).                                                 *)
(*                                                                         *)
(* The daemon and the generator share two pipes and a signal.  The daemon  *)
(* writes the go byte and then one update per pending transaction; the     *)
(* generator answers with one packet for the block and one per shard, and  *)
(* exits.  When the pending set changes other than by growing, the daemon  *)
(* kills the generator, and starts a new one once it has reaped the old.   *)
(*                                                                         *)
(* A transaction is a number, its place in the order of tx_cmp().  What    *)
(* the generator is told of a transaction is hash_tx_and_refs(): the       *)
(* transaction and its input references, which create_refs() counts from   *)
(* the block that is state->longest_knowns[0] at the time.  The references *)
(* are represented by that block.                                          *)
(***************************************************************************)
EXTENDS Naturals, Sequences, FiniteSets, SequencesExt

CONSTANTS
    Txs,         \* transactions, in the order of tx_cmp()
    NumShards,   \* num_shards() of the next block
    ShardOf,     \* shard_of_tx()
    MaxPending,  \* transactions a shard has room for: 255
    Heads,       \* blocks that can be longest_knowns[0]
    PipeSize     \* bound: updates the pipe to the generator holds

Shards == 1..NumShards

ASSUME GeneratorAssumption ==
    /\ Txs \subseteq Nat /\ IsFiniteSet(Txs)
    /\ NumShards \in Nat \ {0}
    /\ ShardOf \in [Txs -> Shards]
    /\ MaxPending \in Nat \ {0}
    /\ PipeSize \in Nat \ {0}

VARIABLES
    head,     \* state->longest_knowns[0]
    needs_recheck, \* state->pending->needs_recheck
    pend,     \* state->pending->pend, one array per shard
    unknown,  \* transactions of state->pending->unknown_tx
    gen,      \* is state->gen set?
    updates,  \* gen->updates
    writer,   \* the plan of gen->update
    reaping,  \* are both conns closed, the daemon in waitpid()?
    shards_read, \* answer packets the daemon has read
    base,     \* the block the generator mines on
    child,    \* where the generator is, or how it ended
    input,    \* the generator's flag that input is waiting
    pipe,     \* updates written and not yet read
    trans_hashes, \* the working block of the generator
    written   \* answer packets the generator has written

daemon_vars == <<head, needs_recheck, pend, unknown, gen, updates, writer>>
child_vars == <<child, input, pipe, trans_hashes, written>>
vars == <<daemon_vars, child_vars, base, reaping, shards_read>>

Entry == [tx : Txs, refs : Heads]
Update == [shard : Shards, off : Nat, entry : Entry]
NoTxs == [s \in Shards |-> <<>>]
AnswerLen == 1 + NumShards

(* The generator runs, has ended and is not reaped yet, or is "none".      *)
Alive == {"starting", "looping", "solving", "reading", "writing"}
Dead == {"exited", "killed", "aborted", "failed"}

-----------------------------------------------------------------------------
(* What the handlers of the daemon do to its own state, as operators on a  *)
(* record of it.                                                           *)

Daemon ==
    [head |-> head, needs_recheck |-> needs_recheck, pend |-> pend,
     unknown |-> unknown, gen |-> gen, updates |-> updates, woken |-> FALSE]

PendingIn(arrays) == {e.tx : e \in UNION {Range(arrays[s]) : s \in Shards}}

(* The position of t in a sorted array, or where it would go.  look[n] is  *)
(* what is left to search after n turns of the loop.                       *)
Halved(arr, t, pos, end) ==
    LET halfway == (pos + end) \div 2
    IN  CASE t < arr[halfway + 1].tx -> <<pos, halfway>>
          [] t > arr[halfway + 1].tx -> <<halfway + 1, end>>
          [] t = arr[halfway + 1].tx -> <<halfway, halfway>>

find_pending_in_arr(arr, t) ==
    LET look[n \in 0..Len(arr)] ==
            IF n = 0 THEN <<0, Len(arr)>>
            ELSE IF look[n - 1][1] < look[n - 1][2]
                 THEN Halved(arr, t, look[n - 1][1], look[n - 1][2])
                 ELSE look[n - 1]
    IN  look[Len(arr)][1]

(* Mutant: io_wake() is not called. *)
MutTellGenerator(d, s, pos) ==
    IF ~d.gen THEN d
    ELSE [d EXCEPT
            !.updates = Append(@, [shard |-> s, off |-> pos, entry |-> d.pend[s][pos + 1]])]

tell_generator_new_pending(d, s, pos) ==
    IF ~d.gen THEN d
    ELSE [d EXCEPT
            !.updates = Append(@, [shard |-> s, off |-> pos, entry |-> d.pend[s][pos + 1]]),
            !.woken = TRUE]

insert_pending_tx(d, t) ==
    LET s   == ShardOf[t]
        pos == find_pending_in_arr(d.pend[s], t)
    IN  IF Len(d.pend[s]) = MaxPending
        THEN [d EXCEPT !.unknown = @ \cup {t}]
        ELSE tell_generator_new_pending(
                 [d EXCEPT !.pend[s] = InsertAt(@, pos + 1, [tx |-> t, refs |-> d.head])],
                 s, pos)

(* How a transaction fares against the chain: its inputs are there, are    *)
(* not known yet, or it is refused (mined already, bad, without a fee, or  *)
(* with inputs too old to refer to).                                       *)
Verdicts == {"ok", "unknown", "refused"}

add_pending_tx(d, t, verdict) ==
    IF t \in PendingIn(d.pend) \cup d.unknown THEN d
    ELSE CASE verdict = "ok"      -> insert_pending_tx(d, t)
           [] verdict = "unknown" -> [d EXCEPT !.unknown = @ \cup {t}]
           [] verdict = "refused" -> d

restart_generating(d) == [d EXCEPT !.gen = FALSE]

(* The transactions in S, in order. *)
InOrder(S) ==
    CHOOSE txs \in [1..Cardinality(S) -> S] : \A i, j \in DOMAIN txs : i < j => txs[i] < txs[j]

(* The arrays that hold the transactions in K, inserted one by one while   *)
(* h is the head.                                                          *)
Arrays ==
    [K \in SUBSET Txs |->
        [h \in Heads |->
            [s \in Shards |->
                LET txs == InOrder({t \in K : ShardOf[t] = s})
                IN  [i \in DOMAIN txs |-> [tx |-> txs[i], refs |-> h]]]]]

Fitting == {K \in SUBSET Txs : \A s \in Shards :
                                   Cardinality({t \in K : ShardOf[t] = s}) <= MaxPending}

(* All pending transactions are added again: some are known now (K), some  *)
(* are not or do not fit (U), the others are refused.  The old generator   *)
(* is told of the first, for what it is worth, and then given up.          *)
AddedAgain(d, K, U) ==
    restart_generating(
        [d EXCEPT !.needs_recheck = FALSE, !.pend = Arrays[K][d.head],
                  !.unknown = U \ K, !.woken = @ \/ (d.gen /\ K # {})])

recheck_pending_txs(d) ==
    LET txs == PendingIn(d.pend) \cup d.unknown
    IN  CASE ~d.needs_recheck -> {d}
          [] d.needs_recheck /\ txs = {} -> {[d EXCEPT !.needs_recheck = FALSE]}
          [] d.needs_recheck /\ txs # {} ->
                 {AddedAgain(d, K, U) : K \in Fitting \cap SUBSET txs, U \in SUBSET txs}

(* block_to_pending() on blocks that hold the transactions in T. *)
block_to_pending(d, T) ==
    [d EXCEPT !.unknown = @ \cup T, !.needs_recheck = @ \/ T # {}]

(* What a packet or a mined block can do to the chain, as seen from here.  *)
put_tx_in_shard(d) == {[d EXCEPT !.needs_recheck = TRUE]}

update_known(d) ==
    {[block_to_pending(d, IF h = d.head THEN {} ELSE T)
         EXCEPT !.needs_recheck = TRUE, !.head = h] : h \in Heads, T \in SUBSET Txs}

new_longest(d) == {[d EXCEPT !.head = h] : h \in Heads}

(* It rechecks before the head moves.  That is done again at the end of    *)
(* the handler, from all that is left pending: pooled here as unknown.     *)
Pooled(d, h) ==
    [d EXCEPT !.pend = NoTxs, !.unknown = @ \cup PendingIn(d.pend),
              !.needs_recheck = TRUE, !.head = h]

publish_complaint(d) ==
    LET rechecked == UNION {recheck_pending_txs(block_to_pending(d, T)) : T \in SUBSET Txs}
    IN  {Pooled(r, h) : r \in rechecked, h \in Heads}

ChainEffects(d) == {d} \cup put_tx_in_shard(d) \cup update_known(d) \cup new_longest(d)

(* Whatever it was, the handler ends with recheck_pending_txs(). *)
Rechecked(D) == UNION {recheck_pending_txs(d) : d \in D}

(* The generator's memory and what it had still to read go with it. *)
Ends(how) ==
    /\ child' = how
    /\ input' = FALSE
    /\ pipe' = <<>>
    /\ trans_hashes' = NoTxs

(* The daemon's state becomes d.  A generator that was given up is killed, *)
(* and what is queued for it will never be sent: that the writer has       *)
(* something to write is all that matters from then on.  A writer that is  *)
(* asleep wakes when it was told of something.                             *)
Killed(d) == gen /\ ~d.gen /\ child \in Alive

Become(d) ==
    /\ head' = d.head
    /\ needs_recheck' = d.needs_recheck
    /\ pend' = d.pend
    /\ unknown' = d.unknown
    /\ gen' = d.gen
    /\ updates' = IF d.gen THEN d.updates ELSE <<>>
    /\ writer' = IF d.woken /\ writer = "idle" THEN "ready" ELSE writer
    /\ IF Killed(d) THEN Ends("killed") ELSE UNCHANGED <<child, input, pipe, trans_hashes>>

-----------------------------------------------------------------------------
(* The daemon. *)

init_updates(arrays) ==
    LET all[s \in 0..NumShards] ==
            IF s = 0 THEN <<>>
            ELSE all[s - 1] \o [i \in DOMAIN arrays[s] |->
                                   [shard |-> s, off |-> i - 1, entry |-> arrays[s][i]]]
    IN  all[NumShards]

(* Blocks and their transactions are loaded before the first generator is  *)
(* started, and leave needs_recheck set.                                   *)
Init ==
    /\ head \in Heads
    /\ unknown = {}
    /\ needs_recheck \in BOOLEAN
    /\ pend = NoTxs
    /\ gen = TRUE
    /\ updates = <<>>
    /\ writer = "setup"
    /\ reaping = FALSE
    /\ shards_read = 0
    /\ base = head
    /\ child = "starting"
    /\ input = TRUE
    /\ pipe = <<>>
    /\ trans_hashes = NoTxs
    /\ written = 0

start_generating ==
    /\ gen' = TRUE
    /\ base' = head
    /\ updates' = init_updates(pend)
    /\ writer' = "setup"
    /\ reaping' = FALSE
    /\ shards_read' = 0
    /\ child' = "starting"
    /\ input' = TRUE
    /\ pipe' = <<>>
    /\ trans_hashes' = NoTxs
    /\ written' = 0
    /\ UNCHANGED <<head, needs_recheck, pend, unknown>>

(* What a handler that has nothing to do with the generator leaves alone.  *)
OthersUnchanged == UNCHANGED <<base, reaping, shards_read, written>>

(* pkt_in() of a packet about blocks, shards or complaints. *)
pkt_in ==
    /\ ~reaping
    /\ \E d \in Rechecked(ChainEffects(Daemon) \cup publish_complaint(Daemon)) : Become(d)
    /\ OthersUnchanged

(* pkt_in() of a transaction: it may also be one some block misses. *)
recv_tx(t) ==
    /\ ~reaping
    /\ LET added == {add_pending_tx(Daemon, t, v) : v \in Verdicts}
       IN  \E d \in Rechecked(added \cup UNION {put_tx_in_shard(a) : a \in added}) : Become(d)
    /\ OthersUnchanged

sendrawtransaction(t) ==
    /\ ~reaping
    /\ \E v \in Verdicts : Become(add_pending_tx(Daemon, t, v))
    /\ OthersUnchanged

(* Mutant: the generator is left running. *)
MutRemovePendingTx(d, t) ==
    LET s == ShardOf[t]
    IN  [d EXCEPT !.pend[s] = RemoveAt(@, find_pending_in_arr(@, t) + 1)]

remove_pending_tx(d, t) ==
    LET s == ShardOf[t]
    IN  restart_generating(
            [d EXCEPT !.pend[s] = RemoveAt(@, find_pending_in_arr(@, t) + 1)])

(* pkt_in() of a proof that t, which is pending, is bad. *)
drop_pending_tx(t) ==
    /\ ~reaping
    /\ t \in PendingIn(pend) \cup unknown
    /\ \E d \in recheck_pending_txs(
                   IF t \in PendingIn(pend) THEN remove_pending_tx(Daemon, t)
                   ELSE [Daemon EXCEPT !.unknown = @ \ {t}]) : Become(d)
    /\ OthersUnchanged

(* The update conn.  do_send_tx() follows the go byte and every update at  *)
(* once: it writes the next one or sleeps.                                 *)
AfterWrite(us) == IF us = <<>> THEN "idle" ELSE "ready"

send_go_byte ==
    /\ ~reaping
    /\ writer = "setup"
    /\ child \in Alive
    /\ writer' = AfterWrite(updates)
    /\ UNCHANGED <<head, needs_recheck, pend, unknown, gen, updates>>
    /\ UNCHANGED <<child_vars, base, reaping, shards_read>>

(* Mutant: the generator's stdin is not O_ASYNC. *)
MutDoSendTx ==
    /\ ~reaping
    /\ writer = "ready"
    /\ child \in Alive
    /\ Len(pipe) < PipeSize
    /\ pipe' = Append(pipe, Head(updates))
    /\ updates' = Tail(updates)
    /\ writer' = AfterWrite(Tail(updates))
    /\ UNCHANGED <<head, needs_recheck, pend, unknown, gen>>
    /\ UNCHANGED <<child, input, trans_hashes, written, base, reaping, shards_read>>

(* The write raises SIGIO in the generator, or comes before it looks.      *)
do_send_tx ==
    /\ ~reaping
    /\ writer = "ready"
    /\ child \in Alive
    /\ Len(pipe) < PipeSize
    /\ pipe' = Append(pipe, Head(updates))
    /\ updates' = Tail(updates)
    /\ writer' = AfterWrite(Tail(updates))
    /\ input' = TRUE
    /\ UNCHANGED <<head, needs_recheck, pend, unknown, gen>>
    /\ UNCHANGED <<child, trans_hashes, written, base, reaping, shards_read>>

(* A write to a generator that is gone closes both conns, whatever the     *)
(* answer conn has left to read.                                           *)
finish_update ==
    /\ ~reaping
    /\ writer \in {"setup", "ready"}
    /\ child \in Dead
    /\ reaping' = TRUE
    /\ UNCHANGED <<daemon_vars, child_vars, base, shards_read>>

(* A mined block has no descendents and only transactions that were known, *)
(* so that no complaint follows from it; it may be refused.                *)
recv_block_from_generator(d) == {d} \cup Rechecked(ChainEffects(d))

(* Mutant: the packet of the block is counted as one of a shard. *)
MutAllRead(n) == n = NumShards

AllRead(n) == n = AnswerLen

(* The answer conn: got_solution() and got_shard().  The last packet hands *)
(* the block over and closes both conns.                                   *)
got_shard ==
    /\ ~reaping
    /\ shards_read < written
    /\ shards_read' = shards_read + 1
    /\ \/ /\ ~AllRead(shards_read')
          /\ UNCHANGED <<daemon_vars, child, input, pipe, trans_hashes, reaping>>
       \/ /\ AllRead(shards_read')
          /\ \E d \in recv_block_from_generator(Daemon) : Become(d)
          /\ reaping' = TRUE
    /\ UNCHANGED <<written, base>>

finish_answer ==
    /\ ~reaping
    /\ child \in Dead
    /\ shards_read = written
    /\ reaping' = TRUE
    /\ UNCHANGED <<daemon_vars, child_vars, base, shards_read>>

(* Mutant: any signal is a failure. *)
MutEndedWell(how) == how = "exited"

EndedWell(how) == how \in {"exited", "killed"}

reap_generator ==
    /\ reaping
    /\ child \in Dead
    /\ \/ /\ EndedWell(child)
          /\ start_generating
       \/ /\ ~EndedWell(child)
          /\ gen' = FALSE
          /\ child' = "none"
          /\ reaping' = FALSE
          /\ UNCHANGED <<head, needs_recheck, pend, unknown, updates, writer>>
          /\ UNCHANGED <<input, pipe, trans_hashes, written, base, shards_read>>

-----------------------------------------------------------------------------
(* The generator. *)

DaemonUnchanged == UNCHANGED <<daemon_vars, base, reaping, shards_read>>

exec_fails ==
    /\ child = "starting"
    /\ Ends("failed")
    /\ DaemonUnchanged /\ UNCHANGED written

main ==
    /\ child = "starting"
    /\ writer # "setup"
    /\ child' = "looping"
    /\ DaemonUnchanged /\ UNCHANGED <<input, pipe, trans_hashes, written>>

check_input ==
    /\ child = "looping"
    /\ child' = IF input THEN "reading" ELSE "solving"
    /\ input' = FALSE
    /\ DaemonUnchanged /\ UNCHANGED <<pipe, trans_hashes, written>>

PutAt(arrays, u) == [arrays EXCEPT ![u.shard] = InsertAt(@, u.off + 1, u.entry)]

add_tx ==
    LET u   == Head(pipe)
        num == Len(trans_hashes[u.shard])
    IN  /\ child = "reading"
        /\ pipe # <<>>
        /\ IF num < MaxPending /\ u.off <= num
           THEN /\ trans_hashes' = PutAt(trans_hashes, u)
                /\ pipe' = Tail(pipe)
                /\ UNCHANGED <<child, input>>
           ELSE Ends("aborted")
        /\ DaemonUnchanged /\ UNCHANGED written

read_txs_done ==
    /\ child = "reading"
    /\ pipe = <<>>
    /\ child' = "solving"
    /\ DaemonUnchanged /\ UNCHANGED <<input, pipe, trans_hashes, written>>

solve_block ==
    /\ child = "solving"
    /\ child' \in {"looping", "writing"}
    /\ DaemonUnchanged /\ UNCHANGED <<input, pipe, trans_hashes, written>>

(* A write after the daemon has closed its end is fatal. *)
write_block ==
    /\ child = "writing"
    /\ written < AnswerLen
    /\ IF ~reaping
       THEN written' = written + 1 /\ UNCHANGED <<child, input, pipe, trans_hashes>>
       ELSE Ends("failed") /\ UNCHANGED written
    /\ DaemonUnchanged

exit ==
    /\ child = "writing"
    /\ written = AnswerLen
    /\ Ends("exited")
    /\ DaemonUnchanged /\ UNCHANGED written

-----------------------------------------------------------------------------
Next ==
    \/ pkt_in
    \/ \E t \in Txs : recv_tx(t) \/ sendrawtransaction(t) \/ drop_pending_tx(t)
    \/ send_go_byte \/ do_send_tx \/ finish_update
    \/ got_shard \/ finish_answer \/ reap_generator
    \/ exec_fails \/ main \/ check_input \/ add_tx \/ read_txs_done
    \/ solve_block \/ write_block \/ exit

(* io_loop() serves every conn that is ready, and the kernel runs the      *)
(* generator; that a packet arrives or a block is solved is not promised.  *)
Fairness ==
    /\ WF_vars(send_go_byte \/ do_send_tx \/ finish_update)
    /\ WF_vars(got_shard \/ finish_answer)
    /\ WF_vars(reap_generator)
    /\ WF_vars(main \/ check_input \/ add_tx \/ read_txs_done \/ solve_block
               \/ write_block \/ exit)

Spec == Init /\ [][Next]_vars /\ Fairness

-----------------------------------------------------------------------------
(* Everything has the type its declaration says; no shard holds more than  *)
(* its 255 transactions, on either side of the pipe.                       *)
TypeOK ==
    /\ head \in Heads /\ base \in Heads
    /\ {needs_recheck, gen, reaping, input} \subseteq BOOLEAN
    /\ \A s \in Shards :
          /\ pend[s] \in Seq(Entry) /\ Len(pend[s]) <= MaxPending
          /\ trans_hashes[s] \in Seq(Entry) /\ Len(trans_hashes[s]) <= MaxPending
    /\ unknown \subseteq Txs
    /\ updates \in Seq(Update)
    /\ pipe \in Seq(Update) /\ Len(pipe) <= PipeSize
    /\ writer \in {"setup", "ready", "idle"}
    /\ child \in Alive \cup Dead \cup {"none"}
    /\ shards_read \in 0..written /\ written \in 0..AnswerLen

(* The working block of a generator that has read the updates us, from     *)
(* the one it has.                                                         *)
WorkAfter(us) ==
    LET work[n \in 0..Len(us)] == IF n = 0 THEN trans_hashes ELSE PutAt(work[n - 1], us[n])
    IN  work[Len(us)]

(* The working block is in the order of tx_cmp() at every moment it could  *)
(* be solved, as check_tx_ordering() demands of a block.                   *)
WorkSorted ==
    \A s \in Shards : \A i, j \in DOMAIN trans_hashes[s] :
        i < j => trans_hashes[s][i].tx < trans_hashes[s][j].tx

(* The generator the daemon believes in works on the daemon's pending      *)
(* transactions: once it has read what is in the pipe and what is queued   *)
(* behind it, its working block is state->pending->pend, each transaction  *)
(* at its place and with its references; what it would solve is sorted.    *)
GeneratorInStep ==
    /\ gen /\ child \in Alive => WorkAfter(pipe \o updates) = pend
    /\ WorkSorted

(* The assertions of add_tx() hold and no write finds the pipe closed: the *)
(* generator never dies in a way that makes the daemon give up mining.     *)
GeneratorSurvives ==
    /\ child # "aborted"
    /\ child = "failed" => written = 0

(* SIGIO is not lost: a generator that is about to hash, with an update    *)
(* waiting for it, has `input' set.                                        *)
InputNoticed ==
    child \in {"starting", "looping", "solving"} /\ pipe # <<>> => input

(* waitpid() in reap_generator() blocks the daemon; it is only called on a *)
(* generator that is gone, or has nothing left to do but exit().           *)
WaitpidReturns ==
    reaping => child \in Dead \/ (child = "writing" /\ written = AnswerLen)

(* Neither side waits for what does not come: the generator hashes on only *)
(* if nothing waits for it in the pipe, and the daemon calls waitpid()     *)
(* only if it returns.                                                     *)
NeverStuck == InputNoticed /\ WaitpidReturns

(* After restart_generating(), or after a block was found, a generator     *)
(* that the daemon believes in is running again: reap_generator() is       *)
(* reached, its waitpid() returns, and it takes the end for a good one.    *)
MiningResumes == child \in {"exited", "killed"} ~> gen /\ child \in Alive

(* A pending transaction reaches the generator: it does not stay in the    *)
(* queue while the writer sleeps, or in the pipe while hashing goes on.    *)
PendingReachesGenerator ==
    \A t \in Txs :
        gen /\ t \in PendingIn(pend) ~>
            (t \in PendingIn(trans_hashes) \/ child \in Dead \cup {"writing", "none"})

(* What the generator works on refers to inputs as seen from the block it  *)
(* mines on: add_pending_tx() checks and refers to inputs "for where *we*  *)
(* would mine it".                                                         *)
RefsForBase ==
    gen => \A s \in Shards : \A i \in DOMAIN trans_hashes[s] : trans_hashes[s][i].refs = base
====
