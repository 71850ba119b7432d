------------------------------- MODULE Ledger -------------------------------
(***************************************************************************)
(* The two indexes of transactions a node keeps (txhash.c, inputhash.c,    *)
(* tx_in_hashes.c), the checks that read them (check_tx.c, the second half *)
(* of check_block.c), the pending transactions (pending.c) and what a      *)
(* complaint does to all of them (complain.c).                             *)
(*                                                                         *)
(* The tree of headers is given; what is in a block becomes known slot by  *)
(* slot.  A transaction that a block commits to has one slot in it (the    *)
(* shard and the offset).  Every transaction has one output, named by the  *)
(* transaction itself.  The place of longest_knowns[0] is `head'; how the  *)
(* chain pointers are kept is the module Chain.                            *)
(*                                                                         *)
(* Three functions call back into each other while a packet is handled:    *)
(* put_tx_in_shard() rechecks the spenders of what it stored, a recheck    *)
(* may publish a complaint, a complaint rechecks the pending transactions. *)
(* `storing', `readd' and `invalidated' say how far each of them is; no    *)
(* other packet is handled meanwhile.                                      *)
(***************************************************************************)
EXTENDS Naturals, FiniteSets

CONSTANTS
    Blocks,       \* the blocks whose headers are known
    Anc,          \* Anc[b]: what following ->prev from b visits, b included
    Content,      \* Content[b]: the transactions b commits to
    Txs,          \* transactions
    Spends,       \* Spends[t]: the outputs that t has as inputs
    WrongInput,   \* transactions whose inputs are not to their address
    WrongAmount,  \* transactions that do not add up
    Pending       \* the status TX_PENDING in txhash

LedgerAssumption ==
    /\ Anc \in [Blocks -> SUBSET Blocks]
    /\ \A b \in Blocks : b \in Anc[b]
    /\ \A b \in Blocks : \A a \in Anc[b] : Anc[a] \subseteq Anc[b]
    /\ Content \in [Blocks -> SUBSET Txs]
    /\ Spends \in [Txs -> SUBSET Txs]
    /\ Pending \notin Blocks

VARIABLES
    held,          \* <<b, t>>: b's slot for t holds the transaction
    hashed,        \* <<b, t>>: b's slot for t holds its hash only
    complaint,     \* blocks with a complaint
    head,          \* longest_knowns[0]
    txhash,        \* <<t, b>> or <<t, Pending>>: the elements of txhash
    inputhash,     \* <<o, t, ctx>>: t has the input o; ctx owns the element
    freed,         \* elements whose owner was freed while they were in the table
    pend,          \* pending->pend, over all shards
    unknown,       \* pending->unknown_tx
    needs_recheck, \* pending->needs_recheck
    storing,       \* {<<b, t>>} inside put_tx_in_shard(), else {}
    readd,         \* what recheck_pending_txs() still has to add again
    invalidated,   \* publish_complaint() has yet to recompute the heads
    ended          \* "" or the assertion that has failed

blocksState == <<held, hashed, complaint>>
pendingState == <<pend, unknown, needs_recheck, readd>>
ledgerVars == <<blocksState, head, txhash, inputhash, freed, pendingState,
                storing, invalidated, ended>>

Slot == {s \in Blocks \X Txs : s[2] \in Content[s[1]]}
block_preceeds(a, b) == a \in Anc[b]
Descendents(b) == {d \in Blocks : b \in Anc[d]}

LedgerInit ==
    /\ held = {} /\ hashed = {} /\ complaint = {}
    /\ head \in {b \in Blocks : Anc[b] = {b}}
    /\ txhash = {} /\ inputhash = {} /\ freed = {}
    /\ pend = {} /\ unknown = {} /\ needs_recheck = FALSE
    /\ storing = {} /\ readd = {} /\ invalidated = FALSE
    /\ ended = ""

-----------------------------------------------------------------------------
(* Lookups.  T stands for txhash, I for inputhash. *)

(* txhash_gettx(..., TX_PENDING): the full transaction is known somewhere. *)
txhash_gettx(T, t) ==
    \/ <<t, Pending>> \in T
    \/ \E b \in Blocks : <<t, b>> \in T /\ <<b, t>> \in held

txhash_get_pending_tx(T, t) == <<t, Pending>> \in T

(* The elements txhash_gettx_ancestor() may return, as blocks. *)
txhash_gettx_ancestor(T, t, b) ==
    {a \in Blocks : <<t, a>> \in T /\ block_preceeds(a, b)}

UsersOf(I, o) == {t \in Txs : \E ctx \in {"shard", "pending"} : <<o, t, ctx>> \in I}

(* inputhash_add_tx() and inputhash_del_tx(). *)
inputhash_add_tx(I, t, ctx) == I \cup {<<o, t, ctx>> : o \in Spends[t]}
inputhash_del_tx(I, S) == {e \in I : e[2] \notin S}

(* Mutant: only blocks before this one are looked at. *)
MutFindDoublespend(T, I, b, me, o) ==
    \E t \in UsersOf(I, o), a \in Blocks :
        /\ <<t, a>> \in T /\ <<a, t>> \in held /\ <<a, t>> \notin me
        /\ block_preceeds(a, b) /\ a # b

(* A spend of o in a block before or after b, other than `me'. *)
tx_find_doublespend(T, I, b, me, o) ==
    \E t \in UsersOf(I, o), a \in Blocks :
        /\ <<t, a>> \in T /\ <<a, t>> \in held /\ <<a, t>> \notin me
        /\ block_preceeds(a, b) \/ block_preceeds(b, a)

(* check_one_input(), for each element txhash_gettx_ancestor() may give:   *)
(* the hash alone is not enough.                                           *)
check_one_input(T, I, b, me, t, o) ==
    LET found == txhash_gettx_ancestor(T, o, b)
        judge(a) == IF <<a, o>> \notin held THEN "UNKNOWN"
                    ELSE IF t \in WrongInput \/ tx_find_doublespend(T, I, b, me, o)
                    THEN "BAD" ELSE "OK"
    IN  IF found = {} THEN {"UNKNOWN"} ELSE {judge(a) : a \in found}

(* check_tx_inputs(): every error of one input, a double spend too, is     *)
(* reported as ECODE_INPUT_BAD.                                            *)
check_tx_inputs(T, I, b, me, t) ==
    LET judge(o) == check_one_input(T, I, b, me, t, o)
        bad == \E o \in Spends[t] : "BAD" \in judge(o)
        ok  == \A o \in Spends[t] : judge(o) = {"OK"}
    IN  IF Spends[t] = {} THEN "OK"
        ELSE IF bad THEN "BAD"
        ELSE IF ~ok THEN "UNKNOWN"
        ELSE IF t \in WrongAmount THEN "BAD_AMOUNT" ELSE "OK"

(* check_block_shard(): each stored transaction of b still passes.  The    *)
(* shard is all of b here.                                                 *)
check_block_shard(T, I, b) ==
    \A t \in Content[b] : <<b, t>> \in held =>
        check_tx_inputs(T, I, b, {<<b, t>>}, t) \in {"OK", "UNKNOWN"}

(* The block longest_knowns[0] can become: all contents known, no          *)
(* complaint, most work.  Chain describes how.                             *)
Knowns ==
    {b \in Blocks : \A a \in Anc[b] :
        a \notin complaint /\ \A t \in Content[a] : <<a, t>> \in held}
HeadChoices ==
    LET best == {b \in Knowns : \A c \in Knowns : Cardinality(Anc[c]) <= Cardinality(Anc[b])}
    IN  IF head \in best THEN {head} ELSE best

-----------------------------------------------------------------------------
(* Adding to pending. *)

find_pending_doublespend(T, I, t) ==
    \E o \in Spends[t] : \E u \in UsersOf(I, o) : txhash_get_pending_tx(T, u)

(* Mutant: conflicts among the pending transactions are not looked for. *)
MutAddPendingTx(t) ==
    /\ UNCHANGED freed
    /\ LET ierr == check_tx_inputs(txhash, inputhash, head, {}, t)
           keep == /\ txhash_gettx_ancestor(txhash, t, head) = {}
                   /\ ~txhash_get_pending_tx(txhash, t)
                   /\ ierr \in {"OK", "UNKNOWN"}
       IN  IF keep
           THEN /\ pend' = IF ierr = "OK" THEN pend \cup {t} ELSE pend
                /\ unknown' = IF ierr = "OK" THEN unknown ELSE unknown \cup {t}
                /\ inputhash' = IF txhash_gettx(txhash, t) THEN inputhash
                                ELSE inputhash_add_tx(inputhash, t, "pending")
                /\ txhash' = txhash \cup {<<t, Pending>>}
           ELSE UNCHANGED <<pend, unknown, inputhash, txhash>>

(* add_pending_tx(): what is in the chain or pending already, or bad, is   *)
(* not added; what has an unknown input waits on the unknown list.  If its *)
(* inputs are too old to make references to, insert_pending_tx() refuses   *)
(* it.                                                                     *)
add_pending_tx(t) ==
    /\ UNCHANGED freed
    /\ LET ierr == check_tx_inputs(txhash, inputhash, head, {}, t)
           keep == /\ txhash_gettx_ancestor(txhash, t, head) = {}
                   /\ ~txhash_get_pending_tx(txhash, t)
                   /\ \/ ierr = "UNKNOWN"
                      \/ ierr = "OK" /\ ~find_pending_doublespend(txhash, inputhash, t)
       IN  \/ /\ keep
              /\ pend' = IF ierr = "OK" THEN pend \cup {t} ELSE pend
              /\ unknown' = IF ierr = "OK" THEN unknown ELSE unknown \cup {t}
              /\ inputhash' = IF txhash_gettx(txhash, t) THEN inputhash
                              ELSE inputhash_add_tx(inputhash, t, "pending")
              /\ txhash' = txhash \cup {<<t, Pending>>}
           \/ /\ keep => ierr = "OK" /\ Spends[t] # {}
              /\ UNCHANGED <<pend, unknown, inputhash, txhash>>

(* recheck_pending_txs() up to its second loop, from the unknown list U:   *)
(* everything pending leaves the hashes, and state->pending is freed with  *)
(* the elements of inputhash it owns.  An element freed while it is still  *)
(* in the table may read as before or not be found any more.               *)
RecheckFrom(U, T, I) ==
    LET Q     == pend \cup U
        T2    == {e \in T : e[2] # Pending}
        gone  == {t \in Q : ~txhash_gettx(T2, t)}
        I2    == inputhash_del_tx(I, gone)
        stale == {e \in I2 : e[3] = "pending"}
    IN  /\ txhash' = T2
        /\ \E lost \in SUBSET stale : inputhash' = I2 \ lost
        /\ freed' = freed \cup stale
        /\ readd' = Q
        /\ pend' = {} /\ unknown' = {}
        /\ needs_recheck' = FALSE

(* complaint_on_all() marks b and all that descends from it, salvages      *)
(* their transactions and takes them out of the hashes; a slot that holds  *)
(* nothing is read as a NULL transaction.  publish_complaint() goes on     *)
(* with recheck_pending_txs(), against the old head.                       *)
complaint_on_all(b) ==
    LET S    == Descendents(b)
        full == \A s \in Slot : s[1] \in S => s \in held \cup hashed
        dump == {t \in Txs : \E d \in S : <<d, t>> \in held}
        T2   == {e \in txhash : e[2] \notin S}
        gone == {t \in dump : ~txhash_gettx(T2, t)}
    IN  IF b \in complaint
        THEN UNCHANGED <<complaint, txhash, inputhash, freed, pendingState,
                         invalidated, ended>>
        ELSE IF ~full
        THEN /\ ended' = "null transaction"
             /\ UNCHANGED <<complaint, txhash, inputhash, freed, pendingState, invalidated>>
        ELSE /\ complaint' = complaint \cup S
             /\ invalidated' = TRUE
             /\ UNCHANGED ended
             /\ IF dump = {} /\ ~needs_recheck
                THEN /\ txhash' = T2
                     /\ UNCHANGED <<inputhash, freed, pendingState>>
                ELSE RecheckFrom(unknown \cup dump, T2, inputhash_del_tx(inputhash, gone))

-----------------------------------------------------------------------------
(* Steps of the handlers. *)

(* recheck_pending_txs() adds the next transaction again. *)
ReAdd(t) ==
    /\ t \in readd
    /\ add_pending_tx(t)
    /\ readd' = readd \ {t}
    /\ UNCHANGED <<blocksState, head, needs_recheck, storing, invalidated, ended>>

(* publish_complaint() ends: the heads are recomputed from genesis, so     *)
(* update_known() always asks for another recheck.                         *)
update_block_ptrs_invalidated ==
    /\ invalidated /\ readd = {}
    /\ head' \in HeadChoices
    /\ needs_recheck' = TRUE
    /\ invalidated' = FALSE
    /\ UNCHANGED <<blocksState, txhash, inputhash, freed, pend, unknown, readd,
                   storing, ended>>

Returned == readd = {} /\ ~invalidated

(* The stored transactions that spend the one put_tx_in_shard() stores. *)
Spenders ==
    {s \in Blocks \X Txs : \E w \in storing :
        /\ s[2] \in UsersOf(inputhash, w[2])
        /\ <<s[2], s[1]>> \in txhash}

(* recheck_tx() on one of them: its own entry is not passed as `me', so    *)
(* that it takes part in the search for a double spend.                    *)
Recheck(s) == check_tx_inputs(txhash, inputhash, s[1], {}, s[2])

recheck_tx(s) ==
    /\ Returned
    /\ s \in Spenders
    /\ IF s[1] \in complaint
       THEN /\ ended' = "spender in a block with a complaint"
            /\ UNCHANGED <<complaint, txhash, inputhash, freed, pendingState, invalidated>>
       ELSE /\ s \in held
            /\ Recheck(s) \in {"BAD", "BAD_AMOUNT"}
            /\ complaint_on_all(s[1])
    /\ UNCHANGED <<held, hashed, head, storing>>

(* check_resolved_txs() has nothing more to find: put_tx_in_shard() moves  *)
(* the head if the block is complete, and checks the shard.  A move takes  *)
(* the transactions of the branch it leaves into pending.                  *)
tx_stored ==
    /\ Returned /\ storing # {}
    /\ \A s \in Spenders : s[1] \notin complaint
    /\ \A s \in Spenders \cap held : Recheck(s) \in {"OK", "UNKNOWN"}
    /\ head' \in HeadChoices
    /\ unknown' = unknown \cup {t \in Txs : \E b \in Anc[head] \ Anc[head'] : <<b, t>> \in held}
    /\ needs_recheck' = TRUE
    /\ ended' = IF \A w \in storing : check_block_shard(txhash, inputhash, w[1])
                THEN ended ELSE "check_block_shard"
    /\ storing' = {}
    /\ UNCHANGED <<blocksState, txhash, inputhash, freed, pend, readd, invalidated>>

(* Mutant: a hash that becomes a transaction does not add its inputs. *)
MutPutTx(b, t) ==
    /\ held' = held \cup {<<b, t>>}
    /\ hashed' = hashed \ {<<b, t>>}
    /\ inputhash' = IF <<b, t>> \in hashed \/ txhash_gettx(txhash, t) THEN inputhash
                    ELSE inputhash_add_tx(inputhash, t, "shard")
    /\ txhash' = IF <<b, t>> \in hashed THEN txhash ELSE txhash \cup {<<t, b>>}
    /\ storing' = {<<b, t>>}

(* put_tx_in_shard() up to check_resolved_txs(): add_tx_to_hashes() or, if *)
(* the hash was there, upgrade_tx_in_hashes().  The inputs are added the   *)
(* first time the full transaction is heard of.                            *)
put_tx_in_shard(b, t) ==
    /\ held' = held \cup {<<b, t>>}
    /\ hashed' = hashed \ {<<b, t>>}
    /\ inputhash' = IF txhash_gettx(txhash, t) THEN inputhash
                    ELSE inputhash_add_tx(inputhash, t, "shard")
    /\ txhash' = IF <<b, t>> \in hashed THEN txhash ELSE txhash \cup {<<t, b>>}
    /\ storing' = {<<b, t>>}

Idle == Returned /\ storing = {} /\ ~needs_recheck /\ ended = ""

(* A transaction arrives with a proof that it is in b.  The input check    *)
(* comes first, and also when the transaction is there already.            *)
recv_tx(b, t) ==
    /\ Idle
    /\ IF check_tx_inputs(txhash, inputhash, b, {}, t) \in {"BAD", "BAD_AMOUNT"}
       THEN complaint_on_all(b) /\ UNCHANGED <<held, hashed, storing>>
       ELSE IF <<b, t>> \in held
       THEN UNCHANGED <<blocksState, txhash, inputhash, freed, pendingState,
                        storing, invalidated, ended>>
       ELSE /\ put_tx_in_shard(b, t)
            /\ UNCHANGED <<complaint, freed, pendingState, invalidated, ended>>
    /\ UNCHANGED head

(* put_txhash_in_shard(): the hash of a slot that held nothing. *)
put_txhash_in_shard(b, t) ==
    /\ Idle
    /\ <<b, t>> \notin held \cup hashed
    /\ hashed' = hashed \cup {<<b, t>>}
    /\ txhash' = txhash \cup {<<t, b>>}
    /\ needs_recheck' = TRUE
    /\ ended' = IF check_block_shard(txhash', inputhash, b) THEN ended ELSE "check_block_shard"
    /\ UNCHANGED <<held, complaint, head, inputhash, freed, pend, unknown, readd,
                   storing, invalidated>>

(* try_resolve_hash(): a hash is replaced by the transaction, found        *)
(* elsewhere; find_tx_with_ref() makes references to its inputs from b.    *)
try_resolve_hash(b, t) ==
    /\ Idle
    /\ <<b, t>> \in hashed
    /\ txhash_gettx(txhash, t)
    /\ \A o \in Spends[t] : txhash_gettx_ancestor(txhash, o, b) # {}
    /\ put_tx_in_shard(b, t)
    /\ UNCHANGED <<complaint, head, freed, pendingState, invalidated, ended>>

(* A transaction arrives on its own, from a peer or over JSON-RPC. *)
recv_pending_tx(t) ==
    /\ Idle
    /\ add_pending_tx(t)
    /\ UNCHANGED <<blocksState, head, needs_recheck, readd, storing, invalidated, ended>>

(* pkt_in() ends every packet with recheck_pending_txs(). *)
recheck_pending_txs ==
    /\ Returned /\ storing = {} /\ ended = "" /\ needs_recheck
    /\ RecheckFrom(unknown, txhash, inputhash)
    /\ UNCHANGED <<blocksState, head, storing, invalidated, ended>>

LedgerNext ==
    \/ \E s \in Slot : recv_tx(s[1], s[2])
    \/ \E s \in Slot : put_txhash_in_shard(s[1], s[2])
    \/ \E s \in Slot : try_resolve_hash(s[1], s[2])
    \/ \E t \in Txs : recv_pending_tx(t)
    \/ recheck_pending_txs
    \/ ended = "" /\ \/ \E t \in readd : ReAdd(t)
                     \/ update_block_ptrs_invalidated
                     \/ \E s \in Spenders : recheck_tx(s)
                     \/ tx_stored

LedgerSpec == LedgerInit /\ [][LedgerNext]_ledgerVars

-----------------------------------------------------------------------------
(* Properties *)

(* The indexes stay exact through stores, upgrades from hash to full       *)
(* transaction, complaints and rechecks: txhash has every slot of every    *)
(* block without complaint that holds something and nothing else about     *)
(* those blocks, and inputhash has the inputs of every transaction that is *)
(* known in full and, until there is a complaint, of no other: a late      *)
(* transaction is also stored in a block with a complaint, whose slots are *)
(* out of txhash already.  (Until an element of inputhash is used after it *)
(* was freed.)                                                             *)
IndexExact ==
    /\ \A s \in Slot : s[1] \notin complaint =>
          (<<s[2], s[1]>> \in txhash <=> s \in held \cup hashed)
    /\ freed = {} => \A t \in Txs, o \in Txs :
          /\ o \in Spends[t] /\ txhash_gettx(txhash, t) => t \in UsersOf(inputhash, o)
          /\ t \in UsersOf(inputhash, o) /\ complaint = {} => txhash_gettx(txhash, t)

(* On no chain without complaints are two stored transactions that spend   *)
(* the same output of a transaction stored before both: in whatever order  *)
(* they came, a complaint was published or the shard check ended the node. *)
(* (Until an element of inputhash is used after it was freed.)             *)
DoubleSpendNoticed ==
    Idle /\ freed = {} =>
        \A s, r \in held : \A o \in Spends[s[2]] \cap Spends[r[2]] :
            (s # r /\ s[1] \in Anc[r[1]] /\ Anc[r[1]] \cap complaint = {})
                => \A a \in Anc[s[1]] : <<a, o>> \notin held

(* What is pending could be mined on the head: its inputs are in the chain *)
(* of longest_knowns[0], it is not there itself, and no two pending        *)
(* transactions spend the same output.                                     *)
PendingMinable ==
    Idle /\ freed = {} =>
        \A t \in pend :
            /\ \A o \in Spends[t] : \E a \in Anc[head] : <<a, o>> \in held
            /\ \A a \in Anc[head] : <<a, t>> \notin held \cup hashed
            /\ \A u \in pend : u = t \/ Spends[u] \cap Spends[t] = {}
=============================================================================
