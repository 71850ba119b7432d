------------------------------- MODULE Chain -------------------------------
(***************************************************************************)
(* The block tree of one pettycoin node and the pointers it keeps into it: *)
(* chain.c, the part of block.c that adds a block, and the calls of        *)
(* check_block.c, complain.c and block_shard.c that change them.           *)
(*                                                                         *)
(* Blocks are named by the order they are added in: block 0 is genesis,    *)
(* block b is the b-th to be added.  A children list is appended to        *)
(* (list_add_tail), so the order of siblings is the order of their names.  *)
(*                                                                         *)
(* The code is single-threaded; the one place where a handler re-enters    *)
(* the chain code is put_tx_in_shard(), which rechecks the transactions    *)
(* that spend the new one (and may complain about any number of blocks)    *)
(* between storing the transaction and updating the pointers.  That call   *)
(* is the variable `resolving'; nothing but a complaint happens inside it. *)
(*                                                                         *)
(* An operator that the code computes by walking a list in order is a set  *)
(* here, of the results the walk can have: one element, as the order of    *)
(* the walk is total.                                                      *)
(***************************************************************************)
EXTENDS Naturals, Sequences, FiniteSets, Functions

CONSTANTS
    MaxBlocks,  \* bound: blocks added beside genesis
    Works       \* work a single block can represent (total_work_done)

ASSUME ChainAssumption ==
    /\ MaxBlocks \in Nat
    /\ Works \subseteq Nat \ {0}

VARIABLES
    n,               \* blocks in the tree, genesis aside
    prev,            \* block->prev (genesis: itself)
    anc,             \* what following ->prev from a block visits, itself too
    work,            \* block->total_work
    contents,        \* what is known of the block's transactions
    all_known,       \* blocks with block->all_known set
    complaint,       \* blocks with block->complaint set
    longest_chains,  \* state->longest_chains
    longest_knowns,  \* state->longest_knowns
    preferred_chain, \* state->preferred_chain
    resolving,       \* {b} inside put_tx_in_shard() for block b, else {}
    stopped          \* why the process ended, or "running"

tree == <<n, prev, anc, work>>
ptrs == <<all_known, longest_chains, longest_knowns, preferred_chain>>
vars == <<tree, ptrs, contents, complaint, resolving, stopped>>

Genesis == 0
Tree == 0..n

(***************************************************************************)
(* Contents of a block, over all its shards: "empty" when it has no        *)
(* transactions (block_empty), "none" when some slot holds neither a       *)
(* transaction nor its hash, "hashes" when every slot holds one of the     *)
(* two, "all" when every slot holds a transaction.                         *)
(***************************************************************************)
Contents == {"empty", "none", "hashes", "all"}

block_all_known(c) == c \in {"empty", "all"}

(* What the contents can be after one more transaction is put in a slot.   *)
AfterTx(c) == IF c = "none" THEN {"none", "hashes", "all"} ELSE {"hashes", "all"}

Desc(b) == {d \in Tree : b \in anc[d]}

Init ==
    /\ n = 0
    /\ prev = [b \in {Genesis} |-> Genesis]
    /\ anc = [b \in {Genesis} |-> {Genesis}]
    /\ work = [b \in {Genesis} |-> 0]
    /\ contents = [b \in {Genesis} |-> "empty"]
    /\ all_known = {Genesis}
    /\ complaint = {}
    /\ longest_chains = <<Genesis>>
    /\ longest_knowns = <<Genesis>>
    /\ preferred_chain = Genesis
    /\ resolving = {}
    /\ stopped = "running"

-----------------------------------------------------------------------------
(* Walking the tree.  A stands for anc, W for work: a new block is linked  *)
(* into the tree before the pointers are recomputed.                       *)

(* Does a depth-first walk that takes siblings in list order meet a before *)
(* b?  It does when a is an ancestor, and otherwise when a's side of the   *)
(* fork was added first.                                                   *)
VisitedBefore(A, a, b) ==
    \/ A[a] \subseteq A[b]
    \/ /\ ~(A[b] \subseteq A[a])
       /\ \E x \in A[a] \ A[b] : \A y \in A[b] \ A[a] : x < y

(* The blocks of S in the order of the walk. *)
WalkOrders(A, S) ==
    {s \in [1..Cardinality(S) -> S] :
        /\ \A b \in S : \E i \in DOMAIN s : s[i] = b
        /\ \A i, j \in DOMAIN s : i < j => VisitedBefore(A, s[i], s[j])}

(* A walk over C that starts from the array `bests': a block with as much  *)
(* work as bests[0] is appended, one with more replaces the array.         *)
Improves(W, bests, C) == {c \in C : W[c] >= W[bests[1]]}

Heaviest(W, S) == {c \in S : \A d \in S : W[d] <= W[c]}

(* Mutant: a later block of the same work goes to the front. *)
MutFindBests(A, W, bests, C) ==
    LET top  == Heaviest(W, Improves(W, bests, C))
        kept == IF \A c \in top : W[c] = W[bests[1]] THEN bests ELSE <<>>
    IN  {s \o kept : s \in WalkOrders(A, top)}

FindBests(A, W, bests, C) ==
    LET top  == Heaviest(W, Improves(W, bests, C))
        kept == IF \A c \in top : W[c] = W[bests[1]] THEN bests ELSE <<>>
    IN  {kept \o s : s \in WalkOrders(A, top)}

(* find_longest_descendents() from root: it does not enter a block that    *)
(* has a complaint.                                                        *)
Unblemished(root, bad) ==
    {d \in Desc(root) : anc[d] \cap Desc(root) \cap bad = {}}

(* The result of update_preferred_chain(): the first most-work descendent  *)
(* of longest_knowns[0] the walk meets.                                    *)
MostWorkDescendents ==
    LET root == longest_knowns[1]
        D    == Unblemished(root, complaint) \cup {root}
    IN  {p \in D : \A d \in D : \/ work[d] < work[p]
                                \/ work[d] = work[p] /\ VisitedBefore(anc, p, d)}

(* find_connected_pair(): positions of a longest chain and of a longest    *)
(* known block that precedes it.                                           *)
ConnectedPairs(A, chains, knowns) ==
    {q \in (DOMAIN chains) \X (DOMAIN knowns) : knowns[q[2]] \in A[chains[q[1]]]}

FirstPairs(pairs) ==
    {q \in pairs : \A r \in pairs : q[1] < r[1] \/ (q[1] = r[1] /\ q[2] <= r[2])}

SwapToFront(s, i) == [s EXCEPT ![1] = s[i], ![i] = s[1]]

order_block_pointers(A, chains, knowns) ==
    LET pairs == ConnectedPairs(A, chains, knowns)
    IN  IF pairs = {}
        THEN {[chains |-> chains, knowns |-> knowns]}
        ELSE {[chains |-> SwapToFront(chains, q[1]),
               knowns |-> SwapToFront(knowns, q[2])] : q \in FirstPairs(pairs)}

(* Mutant: the recursion into the children is missing. *)
MutNewlyKnown(b, bad) ==
    IF prev[b] \in all_known /\ block_all_known(contents[b]) THEN {b} ELSE {}

(* The blocks update_known_recursive(b) marks all_known: it needs          *)
(* b->prev to be marked, stops at a block with contents missing, and does  *)
(* not go below a block with a complaint.                                  *)
NewlyKnown(b, bad) ==
    IF prev[b] \notin all_known THEN {}
    ELSE {d \in Desc(b) : \A e \in anc[d] \cap Desc(b) :
                              block_all_known(contents[e]) /\ (e = d \/ e \notin bad)}

(* update_known(), as the pairs of arrays it can leave behind, from the    *)
(* blocks C the recursion found known and without complaint.               *)
update_known(A, W, chains, knowns, C) ==
    IF Improves(W, knowns, C) = {}
    THEN {[chains |-> chains, knowns |-> knowns]}
    ELSE UNION {order_block_pointers(A, chains, k) : k \in FindBests(A, W, knowns, C)}
-----------------------------------------------------------------------------
(* The assertions of check_chains(state, false). *)
SameWork(s) == \A b, c \in Range(s) : work[b] = work[c]

check_chains ==
    /\ SameWork(longest_chains)
    /\ SameWork(longest_knowns)
    /\ longest_knowns[1] \in anc[preferred_chain]
    /\ \A b \in anc[preferred_chain] \ anc[longest_knowns[1]] : b \notin all_known
    /\ preferred_chain # longest_chains[1] =>
           ConnectedPairs(anc, longest_chains, longest_knowns) = {}
    /\ preferred_chain \notin complaint
    /\ Range(longest_knowns) \cap complaint = {}
    /\ Range(longest_chains) \cap complaint = {}

(* The assertions of check_block(state, b, false) on these fields. *)
check_block(b) ==
    /\ b \in all_known => prev[b] \in all_known
    /\ prev[b] \in complaint => b \in complaint

-----------------------------------------------------------------------------
(* block_add(): b is the new block, p its predecessor, w its own work, c   *)
(* what its header tells of its contents (shards of zero transactions are  *)
(* known from the start).                                                  *)

TotalWork(p, w) == work[p] + w

(* Mutant: a chain as good as the longest is not noted. *)
MutNewLongest(b) ==
    IF work'[b] > work'[longest_chains[1]]
    THEN order_block_pointers(anc', <<b>>, longest_knowns)
    ELSE {[chains |-> longest_chains, knowns |-> longest_knowns]}

(* The arrays after the first switch of update_block_ptrs_new_block() and  *)
(* the new_longest() it calls.                                             *)
NewLongest(b) ==
    LET lead == longest_chains[1]
    IN  CASE work'[b] > work'[lead] ->
               order_block_pointers(anc', <<b>>, longest_knowns)
          [] work'[b] = work'[lead] ->
               order_block_pointers(anc', Append(longest_chains, b), longest_knowns)
          [] OTHER -> {[chains |-> longest_chains, knowns |-> longest_knowns]}

(* A block without transactions may be known at once. *)
KnownAtOnce(b, p, c) == IF block_all_known(c) /\ p \in all_known THEN {b} ELSE {}

(* Mutant: update_preferred_chain() is not called. *)
MutNewBlock(b, p, c) ==
    /\ all_known' = all_known \cup KnownAtOnce(b, p, c)
    /\ \E first \in NewLongest(b) :
       \E r \in update_known(anc', work', first.chains, first.knowns,
                             KnownAtOnce(b, p, c)) :
           /\ longest_chains' = r.chains
           /\ longest_knowns' = r.knowns
    /\ UNCHANGED preferred_chain

update_block_ptrs_new_block(b, p, c) ==
    /\ all_known' = all_known \cup KnownAtOnce(b, p, c)
    /\ \E first \in NewLongest(b) :
       \E r \in update_known(anc', work', first.chains, first.knowns,
                             KnownAtOnce(b, p, c)) :
           /\ longest_chains' = r.chains
           /\ longest_knowns' = r.knowns
    /\ preferred_chain' \in MostWorkDescendents'

block_add(p, w, c) ==
    LET b == n + 1
        New(f, v) == [x \in 0..b |-> IF x = b THEN v ELSE f[x]]
    IN  /\ n < MaxBlocks
        /\ n' = b
        /\ prev' = New(prev, p)
        /\ anc' = New(anc, anc[p] \cup {b})
        /\ work' = New(work, TotalWork(p, w))
        /\ contents' = New(contents, c)
        /\ UNCHANGED resolving
        /\ \/ /\ p \in complaint
              /\ complaint' = complaint \cup {b}
              /\ UNCHANGED ptrs
           \/ /\ p \notin complaint
              /\ UNCHANGED complaint
              /\ update_block_ptrs_new_block(b, p, c)
        /\ stopped' = IF check_chains' /\ (p \in complaint \/ check_block(n)')
                      THEN "running" ELSE "assertion"

(* put_txhash_in_shard(): a slot of b that held nothing gets a hash. *)
put_txhash_in_shard(b) ==
    /\ contents[b] = "none"
    /\ \E c \in {"none", "hashes"} : contents' = [contents EXCEPT ![b] = c]
    /\ UNCHANGED <<tree, ptrs, complaint, resolving, stopped>>

(* put_tx_in_shard() up to its call of check_resolved_txs(). *)
put_tx_in_shard(b) ==
    /\ contents[b] \in {"none", "hashes"}
    /\ \E c \in AfterTx(contents[b]) : contents' = [contents EXCEPT ![b] = c]
    /\ resolving' = {b}
    /\ UNCHANGED <<tree, ptrs, complaint, stopped>>

(* The rest of put_tx_in_shard(), for the block it works on: a shard that  *)
(* is filled calls update_block_ptrs_new_shard(), which calls              *)
(* update_known() once the whole block is known.                           *)
update_block_ptrs_new_shard(b) ==
    LET known == IF block_all_known(contents[b]) THEN NewlyKnown(b, complaint) ELSE {}
        C     == known \ complaint
    IN  /\ UNCHANGED <<tree, contents, complaint, stopped>>
        /\ all_known' = all_known \cup known
        /\ \E r \in update_known(anc, work, longest_chains, longest_knowns, C) :
               /\ longest_chains' = r.chains
               /\ longest_knowns' = r.knowns
        /\ IF Improves(work, longest_knowns, C) = {}
           THEN UNCHANGED preferred_chain
           ELSE preferred_chain' \in MostWorkDescendents'
        /\ resolving' = {}

(* Mutant: complaint_on_all() does not descend. *)
MutBlamed(b) == {b}

(* publish_complaint() on b: complaint_on_all() marks b and everything     *)
(* that descends from it, update_block_ptrs_invalidated() recomputes the   *)
(* pointers from genesis.  A complaint is about a transaction of b, so b   *)
(* has one.                                                                *)
Blamed(b) == Desc(b)

update_block_ptrs_invalidated(bad) ==
    LET known == NewlyKnown(Genesis, bad)
    IN  /\ all_known' = all_known \cup known
        /\ \E chains \in FindBests(anc, work, <<Genesis>>, Unblemished(Genesis, bad)) :
           \E r \in update_known(anc, work, chains, <<Genesis>>, known \ bad) :
               /\ longest_chains' = r.chains
               /\ longest_knowns' = r.knowns
        /\ preferred_chain' \in MostWorkDescendents'

(* remove_tx_from_hashes() hashes what is in each slot of the blocks it    *)
(* marks; a slot that holds nothing is a NULL transaction.                 *)
HasEmptySlot(S) == \E d \in S : contents[d] = "none"

publish_complaint(b) ==
    /\ contents[b] # "empty"
    /\ b \notin complaint
    /\ UNCHANGED <<tree, contents, resolving>>
    /\ \/ /\ HasEmptySlot(Blamed(b))
          /\ stopped' = "null_tx"
          /\ UNCHANGED <<ptrs, complaint>>
       \/ /\ ~HasEmptySlot(Blamed(b))
          /\ complaint' = complaint \cup Blamed(b)
          /\ update_block_ptrs_invalidated(complaint \cup Blamed(b))
          /\ stopped' = IF check_chains' THEN "running" ELSE "assertion"

-----------------------------------------------------------------------------
Idle == stopped = "running" /\ resolving = {}

Next ==
    \/ Idle /\ \E p \in Tree, w \in Works, c \in {"none", "empty"} : block_add(p, w, c)
    \/ Idle /\ \E b \in Tree : put_txhash_in_shard(b)
    \/ Idle /\ \E b \in Tree : put_tx_in_shard(b)
    \/ stopped = "running" /\ \E b \in resolving : update_block_ptrs_new_shard(b)
    \/ stopped = "running" /\ \E b \in Tree : publish_complaint(b)

Spec == Init /\ [][Next]_vars

-----------------------------------------------------------------------------
(* Properties *)

(* The shapes of the variables: every pointer is to a block of the tree,   *)
(* and a path of ->prev leads back to genesis through older blocks.        *)
TypeOK ==
    /\ n \in 0..MaxBlocks
    /\ prev \in [Tree -> Tree]
    /\ anc \in [Tree -> SUBSET Tree]
    /\ work \in [Tree -> Nat]
    /\ contents \in [Tree -> Contents]
    /\ all_known \subseteq Tree
    /\ complaint \subseteq Tree
    /\ longest_chains \in Seq(Tree) \ {<<>>}
    /\ longest_knowns \in Seq(Tree) \ {<<>>}
    /\ preferred_chain \in Tree
    /\ resolving \subseteq Tree
    /\ stopped \in {"running", "assertion", "null_tx"}

(* longest_chains holds exactly the blocks with the most work among all    *)
(* blocks without complaint ("Heads of overall longest chains", state.h),  *)
(* however blocks, contents and complaints arrived.                        *)
LongestChainsExact ==
    Range(longest_chains) = Heaviest(work, Tree \ complaint)

(* longest_knowns, where the node mines, holds exactly the most-work       *)
(* blocks among those without complaint whose contents and whose           *)
(* ancestors' contents are all here: no completed branch is overlooked, in *)
(* whatever order its blocks were filled.                                  *)
FullyKnown == {b \in Tree \ complaint : \A a \in anc[b] : block_all_known(contents[a])}

LongestKnownsExact ==
    resolving = {} => Range(longest_knowns) = Heaviest(work, FullyKnown)

(* The cached preferred_chain is never stale: it is a most-work descendent *)
(* without complaint of the block the node mines on (state.h).             *)
PreferredIsBest ==
    preferred_chain \in Heaviest(work, Desc(longest_knowns[1]) \ complaint)

(* A complaint about a block covers everything that descends from it, also *)
(* blocks that arrive afterwards (the check of check_block()).             *)
ComplaintInherited ==
    \A b \in Tree : anc[b] \cap complaint # {} => b \in complaint

(* If any longest known block precedes any longest chain, the first ones   *)
(* do ("we use the first one, which will be an ancestor of                 *)
(* longest_chains[0] if possible", state.h).                               *)
FirstPairConnected ==
    ConnectedPairs(anc, longest_chains, longest_knowns) # {} =>
        longest_knowns[1] \in anc[longest_chains[1]]

(* The block the node mines on gives way to another of the same work only  *)
(* when a complaint forces a recount, or when it leads to no longest chain *)
(* and the new one does: "first in, best dressed" (run-09-chain.c).        *)
HeadYields ==
    LET old == longest_knowns[1]
        new == longest_knowns'[1]
    IN  new # old => \/ work'[new] > work'[old]
                     \/ complaint' # complaint
                     \/ /\ new \in anc'[longest_chains'[1]]
                        /\ \A c \in Range(longest_chains') : old \notin anc'[c]

MiningHeadStable == [][HeadYields]_vars

(* block->all_known ("Do we know all transactions for this and ancestors?" *)
(* block.h) is never set too early, and it is set for every block without  *)
(* complaint it should be set for, but for what waits on the transaction   *)
(* being stored.                                                           *)
FlagsSound ==
    \A b \in all_known : anc[b] \subseteq all_known /\ block_all_known(contents[b])

FlagsComplete ==
    \A b \in FullyKnown : b \in all_known \/ anc[b] \cap resolving # {}

KnownFlagsExact == FlagsSound /\ FlagsComplete

(* What a node decides from between packets: a complaint about a block is  *)
(* about all that follows it, all_known is exact on every branch, and the  *)
(* first of the two arrays connect if any do (complaint_on_all(),          *)
(* set_all_known_recurse(), order_block_pointers()).                       *)
ChainsConsistent == ComplaintInherited /\ KnownFlagsExact /\ FirstPairConnected

(* Seen through their first entries, the arrays are a choice of heads as   *)
(* the rest of the node expects it, in every step of every handler, and    *)
(* whichever blocks of the same work they also hold.                       *)
Heads == INSTANCE HeadChoice WITH
            Root <- Genesis, blocks <- Tree, above <- anc, weight <- work, known <- all_known,
            bad <- complaint, head <- longest_knowns[1], tip <- preferred_chain
HeadsChosen == Heads!HeadSpec

(* No assertion of check_chains() or check_block() fails. *)
AssertionsHold == stopped # "assertion"

-----------------------------------------------------------------------------
(* The inductive invariant behind these properties. *)

(* The shape of the tree: ancestors form a chain from genesis, of ever     *)
(* older names and ever less work.                                         *)
GenesisOK ==
    /\ prev[Genesis] = Genesis
    /\ anc[Genesis] = {Genesis}
    /\ contents[Genesis] = "empty"
    /\ Genesis \in all_known \ complaint

ParentsOK ==
    \A b \in Tree \ {Genesis} : prev[b] < b /\ anc[b] = anc[prev[b]] \cup {b}

RootedOK == \A b \in Tree : b \in anc[b] /\ Genesis \in anc[b]

OlderOK ==
    \A b \in Tree : \A a \in anc[b] : a <= b /\ anc[a] \subseteq anc[b]

LighterOK ==
    \A b \in Tree : \A a \in anc[b] : a # b => work[a] < work[b]

LinearOK ==
    \A b \in Tree : \A a, e \in anc[b] : a \in anc[e] \/ e \in anc[a]

TreeOK == GenesisOK /\ ParentsOK /\ RootedOK /\ OlderOK /\ LighterOK /\ LinearOK

(* At all times the known blocks that count are those marked so far. *)
KnownsMarked == Range(longest_knowns) = Heaviest(work, all_known \ complaint)

ResolvingOne == \A r, s \in resolving : r = s

ChainInv ==
    /\ TypeOK
    /\ TreeOK
    /\ ComplaintInherited
    /\ KnownFlagsExact
    /\ ResolvingOne
    /\ LongestChainsExact
    /\ KnownsMarked
    /\ PreferredIsBest
    /\ FirstPairConnected
=============================================================================
