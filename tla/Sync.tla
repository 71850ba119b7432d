-------------------------------- MODULE Sync --------------------------------
(***************************************************************************)
(* Two nodes bring their trees of blocks together (sync.c, recv_block() of *)
(* recv_block.c, the block packets of peer.c).  Each sends a SYNC packet   *)
(* about the blocks from the last common one back to genesis, asks for     *)
(* children where the other counts more of them, and for the blocks it     *)
(* does not know.  Each has one peer, so a request is waiting, asked or    *)
(* failed; how requests are kept for several peers is the module Todo.     *)
(***************************************************************************)
EXTENDS Integers, Sequences, FiniteSets

CONSTANTS
    SyncNodes,  \* the two nodes
    Tree,       \* all blocks there are
    Parent,     \* Parent[b]: b->prev; genesis is its own
    Genesis,
    MaxCount,   \* depth at which num_children() gives up: 100
    Dense       \* blocks of a welcome before it doubles its steps: 10

SyncAssumption ==
    /\ IsFiniteSet(SyncNodes) /\ Cardinality(SyncNodes) = 2
    /\ IsFiniteSet(Tree)
    /\ Parent \in [Tree -> Tree] /\ Genesis \in Tree /\ Parent[Genesis] = Genesis
    /\ \A S \in SUBSET Tree : S # {} /\ (\A b \in S : Parent[b] \in S) => Genesis \in S
    /\ MaxCount \in Nat /\ Dense \in Nat \ {0}

VARIABLES
    have,       \* have[n]: the blocks n knows
    waiting,    \* waiting[n]: requests not sent yet
    asked,      \* asked[n]: requests sent
    failed,     \* failed[n]: requests the peer could not answer
    net,        \* net[n]: packets on their way to n
    weSync,     \* weSync[n]: n's peer->we_are_syncing
    theySync,   \* theySync[n]: n's peer->they_are_syncing
    first,      \* first[n]: first entries of the CHILDREN packets n got
    early       \* a block came from elsewhere before the two had finished

syncVars == <<have, waiting, asked, failed, net, weSync, theySync, first, early>>

Other(n) == CHOOSE m \in SyncNodes : m # n

Depth == [b \in Tree |->
    LET up[k \in 0 .. Cardinality(Tree)] == IF k = 0 THEN b ELSE Parent[up[k - 1]]
    IN  CHOOSE d \in 0 .. Cardinality(Tree) :
            up[d] = Genesis /\ \A k \in 0 .. d - 1 : up[k] # Genesis]
AtDepth(b, d) ==
    LET up[k \in 0 .. Depth[b]] == IF k = 0 THEN b ELSE Parent[up[k - 1]]
    IN  up[Depth[b] - d]
block_preceeds(a, b) == Depth[a] <= Depth[b] /\ AtDepth(b, Depth[a]) = a
Path(b) == {AtDepth(b, d) : d \in 0 .. Depth[b]}

(* The blocks of K below b, without what is below `except'; PROTOCOL_PKT_  *)
(* CHILDREN_SOME, larger than any count, if some are MaxCount deep.        *)
num_children(K, b, except) ==
    LET S == {c \in K : c # b /\ block_preceeds(b, c)
                         /\ \A e \in except : ~block_preceeds(e, c)}
    IN  IF \E c \in S : Depth[c] - Depth[b] >= MaxCount
        THEN Cardinality(Tree) + 1 ELSE Cardinality(S)

(* The first fork on a path from `from' to b. *)
TowardsBlock(from, b) ==
    IF from # b /\ block_preceeds(from, b) THEN {AtDepth(b, Depth[from] + 1)} ELSE {}

(* How far below the head the k-th block of a welcome is. *)
StepTo ==
    LET f[k \in 1 .. Cardinality(Tree) + 1] ==
            IF k = 1 THEN 0
            ELSE f[k - 1] + IF k - 1 < Dense THEN 1 ELSE 2 ^ (k - Dense)
    IN  f

(* add_welcome_blocks(): ever larger steps back, and always genesis. *)
add_welcome_blocks(head) ==
    {AtDepth(head, Depth[head] - StepTo[k]) :
        k \in {k \in DOMAIN StepTo : StepTo[k] <= Depth[head]}} \cup {Genesis}

(* mutual_block_search() finds the first block of the list that K has. *)
mutual_block_search(K, head) ==
    LET S == add_welcome_blocks(head) \cap K
    IN  CHOOSE b \in S : \A c \in S : Depth[c] <= Depth[b]

(* sync_pkt(): each block from the mutual one to genesis with the number   *)
(* of blocks below it, other than the ones on this path.                   *)
sync_pkt(K, mutual) ==
    [type |-> "SYNC",
     blocks |-> {<<b, num_children(K, b, TowardsBlock(b, mutual))>> : b \in Path(mutual)}]

Deepest(K) == {b \in K : \A c \in K : Depth[c] <= Depth[b]}

(* Both welcomes have been exchanged and each has written its SYNC. *)
SyncInit ==
    \E K \in [SyncNodes -> {S \in SUBSET Tree : Genesis \in S /\ \A b \in S : Parent[b] \in S}] :
        /\ have = K
        /\ waiting = [n \in SyncNodes |-> {}]
        /\ asked = waiting /\ failed = waiting /\ first = waiting
        /\ \E H \in [SyncNodes -> Tree] :
              /\ \A n \in SyncNodes : H[n] \in Deepest(K[n])
              /\ net = [n \in SyncNodes |->
                    <<sync_pkt(K[Other(n)], mutual_block_search(K[Other(n)], H[n]))>>]
        /\ weSync = [n \in SyncNodes |-> TRUE] /\ theySync = weSync
        /\ early = FALSE

-----------------------------------------------------------------------------
(* Packets to the other node; a packet is consumed as the next is sent. *)
Deliver(n, out) == net' = [net EXCEPT ![n] = Tail(@), ![Other(n)] = @ \o out]
Incoming(n, type) == net[n] # <<>> /\ Head(net[n]).type = type

(* new_todo_request() does nothing for a request that is there already. *)
Pending(n) == waiting[n] \cup asked[n] \cup failed[n]
Add(n, R) == waiting' = [waiting EXCEPT ![n] = @ \cup (R \ Pending(n))]
(* The same after the request `done' has been answered. *)
AddDone(n, R, done) ==
    /\ waiting' = [waiting EXCEPT ![n] = (@ \ {done}) \cup (R \ (Pending(n) \ {done}))]
    /\ asked' = [asked EXCEPT ![n] = @ \ {done}]
    /\ failed' = [failed EXCEPT ![n] = @ \ {done}]

GetChildren(b) == <<"GET_CHILDREN", b>>
GetBlock(b) == <<"GET_BLOCK", b>>

(* Mutant: the count of the peer is compared the wrong way round. *)
MutRecvSync(n) ==
    /\ Incoming(n, "SYNC")
    /\ Add(n, {GetChildren(e[1]) : e \in
            {e \in Head(net[n]).blocks : e[1] \in have[n] /\ num_children(have[n], e[1], {}) > e[2]}})
    /\ Deliver(n, <<>>)
    /\ UNCHANGED <<have, asked, failed, weSync, theySync, first, early>>

(* recv_sync_pkt(): asks for children where the peer counts more than we   *)
(* do.  We count all of them: `prev' is never set.  An unknown block ends  *)
(* the connection; there is none, as the mutual block was ours.            *)
recv_sync_pkt(n) ==
    /\ Incoming(n, "SYNC")
    /\ Add(n, {GetChildren(e[1]) : e \in
            {e \in Head(net[n]).blocks : num_children(have[n], e[1], {}) < e[2]}})
    /\ Deliver(n, <<>>)
    /\ UNCHANGED <<have, asked, failed, weSync, theySync, first, early>>

(* get_todo_pkt() sends a request. *)
send_todo_pkt(n, r) ==
    /\ waiting' = [waiting EXCEPT ![n] = @ \ {r}]
    /\ asked' = [asked EXCEPT ![n] = @ \cup {r}]
    /\ net' = [net EXCEPT ![Other(n)] = Append(@, [type |-> r[1], block |-> r[2]])]
    /\ UNCHANGED <<have, failed, weSync, theySync, first, early>>

(* The entries of a CHILDREN packet are in the order the children came in, *)
(* which is left open.                                                     *)
Orders(S) == {f \in [1 .. Cardinality(S) -> S] : \A i, j \in DOMAIN f : i # j => f[i] # f[j]}

recv_get_children(n) ==
    /\ Incoming(n, "GET_CHILDREN")
    /\ LET b == Head(net[n]).block
       IN  \E s \in Orders({c \in have[n] \ {Genesis} : Parent[c] = b}) :
             Deliver(n, <<[type |-> "CHILDREN", block |-> b,
                list |-> [i \in DOMAIN s |-> <<s[i], num_children(have[n], s[i], {})>>]]>>)
    /\ UNCHANGED <<have, waiting, asked, failed, weSync, theySync, first, early>>

(* Mutant: the request is marked answered before the entries are read. *)
MutRecvChildren(n) ==
    /\ Incoming(n, "CHILDREN")
    /\ LET p == Head(net[n])
       IN  AddDone(n, {}, GetChildren(p.block)) /\ first' = [first EXCEPT ![n] = @ \cup
                IF p.list = <<>> THEN {} ELSE {p.list[1][1]}]
    /\ Deliver(n, <<>>)
    /\ UNCHANGED <<have, weSync, theySync, early>>

(* recv_children(): every entry is looked up as the first one ("&s->block"), *)
(* the count is the entry's own.  A peer that does not know the block is     *)
(* marked as failed, and then as having answered.                            *)
recv_children(n) ==
    /\ Incoming(n, "CHILDREN")
    /\ LET p == Head(net[n])
           b == p.list[1][1]
           more == \E i \in DOMAIN p.list : num_children(have[n], b, {}) < p.list[i][2]
           R == IF p.list = <<>> THEN {}
                ELSE IF b \notin have[n] THEN {GetBlock(b)}
                ELSE IF more THEN {GetChildren(b)} ELSE {}
       IN  /\ AddDone(n, R, GetChildren(p.block))
           /\ first' = [first EXCEPT ![n] = @ \cup IF p.list = <<>> THEN {} ELSE {b}]
    /\ Deliver(n, <<>>)
    /\ UNCHANGED <<have, weSync, theySync, early>>

(* What is asked for was announced by the one peer there is, so it knows   *)
(* the block; a node that does not is in the module Todo.                  *)
recv_get_block(n) ==
    /\ Incoming(n, "GET_BLOCK")
    /\ LET b == Head(net[n]).block
       IN  Deliver(n, <<[type |-> "BLOCK", block |-> b]>>)
    /\ UNCHANGED <<have, waiting, asked, failed, weSync, theySync, first, early>>

(* recv_block(): a new block is added; while syncing its children are      *)
(* asked for.  (A second peer would be sent the block otherwise; the one   *)
(* it came from is not.)  A block whose predecessor is not known is        *)
(* dropped, and the predecessor asked for if it took some work.            *)
recv_block_from_peer(n) ==
    LET b == Head(net[n]).block
        fresh == b \notin have[n] /\ Parent[b] \in have[n]
    IN  /\ Incoming(n, "BLOCK")
        /\ have' = [have EXCEPT ![n] = IF fresh THEN @ \cup {b} ELSE @]
        /\ IF fresh
           THEN AddDone(n, IF weSync[n] THEN {GetChildren(b)} ELSE {}, GetBlock(b))
           ELSE IF b \in have[n] THEN AddDone(n, {}, GetBlock(b))
           ELSE \E R \in {{}, {GetBlock(Parent[b])}} : AddDone(n, R, GetBlock(b))
        /\ Deliver(n, <<>>)
        /\ UNCHANGED <<weSync, theySync, first, early>>

(* plan_output() with nothing left to ask: SET_FILTER is sent. *)
finish_syncing(n) ==
    /\ weSync[n] /\ Incoming(n, "SYNC") = FALSE
    /\ waiting[n] = {} /\ asked[n] = {}
    /\ \A i \in DOMAIN net[n] : net[n][i].type # "SYNC"
    /\ weSync' = [weSync EXCEPT ![n] = FALSE]
    /\ net' = [net EXCEPT ![Other(n)] = Append(@, [type |-> "SET_FILTER"])]
    /\ UNCHANGED <<have, waiting, asked, failed, theySync, first, early>>

recv_filter(n) ==
    /\ Incoming(n, "SET_FILTER")
    /\ theySync' = [theySync EXCEPT ![n] = FALSE]
    /\ Deliver(n, <<>>)
    /\ UNCHANGED <<have, waiting, asked, failed, weSync, first, early>>

(* n finds a block, or gets it from elsewhere: send_block_to_peers() skips *)
(* a peer that is still syncing.                                           *)
send_block_to_peers(n, b) ==
    /\ b \notin have[n] /\ Parent[b] \in have[n]
    /\ have' = [have EXCEPT ![n] = @ \cup {b}]
    /\ early' = (early \/ weSync[n] \/ theySync[n])
    /\ net' = IF theySync[n] THEN net
              ELSE [net EXCEPT ![Other(n)] = Append(@, [type |-> "BLOCK", block |-> b])]
    /\ UNCHANGED <<waiting, asked, failed, weSync, theySync, first>>

SyncNext ==
    \E n \in SyncNodes :
        \/ recv_sync_pkt(n) \/ recv_get_children(n) \/ recv_children(n)
        \/ recv_get_block(n) \/ recv_block_from_peer(n)
        \/ recv_filter(n) \/ finish_syncing(n)
        \/ \E r \in waiting[n] : send_todo_pkt(n, r)
        \/ \E b \in Tree : send_block_to_peers(n, b)

SyncSpec == SyncInit /\ [][SyncNext]_syncVars

-----------------------------------------------------------------------------
(* Properties *)

Quiet == \A n \in SyncNodes : net[n] = <<>> /\ waiting[n] = {} /\ asked[n] = {}
IsChain(K) == \E h \in K : K = Path(h)

(* When a node that knows part of its peer's chain has stopped syncing it  *)
(* has the whole chain, and it gets what the peer finds later, as long as  *)
(* neither got a block from elsewhere before: such a block is not sent     *)
(* ("Don't send block to peers still starting up"), and its children are   *)
(* not asked for.                                                          *)
WholeChainSynced ==
    \A n \in SyncNodes :
        (Quiet /\ ~weSync[n] /\ ~early
            /\ IsChain(have[Other(n)]) /\ have[n] \subseteq have[Other(n)])
        => have[n] = have[Other(n)]

(* The first block of every CHILDREN packet is found in the end. *)
FirstChildrenFound == Quiet => \A n \in SyncNodes : first[n] \subseteq have[n]

(* Two nodes that have finished with each other have what sync.c can tell  *)
(* them of: the whole of a chain, and of a fork at least the first branch  *)
(* that recv_children() is told of.                                        *)
ChainsSync == WholeChainSynced /\ FirstChildrenFound
=============================================================================
