-------------------------------- MODULE Todo --------------------------------
(***************************************************************************)
(* What a node asks its peers: the list of requests of todo.c, and the     *)
(* part of peer.c that hands them out, counts them per peer and puts the   *)
(* writing side of a connection to sleep and awake.                        *)
(*                                                                         *)
(* A peer is named by its number (peer->peer_num), which is reused.  Its   *)
(* slot is "free", "greeting" (allocated, before the connection goes       *)
(* duplex), "live", "erring" (pkt_in() failed: the writer still has to     *)
(* send the error) or "closed".  A duplex connection that closes does not  *)
(* free its peer: close_reader() and close_writer() only clear the two     *)
(* pointers, and the number stays taken.                                   *)
(*                                                                         *)
(* The list keeps its order: ahead[r] is what stands before r in it.       *)
(***************************************************************************)
EXTENDS Integers, FiniteSets

CONSTANTS
    MAX_PEERS,     \* peer numbers
    MIN_PEERS,     \* fill_peers() connects until there are this many
    MAX_REQUESTS,  \* questions a peer is asked at once
    Requests,      \* requests that may be on the list
    Blocks,        \* blocks they are about
    BlockOf,       \* the block a request is about
    MaxPkts        \* bound: packets queued for one peer

ASSUME TodoAssumption ==
    /\ MAX_PEERS \in Nat \ {0}
    /\ MIN_PEERS \in Nat
    /\ MAX_REQUESTS \in Nat \ {0}
    /\ IsFiniteSet(Requests)
    /\ BlockOf \in [Requests -> Blocks]
    /\ MaxPkts \in Nat

VARIABLES
    todo,         \* requests on state->todo
    ahead,        \* the requests that stand before one on the list
    asked,        \* todo_request->peers_asked
    failed,       \* todo_request->peers_failed
    slot,         \* what each peer number stands for
    outstanding,  \* peer->requests_outstanding
    syncing,      \* peer->we_are_syncing
    pkts,         \* length of peer->todo
    asleep,       \* the writer is in io_wait(); else plan_output() is due
    wire,         \* requests sent to the peer it has not answered
    stopped       \* why the process ended, or "running"

list  == <<todo, ahead, asked, failed>>
peers == <<slot, outstanding, syncing, pkts, asleep, wire>>
vars  == <<list, peers, stopped>>

Peers == 0..(MAX_PEERS - 1)
Free  == {p \in Peers : slot[p] = "free"}

(* Peers whose packets will be sent.  A closed peer stays on state->peers  *)
(* and its queue grows unused; it is not counted.                          *)
Sending == {p \in Peers : slot[p] \in {"greeting", "live", "erring"}}

Init ==
    /\ todo = {}
    /\ ahead = [r \in Requests |-> {}]
    /\ asked = [r \in Requests |-> {}]
    /\ failed = [r \in Requests |-> {}]
    /\ slot = [p \in Peers |-> "free"]
    /\ outstanding = [p \in Peers |-> 0]
    /\ syncing = [p \in Peers |-> TRUE]
    /\ pkts = [p \in Peers |-> 0]
    /\ asleep = [p \in Peers |-> FALSE]
    /\ wire = [p \in Peers |-> {}]
    /\ stopped = "running"

-----------------------------------------------------------------------------
(* The list. *)

(* del leaves the list and add joins it at the end (add has one request at *)
(* most, and none of del).  A request off the list has no bits.            *)
ListChange(del, add) ==
    /\ todo' = (todo \ del) \cup add
    /\ ahead' = [r \in Requests |-> IF r \in add THEN todo \ del
                                    ELSE IF r \in del THEN {} ELSE ahead[r] \ del]
    /\ asked' = [r \in Requests |-> IF r \in del \cup add THEN {} ELSE asked[r]]

(* The peers that have been asked and have not failed. *)
Unanswered(r) == asked[r] \ failed[r]

(* Awake everyone: new_todo_request_() and wake_peers(). *)
wake_peers == asleep' = [p \in Peers |-> FALSE]

(* todo_for_peer(), for every peer of S. *)
Room(S) == \A p \in S : pkts[p] < MaxPkts
Queue(S) == pkts' = [p \in Peers |-> IF p \in S THEN pkts[p] + 1 ELSE pkts[p]]

(* new_todo_request_(): "We don't insert duplicates." *)
new_todo_request(r) ==
    /\ r \notin todo
    /\ ListChange({}, {r})
    /\ wake_peers
    /\ UNCHANGED <<failed, slot, outstanding, syncing, pkts, wire, stopped>>

(* Mutant: peers that failed are counted down a second time. *)
MutDeleteTodo(r) ==
    /\ outstanding' = [p \in Peers |-> IF p \in asked[r] THEN outstanding[p] - 1
                                       ELSE outstanding[p]]
    /\ failed' = [failed EXCEPT ![r] = {}]
    /\ stopped' = IF asked[r] \cap Free = {} THEN "running" ELSE "null_peer"

(* delete_todo(): every peer that still owed an answer owes one less.  The *)
(* counter is unsigned, and find_peer() of a free number is NULL.          *)
delete_todo(r) ==
    /\ outstanding' = [p \in Peers |-> IF p \in Unanswered(r) THEN outstanding[p] - 1
                                       ELSE outstanding[p]]
    /\ failed' = [failed EXCEPT ![r] = {}]
    /\ stopped' = IF Unanswered(r) \cap Free = {} THEN "running" ELSE "null_peer"

(* Mutant: a second failure of the same peer counts again. *)
MutFinishTodo(p, r, success) ==
    \/ /\ success /\ r \in todo
       /\ delete_todo(r)
    \/ /\ ~success /\ r \in todo /\ p \in asked[r]
       /\ failed' = [failed EXCEPT ![r] = @ \cup {p}]
       /\ outstanding' = [outstanding EXCEPT ![p] = @ - 1]
       /\ stopped' = IF outstanding[p] # 0 THEN "running" ELSE "assertion"
    \/ /\ r \notin todo \/ (~success /\ p \notin asked[r])
       /\ UNCHANGED <<failed, outstanding, stopped>>

(* finish_todo() for peer p: whoever answered, a success retires the       *)
(* request; a failure counts if p was asked and has not failed before.     *)
finish_todo(p, r, success) ==
    \/ /\ success /\ r \in todo
       /\ delete_todo(r)
    \/ /\ ~success /\ r \in todo /\ p \in Unanswered(r)
       /\ failed' = [failed EXCEPT ![r] = @ \cup {p}]
       /\ outstanding' = [outstanding EXCEPT ![p] = @ - 1]
       /\ stopped' = IF outstanding[p] # 0 THEN "running" ELSE "assertion"
    \/ /\ r \notin todo \/ (~success /\ p \notin Unanswered(r))
       /\ UNCHANGED <<failed, outstanding, stopped>>

(* A handler of pkt_in() that calls todo_done_...() for r and may call     *)
(* todo_add_...() for another request.  The packet answers what was asked  *)
(* of p (answers = {r}), or tells of r without being asked: a block it     *)
(* broadcasts, a block it says it does not know when asked for a shard.    *)
(* A packet that settles two requests is two steps; recv_children() calls  *)
(* todo_done_get_children() with false and then with true, which is a      *)
(* success.  Nothing wakes the writer of p unless a request is new.        *)
recv_reply(p, r, success, answers, new) ==
    LET del == IF success THEN {r} \cap todo ELSE {}
        add == new \ todo
    IN  /\ slot[p] = "live"
        /\ finish_todo(p, r, success)
        /\ ListChange(del, add)
        /\ wire' = [wire EXCEPT ![p] = @ \ answers]
        /\ IF add = {} THEN UNCHANGED asleep ELSE wake_peers
        /\ UNCHANGED <<slot, syncing, pkts>>

(* publish_complaint() as far as it touches this state: the requests about *)
(* the blocks S, which are invalid, leave the list                         *)
(* (todo_forget_about_block()), everyone is awoken, and the complaint is   *)
(* queued for every peer but the one it came from.                         *)
publish_complaint(S, to) ==
    /\ Room(to)
    /\ ListChange({r \in todo : BlockOf[r] \in S}, {})
    /\ failed' = [r \in Requests |-> IF BlockOf[r] \in S THEN {} ELSE failed[r]]
    /\ wake_peers
    /\ Queue(to)
    /\ UNCHANGED <<slot, outstanding, syncing, wire, stopped>>

-----------------------------------------------------------------------------
(* The peers. *)

(* alloc_peer() takes the lowest numbers for the peers S. *)
Allocate(S, freed) ==
    /\ S \subseteq freed
    /\ \A p \in S, q \in freed \ S : p < q
    /\ slot' = [p \in Peers |-> IF p \in S THEN "greeting"
                                ELSE IF p \in freed THEN "free" ELSE slot[p]]
    /\ outstanding' = [p \in Peers |-> IF p \in S THEN 0 ELSE outstanding[p]]
    /\ syncing' = [p \in Peers |-> IF p \in S THEN TRUE ELSE syncing[p]]
    /\ pkts' = [p \in Peers |-> IF p \in freed THEN 0 ELSE pkts[p]]
    /\ asleep' = [p \in Peers |-> IF p \in S THEN FALSE ELSE asleep[p]]
    /\ wire' = [p \in Peers |-> IF p \in S THEN {} ELSE wire[p]]

new_peer(p) ==
    /\ Allocate({p}, Free)
    /\ UNCHANGED <<list, stopped>>

(* The handshake ends: recv_sync_pkt() may ask for children, the           *)
(* connection goes duplex, and a GET_PEERS packet is queued.               *)
check_sync_or_horizon(p, new) ==
    LET add == new \ todo
    IN  /\ slot[p] = "greeting"
        /\ Room({p})
        /\ slot' = [slot EXCEPT ![p] = "live"]
        /\ ListChange({}, add)
        /\ Queue({p})
        /\ IF add = {} THEN asleep' = [asleep EXCEPT ![p] = FALSE] ELSE wake_peers
        /\ UNCHANGED <<failed, outstanding, syncing, wire, stopped>>

(* The connection ends before it is duplex: destroy_peer() frees the       *)
(* number, removes it from every bitmap (remove_peer_from_todo()), and     *)
(* fill_peers() may connect to others.                                     *)
destroy_peer(p, S) ==
    /\ slot[p] = "greeting"
    /\ asked' = [r \in Requests |-> asked[r] \ {p}]
    /\ failed' = [r \in Requests |-> failed[r] \ {p}]
    /\ Cardinality((Peers \ (Free \cup {p})) \cup S) <= MIN_PEERS \/ S = {}
    /\ Allocate(S, Free \cup {p})
    /\ UNCHANGED <<todo, ahead, stopped>>

(* Mutant: closing frees the number but leaves the bitmaps alone. *)
MutClosePeer(p) ==
    /\ slot[p] \in {"live", "erring"}
    /\ slot' = [slot EXCEPT ![p] = "free"]
    /\ pkts' = [pkts EXCEPT ![p] = 0]
    /\ wire' = [wire EXCEPT ![p] = {}]
    /\ UNCHANGED <<list, outstanding, syncing, asleep, stopped>>

(* A duplex connection ends: close_reader() and close_writer(). *)
close_peer(p) ==
    /\ slot[p] \in {"live", "erring"}
    /\ slot' = [slot EXCEPT ![p] = "closed"]
    /\ pkts' = [pkts EXCEPT ![p] = 0]
    /\ wire' = [wire EXCEPT ![p] = {}]
    /\ UNCHANGED <<list, outstanding, syncing, asleep, stopped>>

(* pkt_in() gets an error from a handler. *)
pkt_in_error(p) ==
    /\ slot[p] = "live"
    /\ slot' = [slot EXCEPT ![p] = "erring"]
    /\ asleep' = [asleep EXCEPT ![p] = FALSE]
    /\ UNCHANGED <<list, outstanding, syncing, pkts, wire, stopped>>

(* Mutant: the packet is queued without io_wake(). *)
MutTodoForPeer(p) ==
    /\ p \in Sending
    /\ Room({p})
    /\ Queue({p})
    /\ UNCHANGED <<list, slot, outstanding, syncing, asleep, wire, stopped>>

(* A reply of our own, or a block or transaction we pass on. *)
todo_for_peer(p) ==
    /\ p \in Sending
    /\ Room({p})
    /\ Queue({p})
    /\ asleep' = [asleep EXCEPT ![p] = FALSE]
    /\ UNCHANGED <<list, slot, outstanding, syncing, wire, stopped>>

-----------------------------------------------------------------------------
(* plan_output(): what the writer of p does next. *)

(* get_todo_pkt(): the first request on the list p has not been asked. *)
Unasked(p) == {r \in todo : p \notin asked[r]}

Askable(p) ==
    IF outstanding[p] >= MAX_REQUESTS THEN {}
    ELSE {r \in Unasked(p) : ahead[r] \cap Unasked(p) = {}}

send_error(p) ==
    /\ slot[p] = "erring"
    /\ slot' = [slot EXCEPT ![p] = "closed"]
    /\ pkts' = [pkts EXCEPT ![p] = 0]
    /\ wire' = [wire EXCEPT ![p] = {}]
    /\ UNCHANGED <<list, outstanding, syncing, asleep, stopped>>

send_pkt(p) ==
    /\ slot[p] = "live" /\ pkts[p] > 0
    /\ pkts' = [pkts EXCEPT ![p] = @ - 1]
    /\ UNCHANGED <<list, slot, outstanding, syncing, asleep, wire, stopped>>

send_request(p) ==
    /\ slot[p] = "live" /\ pkts[p] = 0
    /\ \E r \in Askable(p) :
          /\ asked' = [asked EXCEPT ![r] = @ \cup {p}]
          /\ wire' = [wire EXCEPT ![p] = @ \cup {r}]
    /\ outstanding' = [outstanding EXCEPT ![p] = @ + 1]
    /\ UNCHANGED <<todo, ahead, failed, slot, syncing, pkts, asleep, stopped>>

finish_syncing(p) ==
    /\ slot[p] = "live" /\ pkts[p] = 0 /\ Askable(p) = {}
    /\ syncing[p] /\ outstanding[p] = 0
    /\ syncing' = [syncing EXCEPT ![p] = FALSE]
    /\ UNCHANGED <<list, slot, outstanding, pkts, asleep, wire, stopped>>

await_responses(p) ==
    /\ slot[p] = "live" /\ pkts[p] = 0 /\ Askable(p) = {}
    /\ ~(syncing[p] /\ outstanding[p] = 0)
    /\ asleep' = [asleep EXCEPT ![p] = TRUE]
    /\ UNCHANGED <<list, slot, outstanding, syncing, pkts, wire, stopped>>

plan_output(p) ==
    /\ stopped = "running" /\ ~asleep[p]
    /\ \/ send_error(p) \/ send_pkt(p) \/ send_request(p)
       \/ finish_syncing(p) \/ await_responses(p)

-----------------------------------------------------------------------------
(* At most one new request comes with a packet. *)
News(r) == {{}} \cup {{x} : x \in Requests \ {r}}

Handler ==
    \/ \E r \in Requests : new_todo_request(r)
    \/ \E p \in Peers, r \in Requests, success \in BOOLEAN :
          \E answers \in {{}, {r}}, new \in News(r) : recv_reply(p, r, success, answers, new)
    \/ \E S \in SUBSET Blocks, to \in SUBSET Sending :
          /\ S # {} /\ Cardinality(Sending \ to) <= 1
          /\ publish_complaint(S, to)
    \/ \E p \in Peers : new_peer(p)
    \/ \E p \in Peers : \E new \in {{}} \cup {{x} : x \in Requests} : check_sync_or_horizon(p, new)
    \/ \E p \in Peers, S \in SUBSET Peers : destroy_peer(p, S)
    \/ \E p \in Peers : close_peer(p)
    \/ \E p \in Peers : pkt_in_error(p)
    \/ \E p \in Peers : todo_for_peer(p)

Next ==
    \/ stopped = "running" /\ Handler
    \/ \E p \in Peers : plan_output(p)

(* Every connection whose writer is not asleep gets to write. *)
SafetySpec == Init /\ [][Next]_vars

Spec == SafetySpec /\ \A p \in Peers : WF_vars(plan_output(p))

-----------------------------------------------------------------------------
(* Properties *)

(* The shapes of the variables.  A peer's counter never wraps below zero   *)
(* and never passes MAX_REQUESTS.                                          *)
TypeOK ==
    /\ todo \subseteq Requests
    /\ ahead \in [Requests -> SUBSET Requests]
    /\ asked \in [Requests -> SUBSET Peers]
    /\ failed \in [Requests -> SUBSET Peers]
    /\ slot \in [Peers -> {"free", "greeting", "live", "erring", "closed"}]
    /\ outstanding \in [Peers -> 0..MAX_REQUESTS]
    /\ syncing \in [Peers -> BOOLEAN]
    /\ pkts \in [Peers -> 0..MaxPkts]
    /\ asleep \in [Peers -> BOOLEAN]
    /\ wire \in [Peers -> SUBSET Requests]
    /\ stopped \in {"running", "assertion", "null_peer"}

(* A peer's counter covers every answer the list still expects from it,    *)
(* whoever answers first, fails, or is asked again.                        *)
Owes(p) == {r \in todo : p \in Unanswered(r)}

OutstandingCovers == \A p \in Peers : Cardinality(Owes(p)) <= outstanding[p]

(* No number that is free, or whose peer has not been asked anything yet,  *)
(* is in a bitmap: "If a later peer gets the same number, don't get        *)
(* confused!" (todo.c).                                                    *)
NumbersNotConfused ==
    \A r \in Requests : \A p \in asked[r] : slot[p] \in {"live", "erring", "closed"}

(* assert(peer->requests_outstanding) never fails in finish_todo(), and    *)
(* delete_todo() never looks up a peer that is gone.                       *)
NeverStops == stopped = "running"

(* No request is passed over: if a peer has been asked one, it has been    *)
(* asked everything that stands before it on the list.                     *)
AskedInOrder ==
    \A r \in todo, p \in Peers : p \in asked[r] => \A x \in ahead[r] : p \in asked[x]

(* However peers answer, the list is served without an assertion failing,  *)
(* in its order, and no peer is asked more than MAX_REQUESTS things at a   *)
(* time (finish_todo(), get_todo_pkt()).                                   *)
RequestsSound ==
    NeverStops /\ AskedInOrder /\ \A p \in Peers : outstanding[p] <= MAX_REQUESTS

(* A packet queued for a peer is sent, unless the connection ends: no      *)
(* wake-up is lost between todo_for_peer() and plan_output().              *)
QueuedSent ==
    \A p \in Peers : (slot[p] = "live" /\ pkts[p] > 0) ~> (pkts[p] = 0)

-----------------------------------------------------------------------------
(* The inductive invariant behind the safety properties. *)

(* A request off the list has no bits, and only requests on the list stand *)
(* before another.                                                         *)
ListOK ==
    /\ \A r \in Requests \ todo : ahead[r] = {} /\ asked[r] = {} /\ failed[r] = {}
    /\ \A r \in Requests : ahead[r] \subseteq todo \ {r}

TodoInv ==
    /\ TypeOK
    /\ ListOK
    /\ NumbersNotConfused
    /\ OutstandingCovers
    /\ AskedInOrder
    /\ NeverStops
=============================================================================
