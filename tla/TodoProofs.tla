----------------------------- MODULE TodoProofs -----------------------------
(***************************************************************************)
(* The safety properties of Todo, for every number of peers, requests and  *)
(* questions at once.  TodoInv is inductive: the counter of a peer covers  *)
(* what the list expects of it, which needs the bitmaps of requests off    *)
(* the list and of numbers not in use to be clear.                         *)
(***************************************************************************)
EXTENDS Todo, TLAPS, FiniteSetTheorems

USE TodoAssumption

-----------------------------------------------------------------------------
(* Counting. *)

(* Fewer answers owed are covered by the same counter. *)
LEMMA CountLess ==
    ASSUME NEW S \in SUBSET Requests, NEW T \in SUBSET S,
           NEW k \in Int, Cardinality(S) <= k
    PROVE  Cardinality(T) <= k
<1>1. IsFiniteSet(S)
  BY FS_Subset
<1>2. IsFiniteSet(T) /\ Cardinality(T) <= Cardinality(S)
  BY <1>1, FS_Subset
<1>3. Cardinality(S) \in Nat /\ Cardinality(T) \in Nat
  BY <1>1, <1>2, FS_CardinalityType
<1> QED
  BY <1>2, <1>3

(* One answer less owed is covered by a counter that is one less. *)
LEMMA CountOneLess ==
    ASSUME NEW S \in SUBSET Requests, NEW r \in S, NEW T \in SUBSET (S \ {r}),
           NEW k \in Int, Cardinality(S) <= k
    PROVE  Cardinality(T) <= k - 1 /\ 1 <= k
<1>1. IsFiniteSet(S)
  BY FS_Subset
<1>2. IsFiniteSet(S \ {r}) /\ Cardinality(S \ {r}) = Cardinality(S) - 1
  BY <1>1, FS_RemoveElement
<1>3. Cardinality(S) \in Nat /\ Cardinality(S \ {r}) \in Nat
  BY <1>1, <1>2, FS_CardinalityType
<1>4. Cardinality(S \ {r}) <= k - 1
  BY <1>2, <1>3
<1>5. S \ {r} \in SUBSET Requests /\ k - 1 \in Int
  OBVIOUS
<1>6. Cardinality(T) <= k - 1
  BY <1>4, <1>5, CountLess
<1> QED
  BY <1>2, <1>3, <1>6

(* One answer more owed is covered by a counter that is one more. *)
LEMMA CountOneMore ==
    ASSUME NEW S \in SUBSET Requests, NEW r \in Requests, NEW T \in SUBSET (S \cup {r}),
           NEW k \in Int, Cardinality(S) <= k
    PROVE  Cardinality(T) <= k + 1
<1>1. IsFiniteSet(S)
  BY FS_Subset
<1>2. Cardinality(S) \in Nat
  BY <1>1, FS_CardinalityType
<1>2a. Cardinality(S \cup {r}) = IF r \in S THEN Cardinality(S) ELSE Cardinality(S) + 1
  BY <1>1, FS_AddElement
<1>3. Cardinality(S \cup {r}) <= k + 1
  BY <1>2, <1>2a
<1>4. S \cup {r} \in SUBSET Requests /\ k + 1 \in Int
  OBVIOUS
<1> QED
  BY <1>3, <1>4, CountLess

(* A peer that owes nothing is covered by any counter. *)
LEMMA CountNone ==
    ASSUME NEW k \in Nat
    PROVE  Cardinality({}) <= k
BY FS_EmptySet

-----------------------------------------------------------------------------
(* The list.  Adding and removing requests keeps it well formed; the       *)
(* bitmaps of the requests that stay are not touched.                      *)
ListKept(del, add) ==
    /\ todo' \subseteq Requests
    /\ ahead' \in [Requests -> SUBSET Requests]
    /\ asked' \in [Requests -> SUBSET Peers]
    /\ \A r \in Requests : ahead'[r] \subseteq todo' \ {r}
    /\ \A r \in Requests \ todo' : ahead'[r] = {} /\ asked'[r] = {}
    /\ \A r \in Requests : asked'[r] \subseteq asked[r]
    /\ \A r \in del \cup add : asked'[r] = {}
    /\ AskedInOrder'

LEMMA ListChanges ==
    ASSUME TodoInv, NEW del, NEW add,
           \A x \in del : x \in todo,
           \A x \in add : x \in Requests /\ x \notin todo,
           ListChange(del, add)
    PROVE  ListKept(del, add)
<1>1. TypeOK /\ ListOK /\ AskedInOrder
  BY DEF TodoInv
<1>2. todo' \subseteq Requests
  BY <1>1 DEF ListChange, TypeOK
<1>3. ahead' \in [Requests -> SUBSET Requests] /\ asked' \in [Requests -> SUBSET Peers]
  BY <1>1 DEF ListChange, TypeOK
<1>4. \A r \in Requests : ahead'[r] \subseteq todo' \ {r}
  BY <1>1 DEF ListChange, TypeOK, ListOK
<1>5. \A r \in Requests \ todo' : ahead'[r] = {} /\ asked'[r] = {}
  BY <1>1 DEF ListChange, TypeOK, ListOK
<1>6. \A r \in Requests : asked'[r] \subseteq asked[r]
  BY <1>1 DEF ListChange, TypeOK
<1>7. \A r \in del \cup add : asked'[r] = {}
  BY <1>1 DEF ListChange, TypeOK
<1>8. AskedInOrder'
  <2> SUFFICES ASSUME NEW r \in todo', NEW p \in Peers, p \in asked'[r], NEW x \in ahead'[r]
               PROVE  p \in asked'[x]
    BY DEF AskedInOrder
  <2>1. r \in todo /\ r \notin del /\ r \notin add /\ r \in Requests
    BY <1>1, <1>2, <1>7 DEF ListChange
  <2>2. ahead'[r] = ahead[r] \ del /\ p \in asked[r]
    BY <2>1 DEF ListChange
  <2>3. x \in ahead[r] /\ x \notin del /\ x \in todo /\ x \in Requests
    BY <1>1, <2>1, <2>2 DEF ListOK, TypeOK
  <2>4. p \in asked[x]
    BY <1>1, <2>1, <2>2, <2>3 DEF AskedInOrder
  <2>5. asked'[x] = asked[x]
    BY <2>3 DEF ListChange
  <2> QED
    BY <2>4, <2>5
<1> QED
  BY <1>2, <1>3, <1>4, <1>5, <1>6, <1>7, <1>8 DEF ListKept

(* Who owed an answer still does, when the request stays and the peer has  *)
(* not failed.                                                             *)
LEMMA OwesLess ==
    ASSUME TodoInv, NEW del, NEW add, ListKept(del, add),
           todo' = (todo \ del) \cup add,
           \A r \in Requests \ del : failed[r] \subseteq failed'[r]
    PROVE  \A q \in Peers : Owes(q)' \subseteq Owes(q) \ del
<1> SUFFICES ASSUME NEW q \in Peers, NEW x \in Owes(q)'
             PROVE  x \in Owes(q) /\ x \notin del
  OBVIOUS
<1>1. x \in todo' /\ q \in asked'[x] /\ q \notin failed'[x]
  BY DEF Owes, Unanswered
<1>2. x \in Requests /\ x \notin del /\ x \notin add
  BY <1>1 DEF ListKept
<1>3. x \in todo /\ q \in asked[x]
  BY <1>1, <1>2 DEF ListKept
<1>4. q \notin failed[x]
  BY <1>1, <1>2
<1> QED
  BY <1>2, <1>3, <1>4 DEF Owes, Unanswered

(* An unchanged counter covers it. *)
LEMMA StillCovers ==
    ASSUME TodoInv, NEW q \in Peers, Owes(q)' \subseteq Owes(q),
           outstanding'[q] = outstanding[q]
    PROVE  Cardinality(Owes(q)') <= outstanding'[q]
<1>1. Owes(q) \in SUBSET Requests /\ outstanding[q] \in Int
  BY DEF TodoInv, TypeOK, Owes
<1>2. Cardinality(Owes(q)) <= outstanding[q]
  BY DEF TodoInv, OutstandingCovers
<1> DEFINE S == Owes(q)
           T == Owes(q)'
           k == outstanding[q]
<1>3. S \in SUBSET Requests /\ T \in SUBSET S /\ k \in Int /\ Cardinality(S) <= k
  BY <1>1, <1>2
<1> HIDE DEF S, T, k
<1>4. Cardinality(T) <= k
  BY <1>3, CountLess
<1> QED
  BY <1>4 DEF T, k

(* So does one that is one less, once the peer is off one request. *)
LEMMA CoversOneLess ==
    ASSUME TodoInv, NEW q \in Peers, NEW r \in Owes(q), Owes(q)' \subseteq Owes(q) \ {r},
           outstanding'[q] = outstanding[q] - 1
    PROVE  Cardinality(Owes(q)') <= outstanding'[q] /\ 1 <= outstanding[q]
<1>1. Owes(q) \in SUBSET Requests /\ outstanding[q] \in Int
  BY DEF TodoInv, TypeOK, Owes
<1>2. Cardinality(Owes(q)) <= outstanding[q]
  BY DEF TodoInv, OutstandingCovers
<1> DEFINE S == Owes(q)
           T == Owes(q)'
           k == outstanding[q]
<1>3. /\ S \in SUBSET Requests /\ T \in SUBSET (S \ {r}) /\ k \in Int
      /\ Cardinality(S) <= k /\ r \in S
  BY <1>1, <1>2
<1> HIDE DEF S, T, k
<1>4. Cardinality(T) <= k - 1 /\ 1 <= k
  BY <1>3, CountOneLess
<1> QED
  BY <1>4 DEF T, k

-----------------------------------------------------------------------------
(* The invariant, one lemma per action. *)

LEMMA InitInv == Init => TodoInv
<1> SUFFICES ASSUME Init PROVE TodoInv
  OBVIOUS
<1>1. TypeOK
  BY DEF Init, TypeOK
<1>2. ListOK /\ NumbersNotConfused /\ AskedInOrder /\ NeverStops
  BY DEF Init, ListOK, NumbersNotConfused, AskedInOrder, NeverStops
<1>3. OutstandingCovers
  <2> SUFFICES ASSUME NEW p \in Peers PROVE Cardinality(Owes(p)) <= outstanding[p]
    BY DEF OutstandingCovers
  <2>1. Owes(p) = {} /\ outstanding[p] = 0
    BY DEF Init, Owes
  <2> QED
    BY <2>1, CountNone
<1> QED
  BY <1>1, <1>2, <1>3 DEF TodoInv

(* An action that leaves the list and the counters alone keeps the         *)
(* invariant if it frees no number that is in use.                         *)
LEMMA PeersOnly ==
    ASSUME TodoInv, UNCHANGED list, UNCHANGED outstanding, UNCHANGED stopped, TypeOK',
           \A p \in Peers : slot[p] \in {"live", "erring", "closed"}
                                => slot'[p] \in {"live", "erring", "closed"}
    PROVE  TodoInv'
<1>1. UNCHANGED <<todo, ahead, asked, failed>>
  BY DEF list
<1>2. ListOK' /\ AskedInOrder' /\ NeverStops'
  BY <1>1 DEF TodoInv, ListOK, AskedInOrder, NeverStops
<1>3. NumbersNotConfused'
  BY <1>1 DEF TodoInv, NumbersNotConfused, TypeOK
<1>4. OutstandingCovers'
  BY <1>1 DEF TodoInv, OutstandingCovers, Owes, Unanswered
<1> QED
  BY <1>2, <1>3, <1>4 DEF TodoInv

LEMMA QuietInv ==
    ASSUME TodoInv, NEW p \in Peers,
           \/ close_peer(p) \/ pkt_in_error(p) \/ todo_for_peer(p)
           \/ send_error(p) \/ send_pkt(p) \/ finish_syncing(p) \/ await_responses(p)
    PROVE  TodoInv'
<1>1. TypeOK
  BY DEF TodoInv
<1>2. CASE close_peer(p)
  <2>1. TypeOK'
    BY <1>1, <1>2 DEF close_peer, TypeOK, list
  <2> QED
    BY <1>1, <1>2, <2>1, PeersOnly DEF close_peer, TypeOK
<1>3. CASE pkt_in_error(p)
  <2>1. TypeOK'
    BY <1>1, <1>3 DEF pkt_in_error, TypeOK, list
  <2> QED
    BY <1>1, <1>3, <2>1, PeersOnly DEF pkt_in_error, TypeOK
<1>4. CASE todo_for_peer(p)
  <2>1. TypeOK'
    BY <1>1, <1>4 DEF todo_for_peer, TypeOK, list, Room, Queue
  <2> QED
    BY <1>1, <1>4, <2>1, PeersOnly DEF todo_for_peer, TypeOK
<1>5. CASE send_error(p)
  <2>1. TypeOK'
    BY <1>1, <1>5 DEF send_error, TypeOK, list
  <2> QED
    BY <1>1, <1>5, <2>1, PeersOnly DEF send_error, TypeOK
<1>6. CASE send_pkt(p)
  <2>1. TypeOK'
    BY <1>1, <1>6 DEF send_pkt, TypeOK, list
  <2> QED
    BY <1>1, <1>6, <2>1, PeersOnly DEF send_pkt, TypeOK
<1>7. CASE finish_syncing(p)
  <2>1. TypeOK'
    BY <1>1, <1>7 DEF finish_syncing, TypeOK, list
  <2> QED
    BY <1>1, <1>7, <2>1, PeersOnly DEF finish_syncing, TypeOK
<1>8. CASE await_responses(p)
  <2>1. TypeOK'
    BY <1>1, <1>8 DEF await_responses, TypeOK, list
  <2> QED
    BY <1>1, <1>8, <2>1, PeersOnly DEF await_responses, TypeOK
<1> QED
  BY <1>2, <1>3, <1>4, <1>5, <1>6, <1>7, <1>8

(* plan_output() asks the first request the peer has not been asked: what  *)
(* stands before it has been asked already, and its counter has room.      *)
LEMMA SendRequestInv ==
    ASSUME TodoInv, NEW p \in Peers, send_request(p)
    PROVE  TodoInv'
<1>1. TypeOK /\ ListOK /\ NumbersNotConfused /\ OutstandingCovers /\ AskedInOrder /\ NeverStops
  BY DEF TodoInv
<1>2. PICK r \in Askable(p) :
          /\ asked' = [asked EXCEPT ![r] = @ \cup {p}]
          /\ wire' = [wire EXCEPT ![p] = @ \cup {r}]
  BY DEF send_request
<1>3. /\ outstanding' = [outstanding EXCEPT ![p] = @ + 1]
      /\ UNCHANGED <<todo, ahead, failed, slot, syncing, pkts, asleep, stopped>>
      /\ slot[p] = "live"
  BY DEF send_request
<1>4. /\ outstanding[p] < MAX_REQUESTS
      /\ r \in todo /\ r \in Requests /\ p \notin asked[r]
      /\ \A x \in ahead[r] : x \notin Unasked(p)
  BY <1>1, <1>2 DEF Askable, Unasked, TypeOK
<1>5. TypeOK'
  BY <1>1, <1>2, <1>3, <1>4 DEF TypeOK
<1>6. ListOK'
  BY <1>1, <1>2, <1>3, <1>4 DEF ListOK, TypeOK
<1>7. NumbersNotConfused'
  BY <1>1, <1>2, <1>3, <1>4 DEF NumbersNotConfused, TypeOK
<1>8. AskedInOrder'
  <2>1. \A x \in ahead[r] : p \in asked[x] /\ x \in Requests
    BY <1>1, <1>4 DEF ListOK, Unasked, TypeOK
  <2> QED
    BY <1>1, <1>2, <1>3, <1>4, <2>1 DEF AskedInOrder, ListOK, TypeOK
<1>9. OutstandingCovers'
  <2> SUFFICES ASSUME NEW q \in Peers PROVE Cardinality(Owes(q)') <= outstanding'[q]
    BY DEF OutstandingCovers
  <2>1. CASE q = p
    <3> DEFINE S == Owes(p)
               T == Owes(p)'
               k == outstanding[p]
    <3>1. S \in SUBSET Requests /\ k \in Int /\ Cardinality(S) <= k
      BY <1>1 DEF TypeOK, Owes, OutstandingCovers
    <3>2. T \in SUBSET (S \cup {r})
      BY <1>1, <1>2, <1>3 DEF TypeOK, Owes, Unanswered
    <3> HIDE DEF S, T, k
    <3>3. Cardinality(T) <= k + 1
      BY <1>4, <3>1, <3>2, CountOneMore
    <3>4. outstanding'[p] = k + 1
      BY <1>1, <1>3 DEF k, TypeOK
    <3> QED
      BY <2>1, <3>3, <3>4 DEF T
  <2>2. CASE q # p
    <3>1. Owes(q)' \subseteq Owes(q)
      BY <1>1, <1>2, <1>3, <2>2 DEF TypeOK, Owes, Unanswered
    <3>2. outstanding'[q] = outstanding[q]
      BY <1>1, <1>3, <2>2 DEF TypeOK
    <3> QED
      BY <3>1, <3>2, StillCovers
  <2> QED
    BY <2>1, <2>2
<1>10. NeverStops'
  BY <1>1, <1>3 DEF NeverStops
<1> QED
  BY <1>5, <1>6, <1>7, <1>8, <1>9, <1>10 DEF TodoInv

(* The numbers in the bitmaps stay in use when bits are only cleared and   *)
(* no duplex peer is freed.                                                *)
LEMMA NumbersKept ==
    ASSUME TodoInv, NEW del, NEW add, ListKept(del, add),
           \A q \in Peers : slot[q] \in {"live", "erring", "closed"}
                                => slot'[q] \in {"live", "erring", "closed"}
    PROVE  NumbersNotConfused'
BY DEF TodoInv, TypeOK, NumbersNotConfused, ListKept

LEMMA NewRequestInv ==
    ASSUME TodoInv, NEW r \in Requests, new_todo_request(r)
    PROVE  TodoInv'
<1>1. TypeOK /\ ListOK /\ NeverStops
  BY DEF TodoInv
<1>2. /\ r \notin todo /\ ListChange({}, {r}) /\ wake_peers
      /\ UNCHANGED <<failed, slot, outstanding, syncing, pkts, wire, stopped>>
  BY DEF new_todo_request
<1>3. ListKept({}, {r})
  BY <1>2, ListChanges
<1>4. TypeOK'
  BY <1>1, <1>2, <1>3 DEF ListKept, TypeOK, wake_peers
<1>5. ListOK'
  BY <1>1, <1>2, <1>3 DEF ListKept, ListOK, ListChange
<1>6. NumbersNotConfused'
  BY <1>2, <1>3, NumbersKept
<1>7. OutstandingCovers'
  <2>1. \A q \in Peers : Owes(q)' \subseteq Owes(q) \ {}
    BY <1>2, <1>3, OwesLess DEF ListChange
  <2>2. ASSUME NEW q \in Peers PROVE Cardinality(Owes(q)') <= outstanding'[q]
    BY <1>2, <2>1, StillCovers
  <2> QED
    BY <2>2 DEF OutstandingCovers
<1>8. AskedInOrder' /\ NeverStops'
  BY <1>1, <1>2, <1>3 DEF ListKept, NeverStops
<1> QED
  BY <1>4, <1>5, <1>6, <1>7, <1>8 DEF TodoInv

(* A complaint drops requests; nothing is counted down, so the counters    *)
(* still cover what is left.                                               *)
LEMMA ComplaintInv ==
    ASSUME TodoInv, NEW S \in SUBSET Blocks, NEW to \in SUBSET Sending,
           publish_complaint(S, to)
    PROVE  TodoInv'
<1> DEFINE del == {r \in todo : BlockOf[r] \in S}
<1>1. TypeOK /\ ListOK /\ NeverStops
  BY DEF TodoInv
<1>2. /\ Room(to) /\ Queue(to) /\ ListChange(del, {}) /\ wake_peers
      /\ failed' = [r \in Requests |-> IF BlockOf[r] \in S THEN {} ELSE failed[r]]
      /\ UNCHANGED <<slot, outstanding, syncing, wire, stopped>>
  BY DEF publish_complaint
<1>3. ListKept(del, {})
  <2>1. \A x \in del : x \in todo
    OBVIOUS
  <2> HIDE DEF del
  <2> QED
    BY <1>2, <2>1, ListChanges
<1>4. TypeOK'
  <2>1. pkts' \in [Peers -> 0..MaxPkts]
    BY <1>1, <1>2 DEF TypeOK, Room, Queue
  <2>2. failed' \in [Requests -> SUBSET Peers]
    BY <1>1, <1>2 DEF TypeOK
  <2> QED
    BY <1>1, <1>2, <1>3, <2>1, <2>2 DEF ListKept, TypeOK, wake_peers
<1>5. ListOK'
  <2>1. \A r \in Requests \ todo' : failed'[r] = {}
    BY <1>1, <1>2 DEF ListOK, ListChange
  <2> QED
    BY <1>3, <2>1 DEF ListKept, ListOK
<1>6. NumbersNotConfused'
  BY <1>2, <1>3, NumbersKept
<1>7. OutstandingCovers'
  <2>1. todo' = (todo \ del) \cup {}
    BY <1>2 DEF ListChange
  <2>2. \A r \in Requests \ del : failed[r] \subseteq failed'[r]
    BY <1>1, <1>2 DEF ListOK
  <2> HIDE DEF del
  <2>3. \A q \in Peers : Owes(q)' \subseteq Owes(q) \ del
    BY <1>3, <2>1, <2>2, OwesLess
  <2>4. ASSUME NEW q \in Peers PROVE Cardinality(Owes(q)') <= outstanding'[q]
    BY <1>2, <2>3, StillCovers
  <2> QED
    BY <2>4 DEF OutstandingCovers
<1>8. AskedInOrder' /\ NeverStops'
  BY <1>1, <1>2, <1>3 DEF ListKept, NeverStops
<1> QED
  BY <1>4, <1>5, <1>6, <1>7, <1>8 DEF TodoInv

(* The handshake ends. *)
LEMMA DuplexInv ==
    ASSUME TodoInv, NEW p \in Peers, NEW new \in SUBSET Requests,
           check_sync_or_horizon(p, new)
    PROVE  TodoInv'
<1> DEFINE add == new \ todo
<1>1. TypeOK /\ ListOK /\ NeverStops
  BY DEF TodoInv
<1>2. /\ Room({p}) /\ Queue({p}) /\ ListChange({}, add)
      /\ slot' = [slot EXCEPT ![p] = "live"]
      /\ asleep' = [asleep EXCEPT ![p] = FALSE] \/ wake_peers
      /\ UNCHANGED <<failed, outstanding, syncing, wire, stopped>>
  BY DEF check_sync_or_horizon
<1>3. ListKept({}, add)
  <2>1. \A x \in add : x \in Requests /\ x \notin todo
    OBVIOUS
  <2> HIDE DEF add
  <2> QED
    BY <1>2, <2>1, ListChanges
<1>4. TypeOK'
  <2>1. pkts' \in [Peers -> 0..MaxPkts]
    BY <1>1, <1>2 DEF TypeOK, Room, Queue
  <2>2. asleep' \in [Peers -> BOOLEAN]
    BY <1>1, <1>2 DEF TypeOK, wake_peers
  <2> QED
    BY <1>1, <1>2, <1>3, <2>1, <2>2 DEF ListKept, TypeOK
<1>5. ListOK'
  BY <1>1, <1>2, <1>3 DEF ListKept, ListOK, ListChange
<1>6. NumbersNotConfused'
  <2>1. \A q \in Peers : slot[q] \in {"live", "erring", "closed"}
                             => slot'[q] \in {"live", "erring", "closed"}
    BY <1>1, <1>2 DEF TypeOK
  <2> HIDE DEF add
  <2> QED
    BY <1>3, <2>1, NumbersKept
<1>7. OutstandingCovers'
  <2>1. todo' = (todo \ {}) \cup add
    BY <1>2 DEF ListChange
  <2>2. \A r \in Requests \ {} : failed[r] \subseteq failed'[r]
    BY <1>2
  <2> HIDE DEF add
  <2>3. \A q \in Peers : Owes(q)' \subseteq Owes(q) \ {}
    BY <1>3, <2>1, <2>2, OwesLess
  <2>4. ASSUME NEW q \in Peers PROVE Cardinality(Owes(q)') <= outstanding'[q]
    BY <1>2, <2>3, StillCovers
  <2> QED
    BY <2>4 DEF OutstandingCovers
<1>8. AskedInOrder' /\ NeverStops'
  BY <1>1, <1>2, <1>3 DEF ListKept, NeverStops
<1> QED
  BY <1>4, <1>5, <1>6, <1>7, <1>8 DEF TodoInv

(* Numbers are taken and freed: no bitmap names one of them. *)
LEMMA AllocateInv ==
    ASSUME TypeOK, NEW freed \in SUBSET Peers, NEW S, Allocate(S, freed)
    PROVE  /\ slot' \in [Peers -> {"free", "greeting", "live", "erring", "closed"}]
           /\ outstanding' \in [Peers -> 0..MAX_REQUESTS]
           /\ syncing' \in [Peers -> BOOLEAN]
           /\ pkts' \in [Peers -> 0..MaxPkts]
           /\ asleep' \in [Peers -> BOOLEAN]
           /\ wire' \in [Peers -> SUBSET Requests]
           /\ \A q \in Peers \ freed : slot'[q] = slot[q] /\ outstanding'[q] = outstanding[q]
<1>1. S \subseteq freed
  BY DEF Allocate
<1>2. /\ slot' \in [Peers -> {"free", "greeting", "live", "erring", "closed"}]
      /\ outstanding' \in [Peers -> 0..MAX_REQUESTS]
      /\ pkts' \in [Peers -> 0..MaxPkts]
      /\ wire' \in [Peers -> SUBSET Requests]
  BY DEF Allocate, TypeOK
<1>3. syncing' \in [Peers -> BOOLEAN] /\ asleep' \in [Peers -> BOOLEAN]
  BY DEF Allocate, TypeOK
<1>4. \A q \in Peers \ freed : slot'[q] = slot[q] /\ outstanding'[q] = outstanding[q]
  BY <1>1 DEF Allocate
<1> QED
  BY <1>2, <1>3, <1>4

(* A peer in no bitmap owes nothing. *)
LEMMA OwesNothing ==
    ASSUME TypeOK', NEW q \in Peers, \A r \in Requests : q \notin asked'[r]
    PROVE  Cardinality(Owes(q)') <= outstanding'[q]
<1>1. Owes(q)' = {}
  BY DEF Owes, Unanswered, TypeOK
<1>2. outstanding'[q] \in Nat
  BY DEF TypeOK
<1> QED
  BY <1>1, <1>2, CountNone

LEMMA NewPeerInv ==
    ASSUME TodoInv, NEW p \in Peers, new_peer(p)
    PROVE  TodoInv'
<1>1. TypeOK /\ ListOK /\ NumbersNotConfused /\ OutstandingCovers /\ AskedInOrder /\ NeverStops
  BY DEF TodoInv
<1>2. Allocate({p}, Free) /\ UNCHANGED <<todo, ahead, asked, failed, stopped>>
  BY DEF new_peer, list
<1>3. Free \in SUBSET Peers
  BY DEF Free
<1>4. TypeOK' /\ (\A q \in Peers \ Free : slot'[q] = slot[q] /\ outstanding'[q] = outstanding[q])
  BY <1>1, <1>2, <1>3, AllocateInv DEF TypeOK
<1>5. ListOK' /\ AskedInOrder' /\ NeverStops'
  BY <1>1, <1>2 DEF ListOK, AskedInOrder, NeverStops
<1>6. \A r \in Requests : \A q \in asked[r] : q \in Peers \ Free
  BY <1>1 DEF NumbersNotConfused, Free, TypeOK
<1>7. NumbersNotConfused'
  BY <1>1, <1>2, <1>4, <1>6 DEF NumbersNotConfused
<1>8. OutstandingCovers'
  <2> SUFFICES ASSUME NEW q \in Peers PROVE Cardinality(Owes(q)') <= outstanding'[q]
    BY DEF OutstandingCovers
  <2>1. CASE q \in Free
    BY <1>2, <1>4, <1>6, <2>1, OwesNothing
  <2>2. CASE q \notin Free
    <3>1. Owes(q)' \subseteq Owes(q)
      BY <1>2 DEF Owes, Unanswered
    <3> QED
      BY <1>4, <2>2, <3>1, StillCovers
  <2> QED
    BY <2>1, <2>2
<1> QED
  BY <1>4, <1>5, <1>7, <1>8 DEF TodoInv

LEMMA DestroyPeerInv ==
    ASSUME TodoInv, NEW p \in Peers, NEW S \in SUBSET Peers, destroy_peer(p, S)
    PROVE  TodoInv'
<1>1. TypeOK /\ ListOK /\ NumbersNotConfused /\ OutstandingCovers /\ AskedInOrder /\ NeverStops
  BY DEF TodoInv
<1>2. /\ slot[p] = "greeting"
      /\ asked' = [r \in Requests |-> asked[r] \ {p}]
      /\ failed' = [r \in Requests |-> failed[r] \ {p}]
      /\ Allocate(S, Free \cup {p})
      /\ UNCHANGED <<todo, ahead, stopped>>
  BY DEF destroy_peer
<1>3. Free \cup {p} \in SUBSET Peers
  BY DEF Free
<1>4. /\ TypeOK'
      /\ \A q \in Peers \ (Free \cup {p}) : slot'[q] = slot[q] /\ outstanding'[q] = outstanding[q]
  BY <1>1, <1>2, <1>3, AllocateInv DEF TypeOK
<1>5. ListOK' /\ NeverStops'
  BY <1>1, <1>2 DEF ListOK, NeverStops
<1>6. AskedInOrder'
  BY <1>1, <1>2 DEF AskedInOrder, ListOK, TypeOK
<1>7. \A r \in Requests : \A q \in asked'[r] : q \in asked[r] /\ q \in Peers \ (Free \cup {p})
  BY <1>1, <1>2 DEF NumbersNotConfused, Free, TypeOK
<1>8. NumbersNotConfused'
  BY <1>1, <1>4, <1>7 DEF NumbersNotConfused
<1>9. OutstandingCovers'
  <2> SUFFICES ASSUME NEW q \in Peers PROVE Cardinality(Owes(q)') <= outstanding'[q]
    BY DEF OutstandingCovers
  <2>1. CASE q \in Free \cup {p}
    BY <1>4, <1>7, <2>1, OwesNothing
  <2>2. CASE q \notin Free \cup {p}
    <3>1. Owes(q)' \subseteq Owes(q)
      BY <1>1, <1>2, <2>2 DEF Owes, Unanswered, TypeOK
    <3> QED
      BY <1>4, <2>2, <3>1, StillCovers
  <2> QED
    BY <2>1, <2>2
<1> QED
  BY <1>4, <1>5, <1>6, <1>8, <1>9 DEF TodoInv

(* A reply.  A success takes the request off the list and counts down      *)
(* everyone who still owed an answer; a failure counts down the one who    *)
(* failed; in both cases the one counted down owed that request, so its    *)
(* counter was not zero.                                                   *)
LEMMA ReplyInv ==
    ASSUME TodoInv, NEW p \in Peers, NEW r \in Requests, NEW success \in BOOLEAN,
           NEW answers \in SUBSET Requests, NEW new \in SUBSET Requests,
           recv_reply(p, r, success, answers, new)
    PROVE  TodoInv'
<1> DEFINE del == IF success THEN {r} \cap todo ELSE {}
           add == new \ todo
<1>1. TypeOK /\ ListOK /\ NumbersNotConfused /\ NeverStops
  BY DEF TodoInv
<1>2. /\ slot[p] = "live" /\ ListChange(del, add) /\ finish_todo(p, r, success)
      /\ wire' = [wire EXCEPT ![p] = @ \ answers]
      /\ asleep' = asleep \/ wake_peers
      /\ UNCHANGED <<slot, syncing, pkts>>
  BY DEF recv_reply
<1>3. /\ \A x \in del : x \in todo /\ x = r
      /\ \A x \in add : x \in Requests /\ x \notin todo
      /\ success /\ r \in todo => del = {r}
      /\ ~success \/ r \notin todo => del = {}
  OBVIOUS
<1> HIDE DEF del, add
<1>4. ListKept(del, add) /\ todo' = (todo \ del) \cup add
  BY <1>2, <1>3, ListChanges DEF ListChange
<1>5. NumbersNotConfused'
  BY <1>2, <1>4, NumbersKept
<1>6. \A q \in Peers : q \in Unanswered(r) => r \in Owes(q)
  BY <1>1 DEF Owes, Unanswered, ListOK
<1>7. /\ failed' \in [Requests -> SUBSET Peers]
      /\ \A x \in Requests \ todo' : failed'[x] = {}
      /\ \A x \in Requests \ del : failed[x] \subseteq failed'[x]
  <2>1. CASE success /\ r \in todo
    <3>1. failed' = [failed EXCEPT ![r] = {}]
      BY <1>2, <2>1 DEF finish_todo, delete_todo
    <3> QED
      BY <1>1, <1>3, <1>4, <2>1, <3>1 DEF TypeOK, ListOK
  <2>2. CASE ~success /\ r \in todo /\ p \in Unanswered(r)
    <3>1. failed' = [failed EXCEPT ![r] = @ \cup {p}]
      BY <1>2, <2>2 DEF finish_todo
    <3> QED
      BY <1>1, <1>3, <1>4, <2>2, <3>1 DEF TypeOK, ListOK
  <2>3. CASE r \notin todo \/ (~success /\ p \notin Unanswered(r))
    <3>1. failed' = failed
      BY <1>2, <2>3 DEF finish_todo
    <3> QED
      BY <1>1, <1>3, <1>4, <2>3, <3>1 DEF TypeOK, ListOK
  <2> QED
    BY <2>1, <2>2, <2>3
<1>8. ListOK'
  BY <1>4, <1>7 DEF ListKept, ListOK
<1>9. \A q \in Peers : Owes(q)' \subseteq Owes(q) \ del
  BY <1>4, <1>7, OwesLess
<1>10. /\ outstanding' \in [Peers -> 0..MAX_REQUESTS]
       /\ OutstandingCovers'
       /\ stopped' = "running"
  <2>0. outstanding \in [Peers -> 0..MAX_REQUESTS]
    BY <1>1 DEF TypeOK
  <2>1. CASE success /\ r \in todo
    <3>1. /\ outstanding' = [q \in Peers |-> IF q \in Unanswered(r) THEN outstanding[q] - 1
                                             ELSE outstanding[q]]
          /\ stopped' = IF Unanswered(r) \cap Free = {} THEN "running" ELSE "null_peer"
      BY <1>2, <2>1 DEF finish_todo, delete_todo
    <3>2. ASSUME NEW q \in Peers
          PROVE  outstanding'[q] \in 0..MAX_REQUESTS /\ Cardinality(Owes(q)') <= outstanding'[q]
      <4>1. CASE q \in Unanswered(r)
        <5>1. r \in Owes(q) /\ Owes(q)' \subseteq Owes(q) \ {r}
          BY <1>3, <1>6, <1>9, <2>1, <4>1
        <5>2. outstanding'[q] = outstanding[q] - 1
          BY <3>1, <4>1
        <5>3. Cardinality(Owes(q)') <= outstanding'[q] /\ 1 <= outstanding[q]
          BY <5>1, <5>2, CoversOneLess
        <5> QED
          BY <2>0, <5>2, <5>3
      <4>2. CASE q \notin Unanswered(r)
        <5>1. Owes(q)' \subseteq Owes(q) /\ outstanding'[q] = outstanding[q]
          BY <1>9, <3>1, <4>2
        <5> QED
          BY <2>0, <5>1, StillCovers
      <4> QED
        BY <4>1, <4>2
    <3>3. Unanswered(r) \cap Free = {}
      BY <1>1 DEF Unanswered, Free, NumbersNotConfused
    <3>4. outstanding' \in [Peers -> 0..MAX_REQUESTS]
      BY <3>1, <3>2
    <3> QED
      BY <3>1, <3>2, <3>3, <3>4 DEF OutstandingCovers
  <2>2. CASE ~success /\ r \in todo /\ p \in Unanswered(r)
    <3>1. /\ outstanding' = [outstanding EXCEPT ![p] = @ - 1]
          /\ stopped' = IF outstanding[p] # 0 THEN "running" ELSE "assertion"
          /\ failed' = [failed EXCEPT ![r] = @ \cup {p}]
      BY <1>2, <2>2 DEF finish_todo
    <3>2. r \in Owes(p) /\ outstanding'[p] = outstanding[p] - 1
      BY <1>6, <2>0, <2>2, <3>1
    <3>3. r \notin Owes(p)'
      <4>1. p \in failed'[r]
        BY <1>1, <3>1 DEF TypeOK
      <4> QED
        BY <4>1 DEF Owes, Unanswered
    <3>4. Owes(p)' \subseteq Owes(p) \ {r}
      BY <1>9, <3>3
    <3>5. Cardinality(Owes(p)') <= outstanding'[p] /\ 1 <= outstanding[p]
      BY <3>2, <3>4, CoversOneLess
    <3>6. ASSUME NEW q \in Peers PROVE Cardinality(Owes(q)') <= outstanding'[q]
      <4>1. CASE q = p
        BY <3>5, <4>1
      <4>2. CASE q # p
        <5>1. Owes(q)' \subseteq Owes(q) /\ outstanding'[q] = outstanding[q]
          BY <1>9, <2>0, <3>1, <4>2
        <5> QED
          BY <5>1, StillCovers
      <4> QED
        BY <4>1, <4>2
    <3>7. outstanding' \in [Peers -> 0..MAX_REQUESTS]
      BY <2>0, <3>1, <3>5
    <3> QED
      BY <2>0, <3>1, <3>5, <3>6, <3>7 DEF OutstandingCovers
  <2>3. CASE r \notin todo \/ (~success /\ p \notin Unanswered(r))
    <3>1. UNCHANGED <<outstanding, stopped>>
      BY <1>2, <2>3 DEF finish_todo
    <3>2. ASSUME NEW q \in Peers PROVE Cardinality(Owes(q)') <= outstanding'[q]
      BY <1>9, <3>1, StillCovers
    <3> QED
      BY <1>1, <2>0, <3>1, <3>2 DEF OutstandingCovers, NeverStops
  <2> QED
    BY <2>1, <2>2, <2>3
<1>11. TypeOK'
  <2>1. asleep' \in [Peers -> BOOLEAN]
    BY <1>1, <1>2 DEF TypeOK, wake_peers
  <2>2. wire' \in [Peers -> SUBSET Requests]
    BY <1>1, <1>2 DEF TypeOK
  <2> QED
    BY <1>1, <1>2, <1>4, <1>7, <1>10, <2>1, <2>2 DEF ListKept, TypeOK
<1>12. AskedInOrder' /\ NeverStops'
  BY <1>4, <1>10 DEF ListKept, NeverStops
<1> QED
  BY <1>5, <1>8, <1>10, <1>11, <1>12 DEF TodoInv

-----------------------------------------------------------------------------
LEMMA PlanOutputInv ==
    ASSUME TodoInv, NEW p \in Peers, plan_output(p)
    PROVE  TodoInv'
BY QuietInv, SendRequestInv DEF plan_output

LEMMA HandlerInv ==
    ASSUME TodoInv, Handler
    PROVE  TodoInv'
<1>1. CASE \E r \in Requests : new_todo_request(r)
  BY <1>1, NewRequestInv
<1>2. CASE \E p \in Peers, r \in Requests, success \in BOOLEAN :
             \E answers \in {{}, {r}}, new \in News(r) : recv_reply(p, r, success, answers, new)
  <2>1. PICK p \in Peers, r \in Requests, success \in BOOLEAN :
           \E answers \in {{}, {r}}, new \in News(r) : recv_reply(p, r, success, answers, new)
    BY <1>2
  <2>2. PICK answers \in {{}, {r}}, new \in News(r) : recv_reply(p, r, success, answers, new)
    BY <2>1
  <2>3. answers \in SUBSET Requests /\ new \in SUBSET Requests
    BY DEF News
  <2> QED
    BY <2>2, <2>3, ReplyInv
<1>3. CASE \E S \in SUBSET Blocks, to \in SUBSET Sending :
             /\ S # {} /\ Cardinality(Sending \ to) <= 1
             /\ publish_complaint(S, to)
  BY <1>3, ComplaintInv
<1>4. CASE \E p \in Peers : new_peer(p)
  BY <1>4, NewPeerInv
<1>5. CASE \E p \in Peers : \E new \in {{}} \cup {{x} : x \in Requests} :
             check_sync_or_horizon(p, new)
  <2>1. PICK p \in Peers, new \in {{}} \cup {{x} : x \in Requests} :
           check_sync_or_horizon(p, new)
    BY <1>5
  <2>2. new \in SUBSET Requests
    OBVIOUS
  <2> QED
    BY <2>1, <2>2, DuplexInv
<1>6. CASE \E p \in Peers, S \in SUBSET Peers : destroy_peer(p, S)
  BY <1>6, DestroyPeerInv
<1>7. CASE \E p \in Peers : close_peer(p) \/ pkt_in_error(p) \/ todo_for_peer(p)
  BY <1>7, QuietInv
<1> QED
  BY <1>1, <1>2, <1>3, <1>4, <1>5, <1>6, <1>7 DEF Handler

LEMMA NextInv == TodoInv /\ [Next]_vars => TodoInv'
<1> SUFFICES ASSUME TodoInv, [Next]_vars PROVE TodoInv'
  OBVIOUS
<1>1. CASE Next
  BY <1>1, HandlerInv, PlanOutputInv DEF Next
<1>2. CASE UNCHANGED vars
  <2>1. UNCHANGED <<todo, ahead, asked, failed, slot, outstanding,
                    syncing, pkts, asleep, wire, stopped>>
    BY <1>2 DEF vars, list, peers
  <2> QED
    BY <2>1 DEF TodoInv, TypeOK, ListOK, NumbersNotConfused, OutstandingCovers,
                AskedInOrder, NeverStops, Owes, Unanswered
<1> QED
  BY <1>1, <1>2

(* TodoInv holds at all times; safety needs no fairness. *)
THEOREM Invariance == Spec => []TodoInv
<1>1. SafetySpec => []TodoInv
  BY InitInv, NextInv, PTL DEF SafetySpec
<1> QED
  BY <1>1, PTL DEF Spec

(* Every variable keeps its shape; the unsigned requests_outstanding of a  *)
(* peer never wraps and never passes MAX_REQUESTS.                         *)
THEOREM TypeCorrect == Spec => []TypeOK
<1>1. TodoInv => TypeOK
  BY DEF TodoInv
<1> QED
  BY <1>1, Invariance, PTL

(* requests_outstanding covers every answer the list expects of a peer.    *)
THEOREM CountersCorrect == Spec => []OutstandingCovers
<1>1. TodoInv => OutstandingCovers
  BY DEF TodoInv
<1> QED
  BY <1>1, Invariance, PTL

(* No peers_asked bit names a free number or a peer still greeting: a peer *)
(* that gets a used number inherits no question.                           *)
THEOREM NumbersCorrect == Spec => []NumbersNotConfused
<1>1. TodoInv => NumbersNotConfused
  BY DEF TodoInv
<1> QED
  BY <1>1, Invariance, PTL

(* The assertion of finish_todo() holds and find_peer() in delete_todo()   *)
(* never returns NULL.                                                     *)
THEOREM NothingStops == Spec => []NeverStops
<1>1. TodoInv => NeverStops
  BY DEF TodoInv
<1> QED
  BY <1>1, Invariance, PTL

(* get_todo_pkt() passes over no request. *)
THEOREM OrderCorrect == Spec => []AskedInOrder
<1>1. TodoInv => AskedInOrder
  BY DEF TodoInv
<1> QED
  BY <1>1, Invariance, PTL

(* The list of requests is served in its order, within MAX_REQUESTS for    *)
(* each peer, and without a failed assertion.                              *)
THEOREM RequestsCorrect == Spec => []RequestsSound
<1>1. TodoInv => RequestsSound
  <2> SUFFICES ASSUME TodoInv PROVE RequestsSound
    OBVIOUS
  <2>1. ASSUME NEW p \in Peers PROVE outstanding[p] <= MAX_REQUESTS
    <3>1. outstanding[p] \in 0..MAX_REQUESTS
      BY DEF TodoInv, TypeOK
    <3> QED BY <3>1
  <2> QED BY <2>1 DEF TodoInv, RequestsSound
<1> QED BY <1>1, Invariance, PTL
=============================================================================
