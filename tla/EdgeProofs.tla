----------------------------- MODULE EdgeProofs -----------------------------
(***************************************************************************)
(* Proofs about what the node shares with the world outside.               *)
(*                                                                         *)
(* Peers: for any number of addresses, nodes, buckets and peers, no node   *)
(* is connected twice, num_peers_connected counts no peer that is gone,    *)
(* and the peer cache on disk passes check_peer_cache() at the next start. *)
(*                                                                         *)
(* Gateway: with any number of deposits, copies and deaths a deposit is    *)
(* paid once, and again only for each record that was lost.                *)
(***************************************************************************)
EXTENDS Peers, Gateway, FiniteSetTheorems, WellFoundedInduction, TLAPS

-----------------------------------------------------------------------------
(* Peers *)

(* What the variables hold: the inductive invariants need no more of the   *)
(* seeding, of `filling' and of `halted' than that they are there.         *)
CacheType ==
    /\ cache \in [Buckets -> Entry] /\ disk \in [Buckets -> Entry]
    /\ randbytes \in Seeds

PeerType ==
    /\ peer \in [PeerNums -> Peer \cup {NoPeer}]
    /\ connected \in Int

PeersInv == CacheType /\ PeerType /\ OnePeerPerNode /\ CacheSurvives

(* An address hashes to a bucket. *)
LEMMA HashEntry ==
    ASSUME CacheType, NEW a \in Addrs
    PROVE  peer_hash_entry(a) \in Buckets
BY PeersAssumption DEF CacheType, peer_hash_entry

-----------------------------------------------------------------------------
(* peer_cache_del() keeps the cache and the disk as they should be,        *)
(* whether it erases on disk or in memory only.                            *)
LEMMA DelKeepsCache ==
    ASSUME CacheType, CacheSurvives, NEW a \in Addrs, NEW onDisk \in BOOLEAN,
           peer_cache_del(a, onDisk), UNCHANGED <<randbytes, removed>>
    PROVE  (CacheType /\ CacheSurvives)'
<1> DEFINE i == peer_hash_entry(a)
<1>1. i \in Buckets
  BY HashEntry
<1>2. Zero \in Entry
  BY DEF Entry
<1>3. CASE cache[i].addr = a /\ onDisk
  <2>1. cache' = [cache EXCEPT ![i] = Zero] /\ disk' = [disk EXCEPT ![i] = Zero]
    BY <1>3 DEF peer_cache_del, Set, update_on_disk
  <2> HIDE DEF i
  <2> QED BY <1>1, <1>2, <2>1 DEF CacheType, CacheSurvives, check_peer_cache
<1>4. CASE cache[i].addr = a /\ ~onDisk
  <2>1. cache' = [cache EXCEPT ![i] = Zero] /\ disk' = disk
    BY <1>4 DEF peer_cache_del, Set
  <2> HIDE DEF i
  <2> QED BY <1>1, <1>2, <2>1 DEF CacheType, CacheSurvives, check_peer_cache
<1>5. CASE cache[i].addr # a
  BY <1>5 DEF peer_cache_del, CacheType, CacheSurvives, check_peer_cache
<1> QED BY <1>3, <1>4, <1>5

(* So does writing an address to its own bucket, in memory and on disk. *)
LEMMA PutKeepsCache ==
    ASSUME CacheType, CacheSurvives, NEW e, e \in Entry, e.addr \in Addrs,
           cache' = [cache EXCEPT ![peer_hash_entry(e.addr)] = e],
           disk' = [disk EXCEPT ![peer_hash_entry(e.addr)] = e],
           UNCHANGED <<randbytes, removed>>
    PROVE  (CacheType /\ CacheSurvives)'
<1> DEFINE i == peer_hash_entry(e.addr)
<1>1. i \in Buckets /\ BucketOf[randbytes][e.addr] = i
  BY HashEntry DEF peer_hash_entry
<1>2. cache' = [cache EXCEPT ![i] = e] /\ disk' = [disk EXCEPT ![i] = e]
  OBVIOUS
<1> HIDE DEF i
<1>3. CacheType'
  <2>1. cache' \in [Buckets -> Entry]
    BY <1>1, <1>2 DEF CacheType
  <2>2. disk' \in [Buckets -> Entry]
    BY <1>1, <1>2 DEF CacheType
  <2> QED BY <2>1, <2>2 DEF CacheType
<1>4. /\ cache'[i] = e /\ disk'[i] = e
      /\ \A k \in Buckets : k # i => cache'[k] = cache[k] /\ disk'[k] = disk[k]
  BY <1>1, <1>2 DEF CacheType
<1>5. check_peer_cache(disk', randbytes')
  BY <1>1, <1>4 DEF CacheSurvives, check_peer_cache
<1>6. ~removed => \A k \in Buckets : cache'[k] # Zero => cache'[k] = disk'[k]
  BY <1>4 DEF CacheSurvives
<1> QED BY <1>3, <1>5, <1>6 DEF CacheSurvives, check_peer_cache

(* digest_peer_addrs(): the address is added, in memory and on disk, or    *)
(* the entry that is there stays in both.                                  *)
LEMMA DigestKeepsCache ==
    ASSUME CacheType, CacheSurvives, NEW a \in Addrs, NEW u \in Uuids \cup {NoUuid},
           digest_peer_addrs(a, u), UNCHANGED <<randbytes, removed>>
    PROVE  (CacheType /\ CacheSurvives)'
<1> DEFINE e == [addr |-> a, uuid |-> u]
<1>1. e \in Entry /\ e.addr = a
  BY DEF Entry
<1>2. cache' \in {cache, [cache EXCEPT ![peer_hash_entry(a)] = e]}
  BY <1>1 DEF digest_peer_addrs, peer_cache_add
<1>3. disk' = IF cache' = cache THEN disk
              ELSE [disk EXCEPT ![peer_hash_entry(a)] = cache'[peer_hash_entry(a)]]
  BY DEF digest_peer_addrs
<1>4. CASE cache' = cache
  BY <1>3, <1>4 DEF CacheType, CacheSurvives, check_peer_cache
<1>5. CASE cache' # cache
  <2>1. cache' = [cache EXCEPT ![peer_hash_entry(a)] = e]
    BY <1>2, <1>5
  <2>2. cache'[peer_hash_entry(a)] = e
    BY <2>1, HashEntry DEF CacheType
  <2>3. disk' = [disk EXCEPT ![peer_hash_entry(a)] = e]
    BY <1>3, <1>5, <2>2
  <2> HIDE DEF e
  <2> QED BY <1>1, <2>1, <2>3, PutKeepsCache
<1> QED BY <1>4, <1>5

(* welcome_received() refreshes the entry of the address connected to and  *)
(* that of the port the peer listens on; the two may share a bucket.       *)
LEMMA RefreshKeepsCache ==
    ASSUME CacheType, CacheSurvives, NEW was \in Addrs, NEW a \in Addrs,
           NEW u \in Uuids, NEW i, NEW j,
           i = peer_hash_entry(was), j = peer_hash_entry(a),
           cache' = peer_cache_refresh(cache, was, [addr |-> a, uuid |-> u]),
           disk' = [disk EXCEPT ![i] = IF cache[i].addr = was THEN cache'[i] ELSE @,
                                ![j] = cache'[j]],
           UNCHANGED <<randbytes, removed>>
    PROVE  (CacheType /\ CacheSurvives)'
<1> DEFINE e == [addr |-> a, uuid |-> u]
           C2 == IF cache[i].addr = was THEN [cache EXCEPT ![i].uuid = u] ELSE cache
<1>1. /\ i \in Buckets /\ BucketOf[randbytes][was] = i
      /\ j \in Buckets /\ BucketOf[randbytes][a] = j
  BY HashEntry DEF peer_hash_entry
<1>2. e \in Entry /\ e.addr = a
  BY DEF Entry
<1>3. cache' = [C2 EXCEPT ![j] = e]
  BY DEF peer_cache_refresh
<1>4. /\ C2 \in [Buckets -> Entry]
      /\ \A k \in Buckets : k # i => C2[k] = cache[k]
      /\ cache[i].addr = was => C2[i].addr = was
      /\ cache[i].addr # was => C2[i] = cache[i]
  <2>1. CASE cache[i].addr = was
    <3>1. cache[i] \in Entry
      BY <1>1 DEF CacheType
    <3>2. [cache[i] EXCEPT !.uuid = u] = [addr |-> was, uuid |-> u]
      BY <2>1, <3>1 DEF Entry, Zero
    <3>3. [addr |-> was, uuid |-> u] \in Entry
      BY DEF Entry
    <3>4. C2 = [cache EXCEPT ![i] = [addr |-> was, uuid |-> u]]
      BY <2>1, <3>2
    <3> HIDE DEF C2
    <3> QED BY <1>1, <2>1, <3>3, <3>4 DEF CacheType
  <2>2. CASE cache[i].addr # was
    BY <2>2 DEF CacheType
  <2> QED BY <2>1, <2>2
<1> HIDE DEF C2, e
<1>5. /\ cache' \in [Buckets -> Entry] /\ cache'[j] = e
      /\ \A k \in Buckets : k # j => cache'[k] = C2[k]
  BY <1>1, <1>2, <1>3, <1>4
<1>6. /\ disk' \in [Buckets -> Entry] /\ disk'[j] = e
      /\ \A k \in Buckets : k # j /\ k # i => disk'[k] = disk[k]
      /\ i # j => disk'[i] = IF cache[i].addr = was THEN C2[i] ELSE disk[i]
  BY <1>1, <1>2, <1>4, <1>5 DEF CacheType
<1>7. CacheType'
  BY <1>5, <1>6 DEF CacheType
<1>8. check_peer_cache(disk', randbytes)
  BY <1>1, <1>2, <1>4, <1>6 DEF CacheSurvives, check_peer_cache
<1>9. ~removed => \A k \in Buckets : cache'[k] # Zero => cache'[k] = disk'[k]
  BY <1>1, <1>4, <1>5, <1>6 DEF CacheSurvives
<1> QED BY <1>7, <1>8, <1>9 DEF CacheSurvives, check_peer_cache
-----------------------------------------------------------------------------
(* The peers that count are finitely many. *)
LEMMA EstablishedFinite ==
    ASSUME NEW S, S \subseteq PeerNums
    PROVE  IsFiniteSet(S) /\ Cardinality(S) \in Nat
<1>1. IsFiniteSet(PeerNums)
  BY PeersAssumption, FS_Interval DEF PeerNums
<1> QED BY <1>1, FS_Subset, FS_CardinalityType

(* Every set of naturals that is not empty has a least element. *)
LEMMA LeastNumber ==
    ASSUME NEW T \in SUBSET Nat, T # {}
    PROVE  \E m \in T : \A x \in T : m <= x
<1>1. IsWellFoundedOn(OpToRel(<, Nat), Nat)
  BY NatLessThanWellFounded
<1>2. PICK m \in T : \A y \in T : ~(<<y, m>> \in OpToRel(<, Nat))
  BY <1>1, WFMin
<1>3. \A y \in T : ~(y < m)
  BY <1>2 DEF OpToRel
<1> QED BY <1>3

(* get_peernum() finds a number that no peer has. *)
LEMMA FreeNumber ==
    ASSUME FreeNums # {}
    PROVE  get_peernum \in FreeNums
<1>1. FreeNums \in SUBSET Nat
  BY PeersAssumption DEF FreeNums, PeerNums
<1>2. \E n \in FreeNums : \A k \in FreeNums : n <= k
  BY <1>1, LeastNumber
<1> QED BY <1>2 DEF get_peernum

(* fill_peers() does not look: with fewer than MIN_PEERS peers there is    *)
(* always a number left.                                                   *)
LEMMA RoomToFill ==
    ASSUME num_peers < MinPeers
    PROVE  FreeNums # {}
<1> SUFFICES ASSUME FreeNums = {} PROVE FALSE
  OBVIOUS
<1>1. Allocated = PeerNums
  BY DEF FreeNums, Allocated
<1>2. Cardinality(PeerNums) = MaxPeers
  BY PeersAssumption, FS_Interval DEF PeerNums
<1> QED BY <1>1, <1>2, PeersAssumption DEF num_peers

(* A step that leaves the established peers as they are, and counts no     *)
(* more of them.                                                           *)
LEMMA SameEstablished ==
    ASSUME PeerType, PeerType', OnePeerPerNode,
           Established' = Established,
           \A n \in Established : peer'[n].uuid = peer[n].uuid,
           connected' <= connected
    PROVE  OnePeerPerNode'
<1>1. Cardinality(Established) \in Nat
  BY EstablishedFinite DEF Established, Allocated
<1> QED BY <1>1 DEF OnePeerPerNode, ConnectedAreThere, PeerType

(* A peer is allocated: it is not established yet. *)
LEMMA AllocatePeer ==
    ASSUME PeerType, OnePeerPerNode, FreeNums # {},
           NEW p, p \in Peer, p.stage \in {"connecting", "welcoming"},
           peer' = [peer EXCEPT ![get_peernum] = p], connected' = connected
    PROVE  PeerType' /\ OnePeerPerNode'
<1> DEFINE n == get_peernum
<1>1. n \in PeerNums /\ n \notin Allocated
  BY FreeNumber DEF FreeNums
<1>2. peer' = [peer EXCEPT ![n] = p]
  OBVIOUS
<1> HIDE DEF n
<1>3. PeerType'
  BY <1>1, <1>2 DEF PeerType
<1>4. peer'[n] = p /\ \A k \in PeerNums : k # n => peer'[k] = peer[k]
  BY <1>1, <1>2 DEF PeerType
<1>5. Established' = Established
  BY <1>1, <1>4 DEF Established, Allocated
<1>6. \A k \in Established : peer'[k].uuid = peer[k].uuid
  BY <1>1, <1>4 DEF Established, Allocated
<1> QED BY <1>3, <1>5, <1>6, SameEstablished DEF PeerType

(* A connection moves on without becoming established or ceasing to be. *)
LEMMA MoveStage ==
    ASSUME PeerType, OnePeerPerNode, NEW n \in Allocated, NEW s \in Stages,
           Stage(n, s), connected' = connected,
           s \in {"syncing", "duplex", "synced"} <=>
               peer[n].stage \in {"syncing", "duplex", "synced"}
    PROVE  PeerType' /\ OnePeerPerNode'
<1>1. n \in PeerNums /\ peer[n] \in Peer
  BY DEF Allocated, PeerType
<1> DEFINE p == [peer[n] EXCEPT !.stage = s]
<1>2. p \in Peer /\ p.stage = s /\ p.uuid = peer[n].uuid
  BY <1>1 DEF Peer
<1>3. peer' = [peer EXCEPT ![n] = p]
  BY DEF Stage
<1> HIDE DEF p
<1>4. PeerType'
  BY <1>1, <1>2, <1>3 DEF PeerType
<1>5. peer'[n] = p /\ \A k \in PeerNums : k # n => peer'[k] = peer[k]
  BY <1>1, <1>3 DEF PeerType
<1>6. p # NoPeer
  BY <1>2 DEF NoPeer, Stages
<1>7. Established' = Established
  BY <1>1, <1>2, <1>5, <1>6 DEF Established, Allocated
<1>8. \A k \in Established : peer'[k].uuid = peer[k].uuid
  BY <1>2, <1>5 DEF Established, Allocated
<1> QED BY <1>4, <1>7, <1>8, SameEstablished DEF PeerType

(* A peer goes: if it was established, it is no longer counted. *)
LEMMA DropPeer ==
    ASSUME PeerType, OnePeerPerNode, NEW n \in Allocated,
           peer' = [peer EXCEPT ![n] = NoPeer], connected' \in Int,
           connected' <= IF n \in Established THEN connected - 1 ELSE connected
    PROVE  PeerType' /\ OnePeerPerNode'
<1>1. n \in PeerNums
  BY DEF Allocated
<1>2. PeerType'
  BY <1>1 DEF PeerType
<1>3. peer'[n] = NoPeer /\ \A k \in PeerNums : k # n => peer'[k] = peer[k]
  BY <1>1 DEF PeerType
<1>4. Established' = Established \ {n}
  BY <1>1, <1>3 DEF Established, Allocated
<1>5. \A k \in Established \ {n} : peer'[k].uuid = peer[k].uuid
  BY <1>3 DEF Established, Allocated
<1>6. CASE n \in Established
  <2>1. IsFiniteSet(Established)
    BY EstablishedFinite DEF Established, Allocated
  <2>2. Cardinality(Established') = Cardinality(Established) - 1
    BY <1>4, <1>6, <2>1, FS_RemoveElement
  <2>3. Cardinality(Established) \in Nat
    BY <2>1, FS_CardinalityType
  <2> QED BY <1>2, <1>4, <1>5, <1>6, <2>2, <2>3
          DEF OnePeerPerNode, ConnectedAreThere, PeerType
<1>7. CASE n \notin Established
  <2>1. Established' = Established
    BY <1>4, <1>7
  <2> QED BY <1>2, <1>5, <1>7, <2>1, SameEstablished
<1> QED BY <1>6, <1>7

(* welcome_received(): the uuid is of no other peer and not our own, and   *)
(* one more is established and counted.                                    *)
LEMMA EstablishPeer ==
    ASSUME PeerType, OnePeerPerNode, NEW n \in Allocated, peer[n].stage = "reading",
           NEW u \in Uuids \ {Self}, NEW a \in Addrs, ~peer_already(u, {n}),
           peer' = [peer EXCEPT ![n] = [stage |-> "syncing", addr |-> a, uuid |-> u]],
           connected' = connected + 1
    PROVE  PeerType' /\ OnePeerPerNode'
<1> DEFINE p == [stage |-> "syncing", addr |-> a, uuid |-> u]
<1>1. n \in PeerNums /\ n \notin Established
  BY DEF Allocated, Established
<1>2. p \in Peer /\ p # NoPeer /\ p.stage = "syncing" /\ p.uuid = u
  BY DEF Peer, Stages, NoPeer
<1>3. peer' = [peer EXCEPT ![n] = p]
  OBVIOUS
<1> HIDE DEF p
<1>4. PeerType'
  BY <1>1, <1>2, <1>3 DEF PeerType
<1>5. peer'[n] = p /\ \A k \in PeerNums : k # n => peer'[k] = peer[k]
  BY <1>1, <1>3 DEF PeerType
<1>6. Established' = Established \cup {n}
  BY <1>1, <1>2, <1>5 DEF Established, Allocated
<1>7. \A k \in Established : k # n /\ peer'[k].uuid = peer[k].uuid /\ peer[k].uuid # u
  BY <1>1, <1>5 DEF Established, Allocated, peer_already
<1>8. /\ Cardinality(Established) \in Nat
      /\ Cardinality(Established') = Cardinality(Established) + 1
  BY <1>1, <1>6, EstablishedFinite, FS_AddElement DEF Established, Allocated
<1>9. ConnectedAreThere'
  BY <1>8 DEF OnePeerPerNode, ConnectedAreThere, PeerType
<1>10. \A k, m \in Established' :
          peer'[k].uuid # Self /\ (peer'[k].uuid = peer'[m].uuid => k = m)
  BY <1>2, <1>5, <1>6, <1>7 DEF OnePeerPerNode
<1> QED BY <1>4, <1>9, <1>10 DEF OnePeerPerNode
-----------------------------------------------------------------------------
(* Steps that touch neither the cache nor the peers. *)
LEMMA SameCache ==
    ASSUME CacheType, CacheSurvives, UNCHANGED <<cache, disk, randbytes, removed>>
    PROVE  (CacheType /\ CacheSurvives)'
BY DEF CacheType, CacheSurvives, check_peer_cache

(* A step that leaves the peers alone. *)
LEMMA SamePeers ==
    ASSUME PeerType, OnePeerPerNode, UNCHANGED <<peer, connected>>
    PROVE  PeerType' /\ OnePeerPerNode'
BY DEF PeerType, OnePeerPerNode, ConnectedAreThere, Established, Allocated

(* Nobody is connected at the start. *)
LEMMA NoPeers ==
    ASSUME NEW p, p = [n \in PeerNums |-> NoPeer]
    PROVE  /\ p \in [PeerNums -> Peer \cup {NoPeer}]
           /\ {n \in {k \in PeerNums : p[k] # NoPeer} :
                  p[n].stage \in {"syncing", "duplex", "synced"}} = {}
           /\ 0 <= Cardinality({n \in {k \in PeerNums : p[k] # NoPeer} :
                  p[n].stage \in {"syncing", "duplex", "synced"}})
<1>1. {n \in {k \in PeerNums : p[k] # NoPeer} :
         p[n].stage \in {"syncing", "duplex", "synced"}} = {}
  OBVIOUS
<1>2. 0 <= Cardinality({})
  BY FS_EmptySet
<1> QED BY <1>1, <1>2

(* A restart: the file is read, or found corrupt and made anew. *)
LEMMA RestartStep ==
    ASSUME PeersInv, restart
    PROVE  PeersInv'
<1>1. peer' = [n \in PeerNums |-> NoPeer] /\ connected' = 0
  BY DEF restart
<1>2. PeerType' /\ OnePeerPerNode'
  BY <1>1, NoPeers DEF PeerType, OnePeerPerNode, ConnectedAreThere, Established, Allocated
<1>3. Zero \in Entry
  BY DEF Entry
<1>4. CacheType'
  BY <1>3 DEF restart, PeersInv, CacheType
<1>5. CacheSurvives'
  BY DEF restart, PeersInv, CacheType, CacheSurvives, check_peer_cache
<1> QED BY <1>2, <1>4, <1>5 DEF PeersInv

(* A round of fill_peers(). *)
LEMMA FillStep ==
    ASSUME PeersInv, fill_peers
    PROVE  PeersInv'
<1>1. UNCHANGED <<randbytes, connected, removed>>
  BY DEF fill_peers
<1>2. CASE UNCHANGED <<cache, disk, peer>>
  BY <1>1, <1>2, SameCache, SamePeers DEF PeersInv
<1>3. CASE ~UNCHANGED <<cache, disk, peer>>
  <2>1. num_peers < MinPeers
    <3>1. Allocated \subseteq PeerNums
      BY DEF Allocated
    <3>2. num_peers \in Nat
      BY <3>1, EstablishedFinite DEF num_peers
    <3>3. ~(num_peers >= MinPeers)
      BY <1>3 DEF fill_peers
    <3> QED BY <3>2, <3>3, PeersAssumption
  <2>2. PICK i \in FirstCandidate :
           \/ /\ peer' = [peer EXCEPT ![get_peernum] =
                   [stage |-> "connecting", addr |-> cache[i].addr, uuid |-> cache[i].uuid]]
              /\ UNCHANGED <<cache, disk>>
           \/ peer_cache_del(cache[i].addr, TRUE) /\ UNCHANGED peer
    BY <1>3 DEF fill_peers
  <2>3. cache[i] \in [addr : Addrs, uuid : Uuids \cup {NoUuid}]
    BY <2>2 DEF FirstCandidate, Candidates, PeersInv, CacheType, Entry
  <2>4. CASE peer' = [peer EXCEPT ![get_peernum] =
                 [stage |-> "connecting", addr |-> cache[i].addr, uuid |-> cache[i].uuid]]
             /\ UNCHANGED <<cache, disk>>
    <3> DEFINE p == [stage |-> "connecting", addr |-> cache[i].addr, uuid |-> cache[i].uuid]
    <3>1. p \in Peer /\ p.stage = "connecting"
      BY <2>3 DEF Peer, Stages
    <3>2. FreeNums # {}
      BY <2>1, RoomToFill
    <3>3. peer' = [peer EXCEPT ![get_peernum] = p]
      BY <2>4
    <3> HIDE DEF p
    <3>4. PeerType' /\ OnePeerPerNode'
      BY <1>1, <3>1, <3>2, <3>3, AllocatePeer DEF PeersInv
    <3> QED BY <1>1, <2>4, <3>4, SameCache DEF PeersInv
  <2>5. CASE peer_cache_del(cache[i].addr, TRUE) /\ UNCHANGED peer
    <3>1. (CacheType /\ CacheSurvives)'
      BY <1>1, <2>3, <2>5, DelKeepsCache DEF PeersInv
    <3> QED BY <1>1, <2>5, <3>1, SamePeers DEF PeersInv
  <2> QED BY <2>2, <2>4, <2>5
<1> QED BY <1>2, <1>3

(* destroy_peer(), from any stage of the connection; num_peers_connected   *)
(* is one more when it runs after check_welcome() refused a welcome.       *)
LEMMA DestroyStep ==
    ASSUME PeersInv, NEW n \in Allocated,
           \/ DestroyPeer(n, peer[n].stage, connected)
           \/ peer[n].stage = "reading" /\ DestroyPeer(n, "reading", connected + 1)
    PROVE  PeersInv'
<1>1. /\ peer[n].addr \in Addrs /\ peer[n].stage \in Stages /\ connected \in Int
  BY DEF Allocated, PeersInv, PeerType, Peer
<1>2. PICK s \in Stages, d \in {connected, connected + 1} :
         /\ DestroyPeer(n, s, d) /\ s = peer[n].stage
         /\ d = connected \/ s = "reading"
  BY <1>1
<1>3. /\ peer' = [peer EXCEPT ![n] = NoPeer] /\ connected' \in {d, d - 1}
      /\ UNCHANGED <<randbytes, removed>>
  BY <1>2 DEF DestroyPeer
<1>4. connected' \in Int /\ connected' <= IF n \in Established THEN connected - 1 ELSE connected
  <2>1. CASE s \in {"connecting", "welcoming"}
    <3>1. connected' = d /\ d = connected /\ n \notin Established
      BY <1>2, <2>1 DEF DestroyPeer, Established
    <3> QED BY <1>1, <3>1
  <2>2. CASE s \notin {"connecting", "welcoming"}
    <3>1. connected' = d - 1
      BY <1>2, <2>2 DEF DestroyPeer
    <3>2. s = "reading" => n \notin Established
      BY <1>2 DEF Established
    <3> QED BY <1>1, <1>2, <3>1, <3>2
  <2> QED BY <2>1, <2>2
<1>5. PeerType' /\ OnePeerPerNode'
  BY <1>3, <1>4, DropPeer DEF PeersInv
<1>6. \/ \E b \in BOOLEAN : peer_cache_del(peer[n].addr, b)
      \/ UNCHANGED <<cache, disk>>
  <2>1. (d # 0) \in BOOLEAN
    OBVIOUS
  <2> QED BY <1>2, <2>1 DEF DestroyPeer
<1>7. (CacheType /\ CacheSurvives)'
  BY <1>1, <1>3, <1>6, DelKeepsCache, SameCache DEF PeersInv
<1> QED BY <1>5, <1>7 DEF PeersInv

(* A welcome from a node that is connected already: what is written on     *)
(* disk is the entry that goes from memory, with its uuid.                 *)
LEMMA DuplicateStep ==
    ASSUME PeersInv, NEW n \in Allocated, NEW u \in Uuids, welcome_duplicate(n, u)
    PROVE  PeersInv'
<1> DEFINE i == peer_hash_entry(peer[n].addr)
           f == [cache[i] EXCEPT !.uuid = u]
<1>1. peer[n].addr \in Addrs /\ connected \in Int
  BY DEF Allocated, PeersInv, PeerType, Peer
<1>2. /\ peer' = [peer EXCEPT ![n] = NoPeer] /\ connected' = connected
      /\ peer[n].stage = "reading" /\ UNCHANGED <<randbytes, removed>>
  BY DEF welcome_duplicate
<1>3. PeerType' /\ OnePeerPerNode'
  <2>1. connected' \in Int /\ connected' <= IF n \in Established THEN connected - 1 ELSE connected
    BY <1>1, <1>2 DEF Established
  <2> QED BY <1>2, <2>1, DropPeer DEF PeersInv
<1>4. (CacheType /\ CacheSurvives)'
  <2>1. CASE cache[i].addr # peer[n].addr
    <3>1. UNCHANGED <<cache, disk>>
      BY <2>1 DEF welcome_duplicate
    <3> QED BY <1>2, <3>1, SameCache DEF PeersInv
  <2>2. CASE cache[i].addr = peer[n].addr
    <3>1. cache' = [cache EXCEPT ![i] = Zero] /\ disk' = [disk EXCEPT ![i] = f]
      BY <2>2 DEF welcome_duplicate, Set, update_on_disk
    <3>2. i \in Buckets /\ cache[i] \in Entry /\ BucketOf[randbytes][peer[n].addr] = i
      BY <1>1, HashEntry DEF PeersInv, CacheType, peer_hash_entry
    <3>3. f = [addr |-> peer[n].addr, uuid |-> u]
      BY <2>2, <3>2 DEF Entry, Zero
    <3>4. f \in Entry /\ Zero \in Entry /\ f.addr = peer[n].addr
      BY <1>1, <3>3 DEF Entry
    <3> HIDE DEF f, i
    <3>5. cache' \in [Buckets -> Entry]
      BY <3>1, <3>2, <3>4 DEF PeersInv, CacheType
    <3>6. disk' \in [Buckets -> Entry]
      BY <3>1, <3>2, <3>4 DEF PeersInv, CacheType
    <3>7. /\ cache'[i] = Zero /\ disk'[i] = f
          /\ \A k \in Buckets : k # i => cache'[k] = cache[k] /\ disk'[k] = disk[k]
      BY <3>1, <3>2 DEF PeersInv, CacheType
    <3>8. check_peer_cache(disk', randbytes')
      BY <1>2, <3>2, <3>4, <3>7 DEF PeersInv, CacheSurvives, check_peer_cache
    <3>9. ~removed' => \A k \in Buckets : cache'[k] # Zero => cache'[k] = disk'[k]
      BY <1>2, <3>7 DEF PeersInv, CacheSurvives
    <3>10. CacheType'
      BY <1>2, <3>5, <3>6 DEF PeersInv, CacheType
    <3> QED BY <3>8, <3>9, <3>10 DEF CacheSurvives, check_peer_cache
  <2> QED BY <2>1, <2>2
<1> QED BY <1>3, <1>4 DEF PeersInv

(* A step of one connection keeps the invariant. *)
LEMMA ConnectionStep ==
    ASSUME PeersInv, NEW n \in Allocated,
           \/ setup_welcome(n) \/ read_packet_part(n) \/ destroy_peer(n)
           \/ welcome_refused(n) \/ welcome_from_self(n)
           \/ \E u \in Uuids \ {Self} : welcome_duplicate(n, u)
           \/ \E u \in Uuids \ {Self}, a \in Addrs : welcome_received(n, u, a)
           \/ check_sync_or_horizon(n) \/ finish_syncing(n)
           \/ \E a \in Addrs, u \in Uuids \cup {NoUuid} : recv_pkt_peers(n, a, u)
    PROVE  PeersInv'
<1>0. /\ peer[n].addr \in Addrs /\ connected \in Int
  BY DEF Allocated, PeersInv, PeerType, Peer
<1>1. CASE setup_welcome(n)
  BY <1>1, MoveStage, SameCache DEF setup_welcome, PeersInv, Stages
<1>2. CASE read_packet_part(n)
  BY <1>2, MoveStage, SameCache DEF read_packet_part, PeersInv, Stages
<1>3. CASE destroy_peer(n)
  BY <1>0, <1>3, DestroyStep DEF destroy_peer
<1>4. CASE welcome_refused(n)
  BY <1>0, <1>4, DestroyStep DEF welcome_refused
<1>5. CASE welcome_from_self(n)
  <2>0. connected' \in Int /\ connected' <= IF n \in Established THEN connected - 1 ELSE connected
    BY <1>0, <1>5 DEF Established, welcome_from_self
  <2>1. PeerType' /\ OnePeerPerNode'
    BY <1>5, <2>0, DropPeer DEF welcome_from_self, PeersInv
  <2>2. (CacheType /\ CacheSurvives)'
    BY <1>0, <1>5, DelKeepsCache DEF welcome_from_self, PeersInv
  <2> QED BY <2>1, <2>2 DEF PeersInv
<1>6. CASE \E u \in Uuids \ {Self} : welcome_duplicate(n, u)
  BY <1>6, DuplicateStep
<1>7. CASE \E u \in Uuids \ {Self}, a \in Addrs : welcome_received(n, u, a)
  <2>1. PICK u \in Uuids \ {Self}, a \in Addrs : welcome_received(n, u, a)
    BY <1>7
  <2>2. PeerType' /\ OnePeerPerNode'
    BY <2>1, EstablishPeer DEF welcome_received, PeersInv
  <2>3. (CacheType /\ CacheSurvives)'
    BY <1>0, <2>1, RefreshKeepsCache DEF welcome_received, PeersInv
  <2> QED BY <2>2, <2>3 DEF PeersInv
<1>8. CASE check_sync_or_horizon(n)
  BY <1>8, MoveStage, SameCache DEF check_sync_or_horizon, PeersInv, Stages
<1>9. CASE finish_syncing(n)
  BY <1>9, MoveStage, SameCache DEF finish_syncing, PeersInv, Stages
<1>10. CASE \E a \in Addrs, u \in Uuids \cup {NoUuid} : recv_pkt_peers(n, a, u)
  BY <1>10, DigestKeepsCache, SamePeers DEF recv_pkt_peers, PeersInv
<1> QED BY <1>1, <1>2, <1>3, <1>4, <1>5, <1>6, <1>7, <1>8, <1>9, <1>10

(* Every step keeps the invariant. *)
LEMMA PeersStep ==
    ASSUME PeersInv, [PeersNext]_peersVars
    PROVE  PeersInv'
<1>1. CASE restart
  BY <1>1, RestartStep
<1>2. CASE fill_peers
  BY <1>2, FillStep
<1>3. CASE \E a \in Addrs : new_peer(a)
  <2>1. PICK a \in Addrs : new_peer(a)
    BY <1>3
  <2> DEFINE p == [stage |-> "welcoming", addr |-> a, uuid |-> NoUuid]
  <2>2. p \in Peer /\ p.stage = "welcoming" /\ FreeNums # {}
    BY <2>1 DEF Peer, Stages, new_peer
  <2>3. /\ peer' = [peer EXCEPT ![get_peernum] = p]
        /\ UNCHANGED <<cache, disk, randbytes, connected, removed>>
    BY <2>1 DEF new_peer
  <2> HIDE DEF p
  <2>4. PeerType' /\ OnePeerPerNode'
    BY <2>2, <2>3, AllocatePeer DEF PeersInv
  <2> QED BY <2>3, <2>4, SameCache DEF PeersInv
<1>4. CASE setup_peer \/ start_connecting \/ read_seed_peers \/ unset_peer_seeding
           \/ UNCHANGED peersVars
  <2>1. UNCHANGED <<cache, disk, randbytes, peer, connected, removed>>
    BY <1>4 DEF setup_peer, start_connecting, read_seed_peers, unset_peer_seeding, peersVars
  <2> QED BY <2>1, SameCache, SamePeers DEF PeersInv
<1>5. CASE \E n \in Allocated :
              \/ setup_welcome(n) \/ read_packet_part(n) \/ destroy_peer(n)
              \/ welcome_refused(n) \/ welcome_from_self(n)
              \/ \E u \in Uuids \ {Self} : welcome_duplicate(n, u)
              \/ \E u \in Uuids \ {Self}, a \in Addrs : welcome_received(n, u, a)
              \/ check_sync_or_horizon(n) \/ finish_syncing(n)
              \/ \E a \in Addrs, u \in Uuids \cup {NoUuid} : recv_pkt_peers(n, a, u)
  BY <1>5, ConnectionStep
<1>6. CASE \E a \in Addrs, u \in Uuids \cup {NoUuid} : digest_peer_pkt(a, u)
  BY <1>6, DigestKeepsCache, SamePeers DEF digest_peer_pkt, PeersInv
<1> QED BY <1>1, <1>2, <1>3, <1>4, <1>5, <1>6 DEF PeersNext

(* The inductive invariant holds in every reachable state. *)
LEMMA PeersInvariant == PeersSpec => []PeersInv
<1>1. PeersInit => PeersInv
  <2> SUFFICES ASSUME PeersInit PROVE PeersInv
    OBVIOUS
  <2>1. Zero \in Entry
    BY DEF Entry
  <2>2. CacheType
    BY <2>1 DEF PeersInit, CacheType
  <2>3. CacheSurvives
    BY DEF PeersInit, CacheSurvives, check_peer_cache
  <2>4. peer = [n \in PeerNums |-> NoPeer] /\ connected = 0
    BY DEF PeersInit
  <2>5. PeerType /\ OnePeerPerNode
    BY <2>4, NoPeers DEF PeerType, OnePeerPerNode, ConnectedAreThere, Established, Allocated
  <2> QED BY <2>2, <2>3, <2>5 DEF PeersInv
<1> QED BY <1>1, PeersStep, PTL DEF PeersSpec

(* However connections in both directions, over several addresses and with *)
(* stale uuids race, welcome_received() leaves at most one to each node    *)
(* and none to ourselves, and num_peers_connected counts none that is gone.*)
THEOREM ConnectedOnce == PeersSpec => []OnePeerPerNode
<1>1. PeersInv => OnePeerPerNode
  BY DEF PeersInv
<1> QED BY <1>1, PeersInvariant, PTL

(* Whatever is added, refreshed, dropped or erased, the peer cache on disk *)
(* passes check_peer_cache() at the next start, and holds all that the one *)
(* in memory does.                                                         *)
THEOREM CacheReadable == PeersSpec => []CacheSurvives
<1>1. PeersInv => CacheSurvives
  BY DEF PeersInv
<1> QED BY <1>1, PeersInvariant, PTL

-----------------------------------------------------------------------------
(* The gateway *)

Amounts == {from_gateway(d) : d \in Deposits}
Process == [at : {"down", "setup", "poll", "list", "record"}, known_txs : Nat,
            thash : SUBSET Deposits, list : Seq(Deposits), conf : SUBSET Deposits]

GatewayType ==
    /\ bitcoin \in Seq(Deposits) /\ txs \in Seq(Deposits)
    /\ proc \in [Procs -> Process]
    /\ paid \in [Deposits -> Seq(Amounts)] /\ lost \in [Deposits -> Nat]
    /\ lock \subseteq Procs /\ confirmed \subseteq Deposits

(* bitcoind lists a deposit once. *)
Distinct == \A i, j \in DOMAIN bitcoin : bitcoin[i] = bitcoin[j] => i = j

(* Whoever is in the loop has the lock on gateway-txs, and nobody else. *)
Running(s) == s.at \in {"poll", "list", "record"}

Exclusive ==
    /\ \A p \in Procs : Running(proc[p]) <=> p \in lock
    /\ \A p, q \in lock : p = q

(* Where a copy in the state s is, when bitcoind has B and the complete    *)
(* records are T: what it has left of the answer follows the known_txs     *)
(* deposits it is past; they are recorded, but for the one in hand; and    *)
(* what is recorded it knows, from the file or because it is past it.      *)
Progress(s, B, T) ==
    /\ s.known_txs <= Len(B)
    /\ ~Running(s) => s.known_txs = 0
    /\ s.at = "list" => \A j \in DOMAIN s.list :
          s.known_txs + j <= Len(B) /\ s.list[j] = B[s.known_txs + j]
    /\ s.at = "record" =>
          /\ s.known_txs > 0 /\ s.list # <<>>
          /\ \A j \in DOMAIN s.list :
                s.known_txs + j - 1 <= Len(B) /\ s.list[j] = B[s.known_txs + j - 1]
          /\ s.list[1] \notin T
    /\ Running(s) =>
          /\ \A i \in 1 .. s.known_txs : (s.at = "record" => i < s.known_txs) => B[i] \in T
          /\ \A d \in T : d \in s.thash \/ \E i \in 1 .. s.known_txs : B[i] = d
          /\ s.thash \subseteq T

Recorded == {txs[i] : i \in DOMAIN txs}

PaymentsAdd ==
    \A d \in Deposits : /\ Records(d) \in {0, 1} /\ (Records(d) = 1 <=> d \in Recorded)
                        /\ Len(paid[d]) = Records(d) + InHand(d) + lost[d]

GatewayInv ==
    /\ GatewayType /\ Distinct /\ Exclusive
    /\ \A p \in Procs : Progress(proc[p], bitcoin, Recorded)
    /\ PaymentsAdd

-----------------------------------------------------------------------------
(* At most one deposit is in hand: that of the copy which has the lock. *)
LEMMA InHandOne ==
    ASSUME GatewayInv, NEW d \in Deposits
    PROVE  /\ InHand(d) \in {0, 1}
           /\ InHand(d) = 1 <=> \E p \in Procs : proc[p].at = "record" /\ Head(proc[p].list) = d
<1> DEFINE H == {p \in Procs : proc[p].at = "record" /\ Head(proc[p].list) = d}
<1>1. \A p, q \in H : p = q
  BY DEF GatewayInv, Exclusive, Running
<1>2. CASE H = {}
  <2>1. Cardinality(H) = 0
    BY <1>2, FS_EmptySet
  <2> QED BY <1>2, <2>1 DEF InHand
<1>3. CASE H # {}
  <2>1. PICK p \in H : H = {p}
    BY <1>1, <1>3
  <2>2. Cardinality(H) = 1
    BY <2>1, FS_Singleton
  <2> QED BY <2>1, <2>2 DEF InHand
<1> QED BY <1>2, <1>3

(* A copy moves with at most its own list and count; nothing is paid,      *)
(* recorded or lost, and it had and has no payment in hand.                *)
LEMMA MoveStep ==
    ASSUME GatewayInv, NEW p \in Procs, NEW s \in Process,
           proc' = [proc EXCEPT ![p] = s],
           UNCHANGED <<bitcoin, confirmed, txs, paid, lost>>,
           proc[p].at # "record", s.at # "record",
           lock' = IF Running(s) THEN lock \cup {p} ELSE lock \ {p},
           lock' \subseteq {p} \/ p \notin lock',
           Progress(s, bitcoin, Recorded)
    PROVE  GatewayInv'
<1>1. proc' \in [Procs -> Process] /\ proc'[p] = s /\ \A q \in Procs : q # p => proc'[q] = proc[q]
  BY DEF GatewayInv, GatewayType
<1>2. GatewayType'
  BY <1>1 DEF GatewayInv, GatewayType
<1>3. Distinct'
  BY DEF GatewayInv, Distinct
<1>4. Exclusive'
  BY <1>1 DEF GatewayInv, Exclusive
<1>5. Recorded' = Recorded
  BY DEF Recorded
<1>6. \A q \in Procs : Progress(proc[q], bitcoin, Recorded)'
  <2> SUFFICES ASSUME NEW q \in Procs PROVE Progress(proc'[q], bitcoin, Recorded)
    BY <1>5 DEF Progress
  <2> QED BY <1>1 DEF GatewayInv
<1>7. \A d \in Deposits : InHand(d)' = InHand(d) /\ Records(d)' = Records(d)
  <2> SUFFICES ASSUME NEW d \in Deposits
               PROVE  InHand(d)' = InHand(d) /\ Records(d)' = Records(d)
    OBVIOUS
  <2>1. {q \in Procs : proc'[q].at = "record" /\ Head(proc'[q].list) = d}
          = {q \in Procs : proc[q].at = "record" /\ Head(proc[q].list) = d}
    BY <1>1
  <2> QED BY <2>1 DEF InHand, Records
<1>8. PaymentsAdd'
  BY <1>5, <1>7 DEF GatewayInv, PaymentsAdd
<1> QED BY <1>2, <1>3, <1>4, <1>6, <1>8 DEF GatewayInv
-----------------------------------------------------------------------------
(* The process states the actions write are states of a process. *)
LEMMA ProcessStates ==
    ASSUME NEW s \in Process, NEW a \in {"down", "setup", "poll", "list", "record"}
    PROVE  /\ Down \in Process /\ ~Running(Down) /\ Down.at # "record" /\ Down.known_txs = 0
           /\ [s EXCEPT !.at = a] \in Process
           /\ s.at \in {"down", "setup", "poll", "list", "record"}
           /\ s.known_txs \in Nat /\ s.list \in Seq(Deposits) /\ s.thash \subseteq Deposits
<1>1. Down = [at |-> "down", known_txs |-> 0, thash |-> {}, list |-> <<>>, conf |-> {}]
  BY DEF Down
<1>2. Down \in Process
  BY <1>1 DEF Process
<1> QED BY <1>1, <1>2 DEF Process, Running

(* The environment pays: bitcoind's list grows at its end. *)
LEMMA DepositStep ==
    ASSUME GatewayInv, NEW d \in Deposits, deposit(d)
    PROVE  GatewayInv'
<1>1. /\ bitcoin' = Append(bitcoin, d) /\ bitcoin \in Seq(Deposits)
      /\ \A i \in DOMAIN bitcoin : bitcoin[i] # d
      /\ UNCHANGED <<confirmed, txs, proc, paid, lost, lock>>
  BY DEF deposit, GatewayInv, GatewayType
<1>2. /\ bitcoin' \in Seq(Deposits) /\ Len(bitcoin') = Len(bitcoin) + 1
      /\ DOMAIN bitcoin = 1 .. Len(bitcoin) /\ DOMAIN bitcoin' = 1 .. Len(bitcoin) + 1
      /\ \A i \in 1 .. Len(bitcoin) : bitcoin'[i] = bitcoin[i]
      /\ bitcoin'[Len(bitcoin) + 1] = d /\ Len(bitcoin) \in Nat
  BY <1>1
<1>3. GatewayType' /\ Exclusive'
  BY <1>1, <1>2 DEF GatewayInv, GatewayType, Exclusive
<1>4. Distinct'
  BY <1>1, <1>2 DEF GatewayInv, Distinct
<1>5. Recorded' = Recorded
  BY <1>1 DEF Recorded
<1>6. \A p \in Procs : Progress(proc[p], bitcoin, Recorded)'
  <2> SUFFICES ASSUME NEW p \in Procs PROVE Progress(proc[p], bitcoin', Recorded)
    BY <1>1, <1>5 DEF Progress
  <2> DEFINE s == proc[p]
  <2>1. s \in Process /\ Progress(s, bitcoin, Recorded)
    BY DEF GatewayInv, GatewayType
  <2> HIDE DEF s
  <2>2. /\ s.known_txs \in Nat /\ s.list \in Seq(Deposits)
        /\ DOMAIN s.list = 1 .. Len(s.list) /\ Len(s.list) \in Nat
    <3>1. s.known_txs \in Nat /\ s.list \in Seq(Deposits)
      BY <2>1 DEF Process
    <3> QED BY <3>1
  <2>3. s.known_txs <= Len(bitcoin') /\ (~Running(s) => s.known_txs = 0)
    BY <1>2, <2>1, <2>2 DEF Progress
  <2>4. s.at = "list" => \A j \in DOMAIN s.list :
            s.known_txs + j <= Len(bitcoin') /\ s.list[j] = bitcoin'[s.known_txs + j]
    BY <1>2, <2>1, <2>2 DEF Progress
  <2>5. s.at = "record" =>
          /\ s.known_txs > 0 /\ s.list # <<>>
          /\ \A j \in DOMAIN s.list :
                s.known_txs + j - 1 <= Len(bitcoin') /\ s.list[j] = bitcoin'[s.known_txs + j - 1]
          /\ s.list[1] \notin Recorded
    BY <1>2, <2>1, <2>2 DEF Progress
  <2>6. Running(s) =>
          /\ \A i \in 1 .. s.known_txs : (s.at = "record" => i < s.known_txs) => bitcoin'[i] \in Recorded
          /\ \A e \in Recorded : e \in s.thash \/ \E i \in 1 .. s.known_txs : bitcoin'[i] = e
          /\ s.thash \subseteq Recorded
    BY <1>2, <2>1, <2>2 DEF Progress
  <2>7. Progress(s, bitcoin', Recorded)
    BY <2>3, <2>4, <2>5, <2>6 DEF Progress
  <2> QED BY <2>7 DEF s
<1>7. PaymentsAdd'
  BY <1>1, <1>5 DEF GatewayInv, PaymentsAdd, Records, InHand
<1> QED BY <1>3, <1>4, <1>6, <1>7 DEF GatewayInv

(* A step that changes nothing the invariant is about. *)
LEMMA IdleStep ==
    ASSUME GatewayInv, UNCHANGED <<bitcoin, txs, lock, proc, paid, lost>>,
           confirmed' \subseteq Deposits
    PROVE  GatewayInv'
<1>1. GatewayType' /\ Distinct' /\ Exclusive'
  BY DEF GatewayInv, GatewayType, Distinct, Exclusive
<1>2. Recorded' = Recorded
  BY DEF Recorded
<1>3. \A p \in Procs : Progress(proc[p], bitcoin, Recorded)'
  BY <1>2 DEF GatewayInv, Progress
<1>4. PaymentsAdd'
  BY <1>2 DEF GatewayInv, PaymentsAdd, Records, InHand
<1> QED BY <1>1, <1>3, <1>4 DEF GatewayInv

(* setup_gateway(), read_gateway_txs() and listtransactions(): a copy that *)
(* gets no further than the next answer.                                   *)
LEMMA SetupStep ==
    ASSUME GatewayInv, NEW p \in Procs, setup_gateway(p)
    PROVE  GatewayInv'
<1> DEFINE s == IF files' = Len(SetupFiles) THEN Down ELSE [Down EXCEPT !.at = "setup"]
<1>1. proc' = [proc EXCEPT ![p] = s] /\ UNCHANGED <<bitcoin, confirmed, txs, paid, lost, lock>>
  BY DEF setup_gateway
<1>2. /\ s \in Process /\ ~Running(s) /\ s.at # "record" /\ s.known_txs = 0
      /\ s.at # "list"
  <2>1. Down = [at |-> "down", known_txs |-> 0, thash |-> {}, list |-> <<>>, conf |-> {}]
    BY DEF Down
  <2>2. Down \in Process
    BY <2>1 DEF Process
  <2>3. s = Down \/ s = [Down EXCEPT !.at = "setup"]
    OBVIOUS
  <2> HIDE DEF s
  <2>4. CASE s = Down
    BY <2>1, <2>2, <2>4 DEF Running
  <2>5. CASE s = [Down EXCEPT !.at = "setup"]
    <3>1. s \in Process /\ s.at = "setup" /\ s.known_txs = Down.known_txs
      BY <2>2, <2>5 DEF Process
    <3> QED BY <2>1, <3>1 DEF Running
  <2> QED BY <2>3, <2>4, <2>5
<1>3. proc[p].at # "record" /\ ~Running(proc[p])
  BY ProcessStates DEF setup_gateway, Running, Down
<1> HIDE DEF s
<1>4. p \notin lock /\ lock' = lock \ {p}
  BY <1>1, <1>3 DEF GatewayInv, Exclusive
<1>5. Progress(s, bitcoin, Recorded)
  <2>1. 0 <= Len(bitcoin)
    BY DEF GatewayInv, GatewayType
  <2> QED BY <1>2, <2>1 DEF Progress
<1> QED BY <1>1, <1>2, <1>3, <1>4, <1>5, MoveStep

(* read_gateway_txs(): a copy starts with what the file records. *)
LEMMA ReadStep ==
    ASSUME GatewayInv, NEW p \in Procs, read_gateway_txs(p)
    PROVE  GatewayInv'
<1> DEFINE s == [Down EXCEPT !.at = "poll", !.thash = {txs[i] : i \in DOMAIN txs}]
<1>1. /\ proc' = [proc EXCEPT ![p] = s] /\ UNCHANGED <<bitcoin, confirmed, txs, paid, lost>>
      /\ lock' = lock \cup {p} /\ lock \subseteq {p} /\ proc[p] = Down
  BY DEF read_gateway_txs, get_lock
<1>2. s = [at |-> "poll", known_txs |-> 0, thash |-> Recorded, list |-> <<>>, conf |-> {}]
  <2>1. Down = [at |-> "down", known_txs |-> 0, thash |-> {}, list |-> <<>>, conf |-> {}]
    BY DEF Down
  <2>2. s = [Down EXCEPT !.at = "poll", !.thash = Recorded]
    BY DEF Recorded
  <2> HIDE DEF s
  <2> QED BY <2>1, <2>2
<1>3. Recorded \subseteq Deposits
  BY DEF GatewayInv, GatewayType, Recorded
<1> HIDE DEF s
<1>4. s \in Process
  BY <1>2, <1>3 DEF Process
<1>5. Running(s) /\ s.at # "record" /\ proc[p].at # "record" /\ lock' \subseteq {p}
  BY <1>1, <1>2 DEF Running, Down
<1>6. Progress(s, bitcoin, Recorded)
  <2>1. 0 <= Len(bitcoin)
    BY DEF GatewayInv, GatewayType
  <2> QED BY <1>2, <1>5, <2>1 DEF Progress
<1>7. lock' = IF Running(s) THEN lock \cup {p} ELSE lock \ {p}
  BY <1>1, <1>5
<1> QED BY <1>1, <1>4, <1>5, <1>6, <1>7, MoveStep

(* listtransactions(): what bitcoind has after known_txs is on the list. *)
LEMMA ListStep ==
    ASSUME GatewayInv, NEW p \in Procs, listtransactions(p)
    PROVE  GatewayInv'
<1> DEFINE k == proc[p].known_txs
           list == SubSeq(bitcoin, k + 1, Len(bitcoin))
           s == [proc[p] EXCEPT !.at = "list", !.conf = confirmed, !.list = list]
<1>1. /\ proc[p] \in Process /\ proc[p].at = "poll" /\ Progress(proc[p], bitcoin, Recorded)
      /\ bitcoin \in Seq(Deposits) /\ confirmed \subseteq Deposits
  BY DEF listtransactions, GatewayInv, GatewayType
<1>2. proc' = [proc EXCEPT ![p] = s]
  BY DEF listtransactions
<1>3. k \in Nat /\ k <= Len(bitcoin)
  BY <1>1 DEF Process, Progress
<1>4. /\ list \in Seq(Deposits)
      /\ \A j \in DOMAIN list : k + j <= Len(bitcoin) /\ list[j] = bitcoin[k + j]
  BY <1>1, <1>3
<1>5. /\ s \in Process /\ s.at = "list" /\ s.list = list
      /\ s.known_txs = k /\ s.thash = proc[p].thash
  <2>1. s = [proc[p] EXCEPT !.at = "list", !.conf = confirmed, !.list = list]
    OBVIOUS
  <2>2. confirmed \in SUBSET Deposits /\ "list" \in {"poll", "list"}
    BY <1>1
  <2> HIDE DEF list, s
  <2> QED BY <1>1, <1>4, <2>1, <2>2 DEF Process
<1>6. /\ \A i \in 1 .. k : bitcoin[i] \in Recorded
      /\ \A d \in Recorded : d \in proc[p].thash \/ \E i \in 1 .. k : bitcoin[i] = d
      /\ proc[p].thash \subseteq Recorded
  BY <1>1 DEF Progress, Running
<1>7. /\ UNCHANGED <<bitcoin, confirmed, txs, paid, lost>> /\ lock' = lock
      /\ proc[p].at # "record"
  BY DEF listtransactions
<1>8. p \in lock /\ lock \subseteq {p}
  BY <1>1 DEF GatewayInv, Exclusive, Running
<1> HIDE DEF s, list, k
<1>9. Progress(s, bitcoin, Recorded) /\ Running(s)
  BY <1>3, <1>4, <1>5, <1>6 DEF Progress, Running
<1>10. lock' = IF Running(s) THEN lock \cup {p} ELSE lock \ {p}
  BY <1>7, <1>8, <1>9
<1> QED BY <1>2, <1>5, <1>7, <1>8, <1>9, <1>10, MoveStep

-----------------------------------------------------------------------------
(* What is known of a copy inside the loop over an answer. *)
LEMMA InLoop ==
    ASSUME GatewayInv, NEW p \in Procs, proc[p].at = "list"
    PROVE  LET k == proc[p].known_txs
               list == proc[p].list
           IN
           /\ p \in lock /\ lock \subseteq {p}
           /\ \A q \in Procs : q # p => ~Running(proc[q])
           /\ proc[p] \in Process /\ bitcoin \in Seq(Deposits)
           /\ k \in Nat /\ k <= Len(bitcoin) /\ list \in Seq(Deposits)
           /\ \A j \in DOMAIN list : k + j <= Len(bitcoin) /\ list[j] = bitcoin[k + j]
           /\ \A i \in 1 .. k : bitcoin[i] \in Recorded
           /\ \A d \in Recorded : d \in proc[p].thash \/ \E i \in 1 .. k : bitcoin[i] = d
           /\ proc[p].thash \subseteq Recorded
<1>1. proc[p] \in Process /\ bitcoin \in Seq(Deposits) /\ Progress(proc[p], bitcoin, Recorded)
  BY DEF GatewayInv, GatewayType
<1>2. p \in lock /\ \A q \in Procs : q # p => ~Running(proc[q])
  BY DEF GatewayInv, Exclusive, Running
<1>3. lock \subseteq {p}
  BY <1>2 DEF GatewayInv, Exclusive
<1>4. proc[p].known_txs \in Nat /\ proc[p].list \in Seq(Deposits)
  BY <1>1 DEF Process
<1> QED BY <1>1, <1>2, <1>3, <1>4 DEF Progress, Running

(* The first of an answer and what follows it. *)
LEMMA FirstOf ==
    ASSUME NEW B \in Seq(Deposits), NEW k \in Nat, NEW list \in Seq(Deposits), list # <<>>,
           \A j \in DOMAIN list : k + j <= Len(B) /\ list[j] = B[k + j]
    PROVE  /\ Head(list) = list[1] /\ list[1] \in Deposits /\ Tail(list) \in Seq(Deposits)
           /\ k + 1 <= Len(B) /\ list[1] = B[k + 1]
           /\ \A j \in DOMAIN Tail(list) :
                 (k + 1) + j <= Len(B) /\ Tail(list)[j] = B[(k + 1) + j]
<1>1. /\ Len(list) \in Nat \ {0} /\ Head(list) = list[1]
      /\ Tail(list) \in Seq(Deposits) /\ 1 \in DOMAIN list
      /\ \A j \in DOMAIN Tail(list) : j + 1 \in DOMAIN list /\ Tail(list)[j] = list[j + 1] /\ j \in Nat
  OBVIOUS
<1>2. list[1] \in Deposits /\ k + 1 <= Len(B) /\ list[1] = B[k + 1]
  BY <1>1
<1>3. ASSUME NEW j \in DOMAIN Tail(list)
      PROVE  (k + 1) + j <= Len(B) /\ Tail(list)[j] = B[(k + 1) + j]
  <2>1. k + (j + 1) <= Len(B) /\ list[j + 1] = B[k + (j + 1)]
    BY <1>1
  <2>2. k + (j + 1) = (k + 1) + j
    BY <1>1
  <2> QED BY <1>1, <2>1, <2>2
<1> QED BY <1>1, <1>2, <1>3

(* The loop ends, or passes a deposit that is recorded. *)
LEMMA NextEntryStep ==
    ASSUME GatewayInv, NEW p \in Procs, next_entry(p)
    PROVE  GatewayInv'
<1> DEFINE k == proc[p].known_txs
           list == proc[p].list
<1>1. proc[p].at = "list" /\ UNCHANGED <<bitcoin, confirmed, txs, paid, lost>> /\ lock' = lock
  BY DEF next_entry
<1>2. /\ p \in lock /\ lock \subseteq {p}
      /\ proc[p] \in Process /\ bitcoin \in Seq(Deposits)
      /\ k \in Nat /\ k <= Len(bitcoin) /\ list \in Seq(Deposits)
      /\ \A j \in DOMAIN list : k + j <= Len(bitcoin) /\ list[j] = bitcoin[k + j]
      /\ \A i \in 1 .. k : bitcoin[i] \in Recorded
      /\ \A d \in Recorded : d \in proc[p].thash \/ \E i \in 1 .. k : bitcoin[i] = d
      /\ proc[p].thash \subseteq Recorded
  BY <1>1, InLoop
<1>3. CASE ~Confirmed(p)
  <2> DEFINE s == [proc[p] EXCEPT !.at = "poll", !.list = <<>>, !.conf = {}]
  <2>1. proc' = [proc EXCEPT ![p] = s]
    BY <1>3 DEF next_entry
  <2>2. /\ s \in Process /\ s.at = "poll"
        /\ s.known_txs = k /\ s.thash = proc[p].thash
    <3>1. <<>> \in Seq(Deposits) /\ {} \in SUBSET Deposits /\ "poll" \in {"poll", "list"}
      OBVIOUS
    <3>2. s = [proc[p] EXCEPT !.at = "poll", !.list = <<>>, !.conf = {}]
      OBVIOUS
    <3> HIDE DEF s
    <3> QED BY <1>2, <3>1, <3>2 DEF Process
  <2> HIDE DEF s, k, list
  <2>3. Progress(s, bitcoin, Recorded) /\ Running(s)
    BY <1>2, <2>2 DEF Progress, Running
  <2>4. lock' = IF Running(s) THEN lock \cup {p} ELSE lock \ {p}
    BY <1>1, <1>2, <2>3
  <2> QED BY <1>1, <1>2, <2>1, <2>2, <2>3, <2>4, MoveStep
<1>4. CASE Confirmed(p) /\ Head(list) \in proc[p].thash
  <2> DEFINE s == [proc[p] EXCEPT !.known_txs = k + 1, !.list = Tail(list)]
  <2>1. proc' = [proc EXCEPT ![p] = s]
    BY <1>4 DEF next_entry
  <2>2. /\ Head(list) = list[1] /\ Tail(list) \in Seq(Deposits)
        /\ k + 1 <= Len(bitcoin) /\ list[1] = bitcoin[k + 1]
        /\ \A j \in DOMAIN Tail(list) :
              (k + 1) + j <= Len(bitcoin) /\ Tail(list)[j] = bitcoin[(k + 1) + j]
    <3>1. list # <<>>
      BY <1>4 DEF Confirmed
    <3> HIDE DEF k, list
    <3> QED BY <1>2, <3>1, FirstOf
  <2>3. /\ s \in Process /\ s.at = "list" /\ s.list = Tail(list)
        /\ s.known_txs = k + 1 /\ s.thash = proc[p].thash
    <3>1. s = [proc[p] EXCEPT !.known_txs = k + 1, !.list = Tail(list)] /\ k + 1 \in Nat
      BY <1>2
    <3> HIDE DEF s
    <3> QED BY <1>1, <1>2, <2>2, <3>1 DEF Process
  <2>4. Head(list) \in proc[p].thash
    BY <1>4
  <2> HIDE DEF s, k, list
  <2>5. bitcoin[k + 1] \in Recorded
    BY <1>2, <2>2, <2>4
  <2>6. /\ \A i \in 1 .. k + 1 : bitcoin[i] \in Recorded
        /\ \A d \in Recorded : d \in proc[p].thash \/ \E i \in 1 .. k + 1 : bitcoin[i] = d
    BY <1>2, <2>5
  <2>7. Progress(s, bitcoin, Recorded) /\ Running(s)
    BY <1>2, <2>2, <2>3, <2>6 DEF Progress, Running
  <2>8. lock' = IF Running(s) THEN lock \cup {p} ELSE lock \ {p}
    BY <1>1, <1>2, <2>7
  <2> QED BY <1>1, <1>2, <2>1, <2>3, <2>7, <2>8, MoveStep
<1> QED BY <1>3, <1>4 DEF next_entry
-----------------------------------------------------------------------------
(* Where everybody is after a step of the copy p that may record a payment, *)
(* while no other copy runs.                                                *)
LEMMA ControlStep ==
    ASSUME GatewayInv, NEW p \in Procs, NEW s \in Process,
           proc' = [proc EXCEPT ![p] = s], UNCHANGED <<bitcoin, confirmed>>,
           p \in lock, lock' = IF Running(s) THEN lock ELSE lock \ {p},
           txs' \in Seq(Deposits), paid' \in [Deposits -> Seq(Amounts)],
           lost' \in [Deposits -> Nat], Progress(s, bitcoin, Recorded')
    PROVE  /\ GatewayType' /\ Distinct' /\ Exclusive'
           /\ \A q \in Procs : Progress(proc[q], bitcoin, Recorded)'
<1>1. proc' \in [Procs -> Process] /\ proc'[p] = s /\ \A q \in Procs : q # p => proc'[q] = proc[q]
  BY DEF GatewayInv, GatewayType
<1>2. GatewayType' /\ Distinct'
  BY <1>1 DEF GatewayInv, GatewayType, Distinct
<1>3. Exclusive'
  BY <1>1 DEF GatewayInv, Exclusive
<1>4. \A q \in Procs : q # p => ~Running(proc[q])
  BY DEF GatewayInv, Exclusive
<1>5. ASSUME NEW q \in Procs PROVE Progress(proc[q], bitcoin, Recorded)'
  <2>1. CASE q = p
    BY <1>1, <2>1 DEF Progress
  <2>2. CASE q # p
    <3> DEFINE t == proc[q]
    <3>1. ~Running(t) /\ Progress(t, bitcoin, Recorded)
      BY <1>4, <2>2 DEF GatewayInv
    <3>2. proc'[q] = t
      BY <1>1, <2>2
    <3> HIDE DEF t
    <3>3. Progress(t, bitcoin, Recorded')
      BY <3>1 DEF Progress, Running
    <3> QED BY <3>2, <3>3 DEF Progress
  <2> QED BY <2>1, <2>2
<1> QED BY <1>2, <1>3, <1>5

(* A copy that has ended. *)
LEMMA DownProgress ==
    ASSUME GatewayInv, NEW T
    PROVE  /\ Progress(Down, bitcoin, T) /\ Down \in Process
           /\ Down.at = "down" /\ ~Running(Down)
<1>1. 0 <= Len(bitcoin)
  BY DEF GatewayInv, GatewayType
<1>2. Down = [at |-> "down", known_txs |-> 0, thash |-> {}, list |-> <<>>, conf |-> {}]
  BY DEF Down
<1>3. Down \in Process
  BY <1>2 DEF Process
<1> QED BY <1>1, <1>2, <1>3 DEF Progress, Running

(* What is in hand when only p may have something in hand. *)
LEMMA OnlyHand ==
    ASSUME NEW p \in Procs, NEW d, \A q \in Procs : q # p => proc[q].at # "record"
    PROVE  InHand(d) = IF proc[p].at = "record" /\ Head(proc[p].list) = d THEN 1 ELSE 0
<1> DEFINE H == {q \in Procs : proc[q].at = "record" /\ Head(proc[q].list) = d}
<1>1. CASE proc[p].at = "record" /\ Head(proc[p].list) = d
  <2>1. H = {p}
    BY <1>1
  <2> QED BY <1>1, <2>1, FS_Singleton DEF InHand
<1>2. CASE ~(proc[p].at = "record" /\ Head(proc[p].list) = d)
  <2>1. H = {}
    BY <1>2
  <2> QED BY <1>2, <2>1, FS_EmptySet DEF InHand
<1> QED BY <1>1, <1>2

(* When no other copy has a payment in hand, the only one in hand is p's. *)
LEMMA HandAfter ==
    ASSUME NEW p \in Procs, NEW d, \A q \in Procs : q # p => proc'[q].at # "record"
    PROVE  InHand(d)' = IF proc'[p].at = "record" /\ Head(proc'[p].list) = d THEN 1 ELSE 0
<1> DEFINE H == {q \in Procs : proc'[q].at = "record" /\ Head(proc'[q].list) = d}
<1>1. InHand(d)' = Cardinality(H)
  BY DEF InHand
<1>2. CASE proc'[p].at = "record" /\ Head(proc'[p].list) = d
  <2>1. H = {p}
    BY <1>2
  <2> QED BY <1>1, <1>2, <2>1, FS_Singleton
<1>3. CASE ~(proc'[p].at = "record" /\ Head(proc'[p].list) = d)
  <2>1. H = {}
    BY <1>3
  <2> QED BY <1>1, <1>3, <2>1, FS_EmptySet
<1> QED BY <1>2, <1>3

(* write_all() of a txid: one record more of that deposit. *)
LEMMA AppendRecord ==
    ASSUME GatewayType, NEW d \in Deposits, txs' = Append(txs, d),
           NEW e \in Deposits
    PROVE  Records(e)' = IF e = d THEN Records(e) + 1 ELSE Records(e)
<1> DEFINE R == {i \in DOMAIN txs : txs[i] = e}
           R2 == {i \in DOMAIN txs' : txs'[i] = e}
<1>1. /\ txs \in Seq(Deposits) /\ Len(txs) \in Nat
      /\ DOMAIN txs = 1 .. Len(txs) /\ DOMAIN txs' = 1 .. Len(txs) + 1
      /\ \A i \in 1 .. Len(txs) : txs'[i] = txs[i]
      /\ txs'[Len(txs) + 1] = d
  BY DEF GatewayType
<1>2. IsFiniteSet(R)
  <2>1. IsFiniteSet(1 .. Len(txs))
    BY <1>1, FS_Interval
  <2> QED BY <1>1, <2>1, FS_Subset
<1>3. CASE e = d
  <2>1. R2 = R \cup {Len(txs) + 1} /\ Len(txs) + 1 \notin R
    BY <1>1, <1>3
  <2>2. Cardinality(R2) = Cardinality(R) + 1
    BY <1>2, <2>1, FS_AddElement
  <2> QED BY <1>3, <2>2 DEF Records
<1>4. CASE e # d
  <2>1. R2 = R
    BY <1>1, <1>4
  <2> QED BY <1>4, <2>1 DEF Records
<1> QED BY <1>3, <1>4

-----------------------------------------------------------------------------
(* A payment: made, made and forgotten, or not made. *)
LEMMA PayStep ==
    ASSUME GatewayInv, NEW p \in Procs, pettycoin_tx(p)
    PROVE  GatewayInv'
<1> DEFINE k == proc[p].known_txs
           list == proc[p].list
           d == Head(list)
<1>1. /\ proc[p].at = "list" /\ Confirmed(p) /\ d \notin proc[p].thash
      /\ UNCHANGED <<bitcoin, confirmed, txs>>
  BY DEF pettycoin_tx
<1>2. /\ p \in lock /\ lock \subseteq {p}
      /\ \A q \in Procs : q # p => ~Running(proc[q])
      /\ proc[p] \in Process /\ bitcoin \in Seq(Deposits)
      /\ k \in Nat /\ k <= Len(bitcoin) /\ list \in Seq(Deposits)
      /\ \A j \in DOMAIN list : k + j <= Len(bitcoin) /\ list[j] = bitcoin[k + j]
      /\ \A i \in 1 .. k : bitcoin[i] \in Recorded
      /\ \A e \in Recorded : e \in proc[p].thash \/ \E i \in 1 .. k : bitcoin[i] = e
      /\ proc[p].thash \subseteq Recorded
  BY <1>1, InLoop
<1>3. /\ d = list[1] /\ d \in Deposits /\ list # <<>>
      /\ k + 1 <= Len(bitcoin) /\ d = bitcoin[k + 1]
  <2>1. list # <<>>
    BY <1>1 DEF Confirmed
  <2> HIDE DEF k, list
  <2> QED BY <1>2, <2>1, FirstOf
<1>4. Recorded' = Recorded
  BY <1>1 DEF Recorded
<1>5. CASE /\ paid' = [paid EXCEPT ![d] = Append(@, from_gateway(d))]
           /\ proc' = [proc EXCEPT ![p].known_txs = @ + 1, ![p].at = "record"]
           /\ UNCHANGED <<lock, lost, deaths>>
  <2> DEFINE s == [proc[p] EXCEPT !.known_txs = k + 1, !.at = "record"]
  <2>1. proc' = [proc EXCEPT ![p] = s]
    BY <1>5
  <2>2. /\ s \in Process /\ s.at = "record" /\ s.list = list
        /\ s.known_txs = k + 1 /\ s.thash = proc[p].thash
    <3>1. s = [proc[p] EXCEPT !.known_txs = k + 1, !.at = "record"] /\ k + 1 \in Nat
      BY <1>2
    <3> HIDE DEF s
    <3> QED BY <1>2, <3>1 DEF Process
  <2>3. paid' \in [Deposits -> Seq(Amounts)]
        /\ \A e \in Deposits : Len(paid'[e]) = IF e = d THEN Len(paid[e]) + 1 ELSE Len(paid[e])
    <3>1. from_gateway(d) \in Amounts /\ paid \in [Deposits -> Seq(Amounts)]
      BY <1>3 DEF Amounts, GatewayInv, GatewayType
    <3> HIDE DEF d
    <3> QED BY <1>3, <1>5, <3>1
  <2>4. \A e \in Deposits : InHand(e) = 0 /\ InHand(e)' = IF e = d THEN 1 ELSE 0
    <3> SUFFICES ASSUME NEW e \in Deposits
                 PROVE  InHand(e) = 0 /\ InHand(e)' = IF e = d THEN 1 ELSE 0
      OBVIOUS
    <3>1. proc'[p] = s /\ \A q \in Procs : q # p => proc'[q] = proc[q]
      BY <2>1 DEF GatewayInv, GatewayType
    <3>2. \A q \in Procs : q # p => proc[q].at # "record" /\ proc'[q].at # "record"
      BY <1>2, <3>1 DEF Running
    <3> HIDE DEF s
    <3>3. InHand(e) = 0
      BY <1>1, <3>2, OnlyHand
    <3>4. InHand(e)' = IF proc'[p].at = "record" /\ Head(proc'[p].list) = e THEN 1 ELSE 0
      BY <3>2, HandAfter
    <3> QED BY <2>2, <3>1, <3>3, <3>4
  <2>5. d \notin Recorded
    <3>1. \A i \in 1 .. k : bitcoin[i] # bitcoin[k + 1]
      BY <1>2, <1>3 DEF GatewayInv, Distinct
    <3> HIDE DEF d
    <3> QED BY <1>1, <1>2, <1>3, <3>1
  <2>6. /\ \A j \in DOMAIN list : (k + 1) + j - 1 <= Len(bitcoin)
                                  /\ list[j] = bitcoin[(k + 1) + j - 1]
        /\ \A i \in 1 .. k + 1 : i < k + 1 => bitcoin[i] \in Recorded
        /\ \A e \in Recorded : e \in proc[p].thash \/ \E i \in 1 .. k + 1 : bitcoin[i] = e
    <3> HIDE DEF k, list
    <3>1. \A j \in DOMAIN list : j \in Nat /\ (k + 1) + j - 1 = k + j
      BY <1>2
    <3> QED BY <1>2, <3>1
  <2> HIDE DEF s, k, list, d
  <2>7. Progress(s, bitcoin, Recorded') /\ Running(s)
    BY <1>2, <1>3, <1>4, <2>2, <2>5, <2>6 DEF Progress, Running
  <2>8. /\ GatewayType' /\ Distinct' /\ Exclusive'
        /\ \A q \in Procs : Progress(proc[q], bitcoin, Recorded)'
    <3>1. lock' = (IF Running(s) THEN lock ELSE lock \ {p})
      BY <1>5, <2>7
    <3>2. txs' \in Seq(Deposits) /\ lost' \in [Deposits -> Nat]
      BY <1>1, <1>5 DEF GatewayInv, GatewayType
    <3> QED BY <1>1, <1>2, <2>1, <2>2, <2>3, <2>7, <3>1, <3>2, ControlStep
  <2>9. PaymentsAdd'
    <3>1. \A e \in Deposits : Records(e)' = Records(e)
      BY <1>1 DEF Records
    <3>2. \A e \in Deposits : lost'[e] = lost[e] /\ lost[e] \in Nat
      BY <1>5 DEF GatewayInv, GatewayType
    <3> QED BY <1>4, <2>3, <2>4, <3>1, <3>2 DEF GatewayInv, PaymentsAdd
  <2> QED BY <2>8, <2>9 DEF GatewayInv
<1>6. CASE /\ paid' = [paid EXCEPT ![d] = Append(@, from_gateway(d))]
           /\ lost' = [lost EXCEPT ![d] = @ + 1]
           /\ Die(p)
  <2>1. paid' \in [Deposits -> Seq(Amounts)]
        /\ \A e \in Deposits : Len(paid'[e]) = IF e = d THEN Len(paid[e]) + 1 ELSE Len(paid[e])
    <3>1. from_gateway(d) \in Amounts /\ paid \in [Deposits -> Seq(Amounts)]
      BY <1>3 DEF Amounts, GatewayInv, GatewayType
    <3> HIDE DEF d
    <3> QED BY <1>3, <1>6, <3>1
  <2>2. /\ lost' \in [Deposits -> Nat] /\ lost \in [Deposits -> Nat]
        /\ \A e \in Deposits : lost'[e] = IF e = d THEN lost[e] + 1 ELSE lost[e]
    <3>1. lost \in [Deposits -> Nat]
      BY DEF GatewayInv, GatewayType
    <3> HIDE DEF d
    <3> QED BY <1>3, <1>6, <3>1
  <2>3. proc' = [proc EXCEPT ![p] = Down] /\ lock' = lock \ {p}
    BY <1>6 DEF Die
  <2>4. /\ GatewayType' /\ Distinct' /\ Exclusive'
        /\ \A q \in Procs : Progress(proc[q], bitcoin, Recorded)'
    <3>1. txs' \in Seq(Deposits)
      BY <1>1 DEF GatewayInv, GatewayType
    <3>2. Progress(Down, bitcoin, Recorded') /\ Down \in Process /\ ~Running(Down)
      BY DownProgress
    <3>3. lock' = (IF Running(Down) THEN lock ELSE lock \ {p})
      BY <2>3, <3>2
    <3> QED BY <1>1, <1>2, <2>1, <2>2, <2>3, <3>1, <3>2, <3>3, ControlStep
  <2>5. \A e \in Deposits : InHand(e) = 0 /\ InHand(e)' = 0
    <3> SUFFICES ASSUME NEW e \in Deposits PROVE InHand(e) = 0 /\ InHand(e)' = 0
      OBVIOUS
    <3>1. proc'[p].at # "record" /\ \A q \in Procs : q # p => proc'[q] = proc[q]
      BY <2>3, DownProgress DEF GatewayInv, GatewayType
    <3>2. \A q \in Procs : q # p => proc[q].at # "record" /\ proc'[q].at # "record"
      BY <1>2, <3>1 DEF Running
    <3>3. InHand(e)' = IF proc'[p].at = "record" /\ Head(proc'[p].list) = e THEN 1 ELSE 0
      BY <3>2, HandAfter
    <3>4. InHand(e) = 0
      BY <1>1, <3>2, OnlyHand
    <3> QED BY <3>1, <3>3, <3>4
  <2>6. PaymentsAdd'
    <3>1. \A e \in Deposits : Records(e)' = Records(e)
      BY <1>1 DEF Records
    <3>2. \A e \in Deposits : lost[e] \in Nat
      BY <2>2
    <3> HIDE DEF d
    <3> SUFFICES ASSUME NEW e \in Deposits
                 PROVE  /\ Records(e)' \in {0, 1} /\ (Records(e)' = 1 <=> e \in Recorded')
                        /\ Len(paid'[e]) = Records(e)' + InHand(e)' + lost'[e]
      BY DEF PaymentsAdd
    <3>3. /\ Records(e) \in {0, 1} /\ (Records(e) = 1 <=> e \in Recorded)
          /\ Len(paid[e]) = Records(e) + 0 + lost[e]
      BY <2>5 DEF GatewayInv, PaymentsAdd
    <3>4. Len(paid'[e]) = Records(e) + 0 + lost'[e]
      <4>1. CASE e = d
        <5>1. Len(paid'[e]) = Len(paid[e]) + 1 /\ lost'[e] = lost[e] + 1 /\ lost[e] \in Nat
          BY <2>1, <2>2, <4>1
        <5> QED BY <3>3, <5>1
      <4>2. CASE e # d
        BY <2>1, <2>2, <3>3, <4>2
      <4> QED BY <4>1, <4>2
    <3> QED BY <1>4, <2>5, <3>1, <3>3, <3>4
  <2> QED BY <2>4, <2>6 DEF GatewayInv
<1>7. CASE Die(p) /\ UNCHANGED <<paid, lost>>
  <2>1. proc' = [proc EXCEPT ![p] = Down] /\ lock' = lock \ {p}
    BY <1>7 DEF Die
  <2>2. /\ Progress(Down, bitcoin, Recorded) /\ Down \in Process
        /\ Down.at # "record" /\ ~Running(Down)
    BY DownProgress
  <2>3. lock' = (IF Running(Down) THEN lock \cup {p} ELSE lock \ {p}) /\ p \notin lock'
    BY <2>1, <2>2
  <2>4. proc[p].at # "record"
    BY <1>1
  <2> QED BY <1>1, <1>7, <2>1, <2>2, <2>3, <2>4, MoveStep
<1> QED BY <1>5, <1>6, <1>7 DEF pettycoin_tx

(* A copy ends with a payment in hand: its record is lost. *)
LEMMA ForgottenStep ==
    ASSUME GatewayInv, NEW p \in Procs, proc[p].at = "record", Die(p),
           lost' = [lost EXCEPT ![Head(proc[p].list)] = @ + 1],
           UNCHANGED <<bitcoin, confirmed, txs, paid>>
    PROVE  GatewayInv'
<1> DEFINE d == Head(proc[p].list)
<1>1. /\ p \in lock /\ \A q \in Procs : q # p => ~Running(proc[q])
  BY DEF GatewayInv, Exclusive, Running
<1>2. d \in Deposits
  <2>1. proc[p] \in Process /\ Progress(proc[p], bitcoin, Recorded)
    BY DEF GatewayInv, GatewayType
  <2>2. proc[p].list \in Seq(Deposits) /\ proc[p].list # <<>>
    BY <2>1 DEF Process, Progress
  <2> QED BY <2>2
<1>3. proc' = [proc EXCEPT ![p] = Down] /\ lock' = lock \ {p}
  BY DEF Die
<1>4. /\ lost' \in [Deposits -> Nat] /\ lost \in [Deposits -> Nat]
      /\ \A e \in Deposits : lost'[e] = IF e = d THEN lost[e] + 1 ELSE lost[e]
  <2>1. lost \in [Deposits -> Nat] /\ lost' = [lost EXCEPT ![d] = @ + 1]
    BY DEF GatewayInv, GatewayType
  <2> HIDE DEF d
  <2> QED BY <1>2, <2>1
<1>5. /\ GatewayType' /\ Distinct' /\ Exclusive'
      /\ \A q \in Procs : Progress(proc[q], bitcoin, Recorded)'
  <2>1. txs' \in Seq(Deposits) /\ paid' \in [Deposits -> Seq(Amounts)]
    BY DEF GatewayInv, GatewayType
  <2>2. Progress(Down, bitcoin, Recorded') /\ Down \in Process /\ ~Running(Down)
    BY DownProgress
  <2>3. lock' = (IF Running(Down) THEN lock ELSE lock \ {p})
    BY <1>3, <2>2
  <2> QED BY <1>1, <1>3, <1>4, <2>1, <2>2, <2>3, ControlStep
<1>6. \A e \in Deposits : InHand(e)' = 0 /\ InHand(e) = IF e = d THEN 1 ELSE 0
  <2> SUFFICES ASSUME NEW e \in Deposits
               PROVE  InHand(e)' = 0 /\ InHand(e) = IF e = d THEN 1 ELSE 0
    OBVIOUS
  <2>1. proc'[p].at # "record" /\ \A q \in Procs : q # p => proc'[q] = proc[q]
    BY <1>3, DownProgress DEF GatewayInv, GatewayType
  <2>2. \A q \in Procs : q # p => proc[q].at # "record" /\ proc'[q].at # "record"
    BY <1>1, <2>1 DEF Running
  <2>3. InHand(e)' = 0
    BY <2>1, <2>2, HandAfter
  <2>4. InHand(e) = IF e = d THEN 1 ELSE 0
    BY <2>2, OnlyHand
  <2> QED BY <2>3, <2>4
<1>7. PaymentsAdd'
  <2> HIDE DEF d
  <2> SUFFICES ASSUME NEW e \in Deposits
               PROVE  /\ Records(e)' \in {0, 1} /\ (Records(e)' = 1 <=> e \in Recorded')
                      /\ Len(paid'[e]) = Records(e)' + InHand(e)' + lost'[e]
    BY DEF PaymentsAdd
  <2>1. Records(e)' = Records(e) /\ Recorded' = Recorded /\ paid'[e] = paid[e]
    BY DEF Records, Recorded
  <2>2. /\ Records(e) \in {0, 1} /\ (Records(e) = 1 <=> e \in Recorded)
        /\ Len(paid[e]) = Records(e) + InHand(e) + lost[e] /\ lost[e] \in Nat
    BY <1>4 DEF GatewayInv, PaymentsAdd
  <2>3. CASE e = d
    <3>1. InHand(e) = 1 /\ InHand(e)' = 0 /\ lost'[e] = lost[e] + 1
      BY <1>4, <1>6, <2>3
    <3> QED BY <2>1, <2>2, <3>1
  <2>4. CASE e # d
    <3>1. InHand(e) = 0 /\ InHand(e)' = 0 /\ lost'[e] = lost[e]
      BY <1>4, <1>6, <2>4
    <3> QED BY <2>1, <2>2, <3>1
  <2> QED BY <2>3, <2>4
<1> QED BY <1>5, <1>7 DEF GatewayInv

(* The txid of the payment in hand is written, or the process ends. *)
LEMMA WriteStep ==
    ASSUME GatewayInv, NEW p \in Procs, write_txid(p)
    PROVE  GatewayInv'
<1> DEFINE k == proc[p].known_txs
           list == proc[p].list
           d == Head(list)
<1>1. proc[p].at = "record" /\ UNCHANGED <<bitcoin, confirmed, paid>>
  BY DEF write_txid
<1>2. /\ p \in lock /\ \A q \in Procs : q # p => ~Running(proc[q])
  BY <1>1 DEF GatewayInv, Exclusive, Running
<1>3. proc[p] \in Process /\ bitcoin \in Seq(Deposits) /\ Progress(proc[p], bitcoin, Recorded)
  BY DEF GatewayInv, GatewayType
<1>4. /\ k \in Nat \ {0} /\ k <= Len(bitcoin) /\ list \in Seq(Deposits) /\ list # <<>>
      /\ \A j \in DOMAIN list : k + j - 1 <= Len(bitcoin) /\ list[j] = bitcoin[k + j - 1]
      /\ list[1] \notin Recorded
      /\ \A i \in 1 .. k : i < k => bitcoin[i] \in Recorded
      /\ \A e \in Recorded : e \in proc[p].thash \/ \E i \in 1 .. k : bitcoin[i] = e
      /\ proc[p].thash \subseteq Recorded
  <2>1. k \in Nat /\ list \in Seq(Deposits)
    BY <1>3 DEF Process
  <2> QED BY <1>1, <1>3, <2>1 DEF Progress, Running
<1>5. /\ d = list[1] /\ d \in Deposits /\ d = bitcoin[k] /\ Tail(list) \in Seq(Deposits)
      /\ \A j \in DOMAIN Tail(list) : k + j <= Len(bitcoin) /\ Tail(list)[j] = bitcoin[k + j]
  <2> DEFINE m == k - 1
  <2>1. m \in Nat /\ k = m + 1
    BY <1>4
  <2>2. \A j \in DOMAIN list : m + j <= Len(bitcoin) /\ list[j] = bitcoin[m + j]
    <3> SUFFICES ASSUME NEW j \in DOMAIN list
                 PROVE  m + j <= Len(bitcoin) /\ list[j] = bitcoin[m + j]
      OBVIOUS
    <3> HIDE DEF k, list
    <3>1. j \in Nat
      BY <1>4
    <3>2. k + j - 1 = m + j
      BY <1>4, <3>1
    <3> HIDE DEF m
    <3> QED BY <1>4, <3>2
  <2> HIDE DEF m, k, list
  <2> QED BY <1>3, <1>4, <2>1, <2>2, FirstOf
<1>6. \A e \in Deposits : InHand(e) = IF e = d THEN 1 ELSE 0
  <2> SUFFICES ASSUME NEW e \in Deposits PROVE InHand(e) = IF e = d THEN 1 ELSE 0
    OBVIOUS
  <2>1. \A q \in Procs : q # p => proc[q].at # "record"
    BY <1>2 DEF Running
  <2> QED BY <1>1, <2>1, OnlyHand
<1>7. ASSUME NEW s \in Process, proc' = [proc EXCEPT ![p] = s], s.at # "record"
      PROVE  \A e \in Deposits : InHand(e)' = 0
  <2>1. proc'[p].at # "record" /\ \A q \in Procs : q # p => proc'[q] = proc[q]
    BY <1>7 DEF GatewayInv, GatewayType
  <2>2. \A q \in Procs : q # p => proc'[q].at # "record"
    BY <1>2, <2>1 DEF Running
  <2> QED BY <2>1, <2>2, HandAfter
<1>8. /\ \A e \in Deposits : /\ Records(e) \in {0, 1} /\ (Records(e) = 1 <=> e \in Recorded)
                             /\ Len(paid[e]) = Records(e) + InHand(e) + lost[e]
      /\ lost \in [Deposits -> Nat] /\ paid \in [Deposits -> Seq(Amounts)]
      /\ txs \in Seq(Deposits)
  BY DEF GatewayInv, GatewayType, PaymentsAdd
<1>9. CASE /\ txs' = Append(txs, d)
           /\ proc' = [proc EXCEPT ![p].at = "list", ![p].list = Tail(@)]
           /\ UNCHANGED <<torn, lock, lost, deaths>>
  <2> DEFINE s == [proc[p] EXCEPT !.at = "list", !.list = Tail(list)]
  <2>1. proc' = [proc EXCEPT ![p] = s]
    BY <1>9
  <2>2. /\ s \in Process /\ s.at = "list" /\ s.list = Tail(list)
        /\ s.known_txs = k /\ s.thash = proc[p].thash
    <3>1. s = [proc[p] EXCEPT !.at = "list", !.list = Tail(list)]
      OBVIOUS
    <3> HIDE DEF s
    <3> QED BY <1>3, <1>5, <3>1 DEF Process
  <2>3. Recorded' = Recorded \cup {d}
    <3> HIDE DEF d, list, s
    <3>1. /\ Len(txs) \in Nat
          /\ DOMAIN txs = 1 .. Len(txs) /\ DOMAIN txs' = 1 .. Len(txs) + 1
          /\ \A i \in 1 .. Len(txs) : txs'[i] = txs[i]
          /\ txs'[Len(txs) + 1] = d
      BY <1>5, <1>8, <1>9
    <3>2. \A i \in DOMAIN txs : i \in DOMAIN txs' /\ txs'[i] = txs[i]
      BY <3>1
    <3>3. \A i \in DOMAIN txs' : (i \in DOMAIN txs /\ txs'[i] = txs[i]) \/ txs'[i] = d
      BY <3>1
    <3>4. Len(txs) + 1 \in DOMAIN txs'
      BY <3>1
    <3> QED BY <3>1, <3>2, <3>3, <3>4 DEF Recorded
  <2>4. \A e \in Deposits : Records(e)' = IF e = d THEN Records(e) + 1 ELSE Records(e)
    <3>1. GatewayType
      BY DEF GatewayInv
    <3> HIDE DEF d
    <3> QED BY <1>5, <1>9, <3>1, AppendRecord
  <2>5. \A e \in Deposits : InHand(e)' = 0
    <3> HIDE DEF s
    <3> QED BY <1>7, <2>1, <2>2
  <2> HIDE DEF s, k, list, d
  <2>6. Progress(s, bitcoin, Recorded') /\ Running(s)
    <3>1. /\ \A i \in 1 .. k : bitcoin[i] \in Recorded'
          /\ \A e \in Recorded' : e \in proc[p].thash \/ \E i \in 1 .. k : bitcoin[i] = e
      BY <1>4, <1>5, <2>3
    <3> QED BY <1>4, <1>5, <2>2, <2>3, <3>1 DEF Progress, Running
  <2>7. /\ GatewayType' /\ Distinct' /\ Exclusive'
        /\ \A q \in Procs : Progress(proc[q], bitcoin, Recorded)'
    <3>1. lock' = (IF Running(s) THEN lock ELSE lock \ {p})
      BY <1>9, <2>6
    <3>2. /\ txs' \in Seq(Deposits) /\ lost' \in [Deposits -> Nat]
          /\ paid' \in [Deposits -> Seq(Amounts)]
      BY <1>1, <1>5, <1>8, <1>9
    <3> QED BY <1>1, <1>2, <2>1, <2>2, <2>6, <3>1, <3>2, ControlStep
  <2>8. PaymentsAdd'
    <3> SUFFICES ASSUME NEW e \in Deposits
                 PROVE  /\ Records(e)' \in {0, 1} /\ (Records(e)' = 1 <=> e \in Recorded')
                        /\ Len(paid'[e]) = Records(e)' + InHand(e)' + lost'[e]
      BY DEF PaymentsAdd
    <3>1. d \notin Recorded /\ paid'[e] = paid[e] /\ lost'[e] = lost[e] /\ lost[e] \in Nat
      BY <1>1, <1>4, <1>5, <1>8, <1>9
    <3>2. CASE e = d
      BY <1>6, <1>8, <2>3, <2>4, <2>5, <3>1, <3>2
    <3>3. CASE e # d
      BY <1>6, <1>8, <2>3, <2>4, <2>5, <3>1, <3>3
    <3> QED BY <3>2, <3>3
  <2> QED BY <2>7, <2>8 DEF GatewayInv
<1>10. CASE lost' = [lost EXCEPT ![d] = @ + 1] /\ Die(p) /\ UNCHANGED txs
  BY <1>1, <1>10, ForgottenStep
<1> QED BY <1>9, <1>10 DEF write_txid

(* A copy is killed. *)
LEMMA KilledStep ==
    ASSUME GatewayInv, NEW p \in Procs, killed(p)
    PROVE  GatewayInv'
<1>1. /\ Die(p) /\ UNCHANGED <<bitcoin, confirmed, txs, paid>>
      /\ lost' = IF proc[p].at = "record" THEN [lost EXCEPT ![Head(proc[p].list)] = @ + 1] ELSE lost
  BY DEF killed
<1>2. CASE proc[p].at = "record"
  BY <1>1, <1>2, ForgottenStep
<1>3. CASE proc[p].at # "record"
  <2>1. proc' = [proc EXCEPT ![p] = Down] /\ lock' = lock \ {p}
    BY <1>1 DEF Die
  <2>2. /\ Progress(Down, bitcoin, Recorded) /\ Down \in Process
        /\ Down.at # "record" /\ ~Running(Down)
    BY DownProgress
  <2>3. lock' = (IF Running(Down) THEN lock \cup {p} ELSE lock \ {p}) /\ p \notin lock'
    BY <2>1, <2>2
  <2> QED BY <1>1, <1>3, <2>1, <2>2, <2>3, MoveStep
<1> QED BY <1>2, <1>3

-----------------------------------------------------------------------------
(* Every step keeps the invariant. *)
LEMMA GatewayStep ==
    ASSUME GatewayInv, [GatewayNext]_gatewayVars
    PROVE  GatewayInv'
<1>1. ASSUME NEW d \in Deposits, deposit(d) PROVE GatewayInv'
  BY <1>1, DepositStep
<1>2. ASSUME NEW d \in Deposits, confirm(d) PROVE GatewayInv'
  <2>1. confirmed' \subseteq Deposits
    BY <1>2 DEF confirm, GatewayInv, GatewayType
  <2> QED BY <1>2, <2>1, IdleStep DEF confirm
<1>3. ASSUME NEW p \in Procs, setup_gateway(p) PROVE GatewayInv'
  BY <1>3, SetupStep
<1>4. ASSUME NEW p \in Procs, read_gateway_txs(p) PROVE GatewayInv'
  BY <1>4, ReadStep
<1>5. ASSUME NEW p \in Procs, listtransactions(p) PROVE GatewayInv'
  BY <1>5, ListStep
<1>6. ASSUME NEW p \in Procs, next_entry(p) PROVE GatewayInv'
  BY <1>6, NextEntryStep
<1>7. ASSUME NEW p \in Procs, pettycoin_tx(p) PROVE GatewayInv'
  BY <1>7, PayStep
<1>8. ASSUME NEW p \in Procs, write_txid(p) PROVE GatewayInv'
  BY <1>8, WriteStep
<1>9. ASSUME NEW p \in Procs, killed(p) PROVE GatewayInv'
  BY <1>9, KilledStep
<1>10. CASE UNCHANGED gatewayVars
  BY <1>10, IdleStep DEF gatewayVars, GatewayInv, GatewayType
<1> QED BY <1>1, <1>2, <1>3, <1>4, <1>5, <1>6, <1>7, <1>8, <1>9, <1>10 DEF GatewayNext

(* A payment is behind every deposit a copy is past. *)
LEMMA NonePassedOver ==
    ASSUME GatewayInv
    PROVE  PaidOnce
<1>1. SkippedPaid
  <2> SUFFICES ASSUME NEW p \in Procs, NEW i \in 1 .. proc[p].known_txs
               PROVE  paid[bitcoin[i]] # <<>>
    BY DEF SkippedPaid
  <2> DEFINE d == bitcoin[i]
  <2>1. /\ proc[p] \in Process /\ Progress(proc[p], bitcoin, Recorded)
        /\ bitcoin \in Seq(Deposits)
    BY DEF GatewayInv, GatewayType
  <2>2. proc[p].known_txs \in Nat /\ proc[p].list \in Seq(Deposits)
    BY <2>1 DEF Process
  <2>3. Running(proc[p]) /\ proc[p].known_txs <= Len(bitcoin) /\ i \in Nat \ {0}
    BY <2>1, <2>2 DEF Progress
  <2>4. d \in Deposits
    BY <2>1, <2>2, <2>3
  <2>5. /\ Records(d) \in {0, 1} /\ (Records(d) = 1 <=> d \in Recorded)
        /\ Len(paid[d]) = Records(d) + InHand(d) + lost[d]
        /\ lost[d] \in Nat
    BY <2>4 DEF GatewayInv, PaymentsAdd, GatewayType
  <2>6. InHand(d) \in {0, 1}
        /\ (InHand(d) = 1 <=> \E q \in Procs : proc[q].at = "record" /\ Head(proc[q].list) = d)
    BY <2>4, InHandOne
  <2>7. Records(d) = 1 \/ InHand(d) = 1
    <3>1. CASE proc[p].at = "record" => i < proc[p].known_txs
      BY <2>1, <2>3, <2>5, <3>1 DEF Progress
    <3>2. CASE ~(proc[p].at = "record" => i < proc[p].known_txs)
      <4>1. i = proc[p].known_txs /\ proc[p].list # <<>>
        BY <2>1, <2>2, <2>3, <3>2 DEF Progress
      <4>2. 1 \in DOMAIN proc[p].list /\ Head(proc[p].list) = proc[p].list[1]
        BY <2>2, <4>1
      <4>3. proc[p].list[1] = bitcoin[proc[p].known_txs + 1 - 1]
        BY <2>1, <3>2, <4>2 DEF Progress
      <4>4. proc[p].known_txs + 1 - 1 = i
        BY <2>2, <4>1
      <4>5. Head(proc[p].list) = d
        BY <4>2, <4>3, <4>4
      <4> QED BY <2>6, <3>2, <4>5
    <3> QED BY <3>1, <3>2
  <2> HIDE DEF d
  <2>8. Len(paid[d]) # 0
    BY <2>5, <2>6, <2>7
  <2>9. Len(<<>>) = 0
    OBVIOUS
  <2> QED BY <2>8, <2>9 DEF d
<1>2. \A d \in Deposits : Len(paid[d]) = Records(d) + InHand(d) + lost[d] /\ Records(d) <= 1
  BY DEF GatewayInv, PaymentsAdd
<1> QED BY <1>1, <1>2 DEF PaidOnce

(* However many copies are started and killed, and whatever bitcoind       *)
(* lists: every deposit is paid once for its record, once for each record  *)
(* that was lost and once while it is in hand, and none that a running     *)
(* gateway is past is unpaid (pettycoin-gateway.c).                        *)
THEOREM EveryDepositOnce == GatewaySpec => []PaidOnce
<1>1. GatewayInit => GatewayInv
  <2> SUFFICES ASSUME GatewayInit PROVE GatewayInv
    OBVIOUS
  <2>1. GatewayType
    <3>1. Down \in Process
      BY DEF Down, Process
    <3>2. \A S : <<>> \in Seq(S)
      OBVIOUS
    <3> QED BY <3>1, <3>2 DEF GatewayInit, GatewayType
  <2>2. \A p \in Procs : proc[p] = Down
    BY DEF GatewayInit
  <2>3. Down.at = "down" /\ Down.known_txs = 0
    BY DEF Down
  <2>4. Distinct /\ Exclusive
    BY <2>2, <2>3 DEF GatewayInit, Distinct, Exclusive, Running
  <2>5. \A p \in Procs : Progress(proc[p], bitcoin, Recorded)
    <3>1. 0 <= Len(bitcoin)
      BY <2>1 DEF GatewayType
    <3> QED BY <2>2, <2>3, <3>1 DEF Progress, Running
  <2>6. Recorded = {} /\ DOMAIN txs = {}
    BY DEF GatewayInit, Recorded
  <2>7. \A d \in Deposits : Records(d) = 0 /\ InHand(d) = 0
    <3> SUFFICES ASSUME NEW d \in Deposits PROVE Records(d) = 0 /\ InHand(d) = 0
      OBVIOUS
    <3>1. {i \in DOMAIN txs : txs[i] = d} = {}
      BY <2>6
    <3>2. {p \in Procs : proc[p].at = "record" /\ Head(proc[p].list) = d} = {}
      BY <2>2, <2>3
    <3> QED BY <3>1, <3>2, FS_EmptySet DEF Records, InHand
  <2>8. \A d \in Deposits : Len(paid[d]) = 0 /\ lost[d] = 0
    BY DEF GatewayInit
  <2>9. PaymentsAdd
    BY <2>6, <2>7, <2>8 DEF PaymentsAdd
  <2> QED BY <2>1, <2>4, <2>5, <2>9 DEF GatewayInv
<1>2. GatewayInv /\ [GatewayNext]_gatewayVars => GatewayInv'
  BY GatewayStep
<1>3. GatewayInv => PaidOnce
  BY NonePassedOver
<1> QED BY <1>1, <1>2, <1>3, PTL DEF GatewaySpec
=============================================================================
