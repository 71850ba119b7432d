------------------------------- MODULE Peers -------------------------------
(***************************************************************************)
(* Whom a node talks to: the cache of peer addresses in memory and on disk *)
(* (peer_cache.c), the seed server (seed_peers(), dns.c), the connections  *)
(* that fill_peers() makes, and a connection up to the point where         *)
(* packets flow both ways (packet_io.c, welcome.c, the second half of      *)
(* peer.c).  What is sent after that is the modules Todo and Sync.         *)
(*                                                                         *)
(* fill_peers() is a loop around new_peer(), peer_cache_del() and          *)
(* seed_peers(), called from the end of every handler that frees a peer or *)
(* learns an address.  `filling' says it is running; nothing else runs     *)
(* meanwhile.                                                              *)
(***************************************************************************)
EXTENDS Integers, FiniteSets

CONSTANTS
    Addrs,        \* addresses with their port
    Uuids,        \* identities of nodes, our own among them
    Self,         \* our own
    Buckets,      \* 0 .. n - 1: the entries of peer_cache_file.h
    Seeds,        \* values of peer_cache_file.randbytes
    BucketOf,     \* BucketOf[r][a]: where a goes when randbytes is r
    MaxPeers,     \* MAX_PEERS
    MinPeers,     \* MIN_PEERS
    SeedTries,    \* calls of seed_peers() before it settles with what there is: 2
    MaxSeeding,   \* bound: calls of seed_peers()
    MaxLost,      \* bound: peers lost while their welcome was being read
    NoPeersOk     \* --seeding

ASSUME PeersAssumption ==
    /\ Self \in Uuids
    /\ Buckets \subseteq Nat
    /\ BucketOf \in [Seeds -> [Addrs -> Buckets]]
    /\ MinPeers \in Nat /\ MaxPeers \in Nat /\ SeedTries \in Nat /\ MaxSeeding \in Nat /\ MaxLost \in Nat
    /\ MinPeers <= MaxPeers    \* 16 and 64
    /\ NoPeersOk \in BOOLEAN

VARIABLES
    cache,      \* pc->file.h in memory
    disk,       \* the same in the file
    randbytes,  \* pc->file.randbytes, in memory and file
    peer,       \* the allocated peers, by peer_num
    connected,  \* num_peers_connected
    seed,       \* the seeding: "no", "lookup", "connecting" or "reading"
    seedCount,  \* peer_seed_count
    filling,    \* fill_peers() is running
    removed,    \* the cache was found corrupt at this start
    halted      \* "" or why the node has ended

peersVars == <<cache, disk, randbytes, peer, connected, seed, seedCount,
               filling, removed, halted>>

NoUuid == "no uuid"
Zero == [addr |-> "zero", uuid |-> NoUuid]
Entry == [addr : Addrs, uuid : Uuids \cup {NoUuid}] \cup {Zero}

Stages == {"connecting", "welcoming", "reading", "syncing", "duplex", "synced"}
Peer == [stage : Stages, addr : Addrs, uuid : Uuids \cup {NoUuid}]
NoPeer == [stage |-> "free"]

PeerNums == 0 .. MaxPeers - 1
Allocated == {n \in PeerNums : peer[n] # NoPeer}
num_peers == Cardinality(Allocated)

PeersInit ==
    /\ cache = [i \in Buckets |-> Zero]
    /\ disk = cache
    /\ randbytes \in Seeds
    /\ peer = [n \in PeerNums |-> NoPeer]
    /\ connected = 0
    /\ seed = "no" /\ seedCount = 0
    /\ filling = TRUE
    /\ removed = FALSE
    /\ halted = ""

-----------------------------------------------------------------------------
(* peer_cache.c *)

peer_hash_entry(a) == BucketOf[randbytes][a]
Set(i, e) == cache' = [cache EXCEPT ![i] = e]
update_on_disk(i, e) == disk' = [disk EXCEPT ![i] = e]

peer_cache_del(a, onDisk) ==
    LET i == peer_hash_entry(a)
    IN  IF cache[i].addr = a
        THEN /\ Set(i, Zero)
             /\ IF onDisk THEN update_on_disk(i, Zero) ELSE UNCHANGED disk
        ELSE UNCHANGED <<cache, disk>>

(* peer_cache_add() in the cache C, as a set of outcomes: an entry for     *)
(* another address stays if it is very new, and else with a chance of one  *)
(* half.                                                                   *)
peer_cache_add(C, e) ==
    LET i == peer_hash_entry(e.addr)
    IN  IF C[i].addr = e.addr THEN {C}
        ELSE {[C EXCEPT ![i] = e]} \cup IF C[i] = Zero THEN {} ELSE {C}

(* Mutant: the address is put where the connection's old address was. *)
MutPeerCacheRefresh(C, was, e) == [C EXCEPT ![peer_hash_entry(was)] = e]

(* peer_cache_update_uuid() for the address we connected to, then          *)
(* peer_cache_refresh() for the one with the port the peer listens on.     *)
peer_cache_refresh(C, was, e) ==
    LET i == peer_hash_entry(was)
        C2 == IF C[i].addr = was THEN [C EXCEPT ![i].uuid = e.uuid] ELSE C
    IN  [C2 EXCEPT ![peer_hash_entry(e.addr)] = e]

check_peer_cache(C, r) ==
    \A i \in Buckets : C[i] # Zero => BucketOf[r][C[i].addr] = i

(* The node stops and starts again: init_peer_cache() reads the file.  It  *)
(* takes the file for corrupt if the clock went backwards or a write was   *)
(* cut short; the file is made anew with other randbytes, and what was     *)
(* read stays in memory.                                                   *)
restart ==
    /\ peer' = [n \in PeerNums |-> NoPeer]
    /\ connected' = 0 /\ seed' = "no" /\ seedCount' = 0 /\ halted' = ""
    /\ filling' = TRUE
    /\ cache' = disk
    /\ \/ /\ check_peer_cache(disk, randbytes)
          /\ removed' = FALSE
          /\ UNCHANGED <<disk, randbytes>>
       \/ /\ removed' = TRUE
          /\ disk' = [i \in Buckets |-> Zero]
          /\ randbytes' \in Seeds

-----------------------------------------------------------------------------
(* fill_peers(), alloc_peer(), new_peer() *)

FreeNums == PeerNums \ Allocated
get_peernum == CHOOSE n \in FreeNums : \A k \in FreeNums : n <= k

(* Mutant: only peers we are in sync with count. *)
MutPeerAlready(u, except) ==
    \E n \in Allocated \ except : peer[n].uuid = u /\ peer[n].stage = "synced"

peer_already(u, except) == \E n \in Allocated \ except : peer[n].uuid = u

(* The entry fill_peers() takes: the first that has no uuid, or one that   *)
(* is not the uuid of a peer.                                              *)
Candidates == {i \in Buckets : cache[i] # Zero /\
                   (cache[i].uuid = NoUuid \/ ~peer_already(cache[i].uuid, {}))}
FirstCandidate == {i \in Candidates : \A j \in Candidates : i <= j}

(* seed_peers() *)
seed_peers ==
    IF seed # "no" THEN UNCHANGED <<seed, seedCount, halted>>
    ELSE /\ seedCount' = seedCount + 1
         /\ IF seedCount > SeedTries
            THEN /\ halted' = IF num_peers = 0 /\ ~NoPeersOk
                              THEN "Failed to connect to any peers" ELSE halted
                 /\ UNCHANGED seed
            ELSE /\ UNCHANGED halted
                 /\ seed' \in {"no", "lookup"}    \* no pipe or fork, or a child

(* One round of the loop of fill_peers(). *)
fill_peers ==
    /\ filling
    /\ IF num_peers >= MinPeers
       THEN /\ filling' = FALSE
            /\ UNCHANGED <<cache, disk, peer, seed, seedCount, halted>>
       ELSE IF FirstCandidate = {}
       THEN /\ seed_peers
            /\ filling' = FALSE
            /\ UNCHANGED <<cache, disk, peer>>
       ELSE \E i \in FirstCandidate :
            /\ \/ /\ peer' = [peer EXCEPT ![get_peernum] =
                        [stage |-> "connecting", addr |-> cache[i].addr, uuid |-> cache[i].uuid]]
                  /\ UNCHANGED <<cache, disk>>
               \/ /\ peer_cache_del(cache[i].addr, TRUE)   \* no socket of that family
                  /\ UNCHANGED peer
            /\ UNCHANGED <<filling, seed, seedCount, halted>>
    /\ UNCHANGED <<randbytes, connected, removed>>

(* A node connects to us.  get_fd_addr() leaves all but four bytes of the  *)
(* address uninitialized.                                                  *)
new_peer(a) ==
    /\ FreeNums # {}
    /\ peer' = [peer EXCEPT ![get_peernum] =
                   [stage |-> "welcoming", addr |-> a, uuid |-> NoUuid]]
    /\ UNCHANGED <<cache, disk, randbytes, connected, seed, seedCount, filling, removed, halted>>

(* --connect: setup_peer() sets neither peer->w nor peer->log before the   *)
(* first packet is written.                                                *)
setup_peer ==
    /\ FreeNums # {}
    /\ halted' = "uninitialized peer"
    /\ UNCHANGED <<cache, disk, randbytes, peer, connected, seed, seedCount, filling, removed>>

-----------------------------------------------------------------------------
(* A connection.  The welcomes cross: ours is written, then theirs read.   *)

Stage(n, s) == peer' = [peer EXCEPT ![n].stage = s]

setup_welcome(n) ==
    /\ peer[n].stage = "connecting"
    /\ Stage(n, "welcoming")
    /\ UNCHANGED <<cache, disk, randbytes, connected, seed, seedCount, filling, removed, halted>>

(* read_packet_part() points peer->welcome at its buffer as soon as the    *)
(* connection is readable.                                                 *)
read_packet_part(n) ==
    /\ peer[n].stage = "welcoming"
    /\ Stage(n, "reading")
    /\ UNCHANGED <<cache, disk, randbytes, connected, seed, seedCount, filling, removed, halted>>

(* destroy_peer() when `c' peers count as connected, from the stage s. *)
DestroyPeer(n, s, c) ==
    /\ IF s \in {"connecting", "welcoming"}     \* peer->welcome is NULL
       THEN /\ connected' = c
            /\ peer_cache_del(peer[n].addr, c # 0)
       ELSE /\ c > -MaxLost
            /\ connected' = c - 1
            /\ IF s # "synced" THEN peer_cache_del(peer[n].addr, FALSE)
                               ELSE UNCHANGED <<cache, disk>>
    /\ peer' = [peer EXCEPT ![n] = NoPeer]
    /\ filling' = TRUE
    /\ UNCHANGED <<randbytes, seed, seedCount, removed, halted>>

(* The connection fails, is closed by the peer, or by us after an error. *)
destroy_peer(n) == n \in Allocated /\ DestroyPeer(n, peer[n].stage, connected)

(* welcome_received(): check_welcome() refuses it; we talk to ourselves; a *)
(* peer with that uuid is there already; or it is accepted and kept, with  *)
(* the port it listens on.                                                 *)
welcome_refused(n) ==
    /\ peer[n].stage = "reading"
    /\ DestroyPeer(n, "reading", connected + 1)

welcome_from_self(n) ==
    /\ peer[n].stage = "reading"
    /\ connected' = connected
    /\ peer_cache_del(peer[n].addr, TRUE)
    /\ peer' = [peer EXCEPT ![n] = NoPeer]
    /\ filling' = TRUE
    /\ UNCHANGED <<randbytes, seed, seedCount, removed, halted>>

welcome_duplicate(n, u) ==
    LET i == peer_hash_entry(peer[n].addr)
        same == cache[i].addr = peer[n].addr
    IN  /\ peer[n].stage = "reading"
        /\ peer_already(u, {n})
        /\ connected' = connected
        \* the uuid goes to memory and disk, then destroy_peer() drops the entry from memory
        /\ IF same THEN Set(i, Zero) /\ update_on_disk(i, [cache[i] EXCEPT !.uuid = u])
                   ELSE UNCHANGED <<cache, disk>>
        /\ peer' = [peer EXCEPT ![n] = NoPeer]
        /\ filling' = TRUE
        /\ UNCHANGED <<randbytes, seed, seedCount, removed, halted>>

welcome_received(n, u, a) ==
    LET e == [addr |-> a, uuid |-> u]
        i == peer_hash_entry(peer[n].addr)
        j == peer_hash_entry(a)
    IN  /\ peer[n].stage = "reading"
        /\ ~peer_already(u, {n})
        /\ connected' = connected + 1
        /\ cache' = peer_cache_refresh(cache, peer[n].addr, e)
        \* each of the two writes the entry it changed
        /\ disk' = [disk EXCEPT ![i] = IF cache[i].addr = peer[n].addr THEN cache'[i] ELSE @,
                                ![j] = cache'[j]]
        /\ peer' = [peer EXCEPT ![n] = [stage |-> "syncing", addr |-> a, uuid |-> u]]
        /\ UNCHANGED <<randbytes, seed, seedCount, filling, removed, halted>>

(* check_sync_or_horizon(): their SYNC is accepted. *)
check_sync_or_horizon(n) ==
    /\ peer[n].stage = "syncing"
    /\ Stage(n, "duplex")
    /\ UNCHANGED <<cache, disk, randbytes, connected, seed, seedCount, filling, removed, halted>>

(* plan_output() finds nothing more to ask: we_are_syncing is cleared. *)
finish_syncing(n) ==
    /\ peer[n].stage = "duplex"
    /\ Stage(n, "synced")
    /\ UNCHANGED <<cache, disk, randbytes, connected, seed, seedCount, filling, removed, halted>>

-----------------------------------------------------------------------------
(* Learning addresses *)

(* digest_peer_addrs(): one address of a PEERS packet at a time. *)
digest_peer_addrs(a, u) ==
    LET e == [addr |-> a, uuid |-> u]
        i == peer_hash_entry(a)
    IN  /\ cache' \in peer_cache_add(cache, e)
        /\ disk' = IF cache' = cache THEN disk ELSE [disk EXCEPT ![i] = cache'[i]]
        /\ filling' = TRUE

recv_pkt_peers(n, a, u) ==
    /\ peer[n].stage \in {"duplex", "synced"}
    /\ digest_peer_addrs(a, u)
    /\ UNCHANGED <<randbytes, peer, connected, seed, seedCount, removed, halted>>

(* The child that looks the seed server up has answered (start_connecting())  *)
(* and a connection to one of its addresses is made (connected()); or, at any *)
(* point, everything has failed: the last connection is freed, with it the    *)
(* dns_info, and unset_peer_seeding() runs.                                   *)
start_connecting ==
    /\ seed = "lookup"
    /\ seed' = "connecting"
    /\ UNCHANGED <<cache, disk, randbytes, peer, connected, seedCount, filling, removed, halted>>

read_seed_peers ==
    /\ seed = "connecting"
    /\ seed' = "reading"
    /\ UNCHANGED <<cache, disk, randbytes, peer, connected, seedCount, filling, removed, halted>>

digest_peer_pkt(a, u) ==
    /\ seed = "reading"
    /\ digest_peer_addrs(a, u)
    /\ UNCHANGED <<randbytes, peer, connected, seed, seedCount, removed, halted>>

unset_peer_seeding ==
    /\ seed # "no"
    /\ seed' = "no"
    /\ filling' = TRUE
    /\ UNCHANGED <<cache, disk, randbytes, peer, connected, seedCount, removed, halted>>

-----------------------------------------------------------------------------
PeersNext ==
    \/ restart
    \/ halted = "" /\ seedCount <= MaxSeeding /\ fill_peers
    \/ /\ halted = "" /\ ~filling
       /\ \/ \E a \in Addrs : new_peer(a)
          \/ setup_peer
          \/ \E n \in Allocated :
                \/ setup_welcome(n) \/ read_packet_part(n) \/ destroy_peer(n)
                \/ welcome_refused(n) \/ welcome_from_self(n)
                \/ \E u \in Uuids \ {Self} : welcome_duplicate(n, u)
                \/ \E u \in Uuids \ {Self}, a \in Addrs : welcome_received(n, u, a)
                \/ check_sync_or_horizon(n) \/ finish_syncing(n)
                \/ \E a \in Addrs, u \in Uuids \cup {NoUuid} : recv_pkt_peers(n, a, u)
          \/ start_connecting \/ read_seed_peers \/ unset_peer_seeding
          \/ \E a \in Addrs, u \in Uuids \cup {NoUuid} : digest_peer_pkt(a, u)

PeersSpec == PeersInit /\ [][PeersNext]_peersVars

-----------------------------------------------------------------------------
(* Properties *)

Established == {n \in Allocated : peer[n].stage \in {"syncing", "duplex", "synced"}}

(* num_peers_connected, on which destroy_peer() decides whether a failed   *)
(* address is erased from the disk, never counts a peer that is gone.  (It *)
(* may count too few: a peer that goes while its welcome is being read is  *)
(* subtracted and was never added.)                                        *)
ConnectedAreThere == connected <= Cardinality(Established)

(* However connections in both directions, over two addresses and with     *)
(* stale uuids from the cache race, no node is connected twice, and none   *)
(* is ourselves (welcome_received(): "Duplicate peer: closing"), and none  *)
(* is counted that is gone.                                                *)
OnePeerPerNode ==
    /\ \A n, k \in Established :
        peer[n].uuid # Self /\ (peer[n].uuid = peer[k].uuid => n = k)
    /\ ConnectedAreThere

(* What check_peer_cache() will look at when the node starts again: every  *)
(* address on disk is where its hash says, whatever was added, refreshed   *)
(* under another port or dropped from memory only; and memory has nothing  *)
(* that a restart would lose.  (A start that found the file corrupt keeps  *)
(* what it had read.)                                                      *)
CacheSurvives ==
    /\ check_peer_cache(disk, randbytes)
    /\ ~removed => \A i \in Buckets : cache[i] # Zero => cache[i] = disk[i]
=============================================================================
