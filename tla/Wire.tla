-------------------------------- MODULE Wire --------------------------------
(***************************************************************************)
(* Packets between two nodes: how blocks and transactions are laid out and *)
(* read back (marshal.c, with the width of size_t), and how packets are    *)
(* taken from a stream that reads and writes cut anywhere (packet_io.c).   *)
(*                                                                         *)
(* A packet is what its reader looks at: the length in its header, what it *)
(* holds, and the counts in that.  The byte k of packet i is <<i, k>>.     *)
(***************************************************************************)
EXTENDS Integers, Sequences, FiniteSets, SequencesExt

CONSTANTS
    Word,        \* 2^bits of size_t
    LEN,         \* sizeof(le32)
    PKT,         \* sizeof(struct protocol_pkt_block)
    HDR, SHA, TAILER,  \* sizeof block header, hash, tailer
    TxSize,      \* [type |-> sizeof], of the fixed part of a transaction
    TxExtra,     \* [type |-> sizeof], of an input or output
    MaxOrder,    \* PROTOCOL_MAX_SHARD_ORDER
    MaxPacket,   \* PROTOCOL_MAX_PACKET_LEN
    Orders, Counts, Lens,  \* shard orders, counts and lengths in packets
    MaxSent      \* bound: packets sent

(* Counts and lengths are of 32 bits at most, sizes are those of structures. *)
WireAssumption ==
    /\ Word \in Nat \ {0} /\ {LEN, PKT, HDR, SHA, TAILER, MaxPacket} \subseteq 0 .. Word - 1
    /\ 0 < LEN /\ LEN < PKT
    /\ MaxOrder \in Nat /\ \A o \in 0 .. MaxOrder : 2^o \in 1 .. Word - 1
    /\ Orders \subseteq Nat /\ (\A o \in Orders : 2^o \in Nat)
    /\ Counts \subseteq 0 .. Word - 1 /\ Lens \subseteq Nat \ {0}
    /\ \A k \in DOMAIN TxSize : {TxSize[k], TxExtra[k]} \subseteq 0 .. Word - 1

VARIABLES
    sent,      \* packets given to peer_write_packet()
    unwritten, \* bytes of the last that io_write() still has to write
    stream,    \* bytes on their way
    got,       \* bytes of the packet being read
    received,  \* numbers of the packets read
    failed     \* the reader closed the connection

wireVars == <<sent, unwritten, stream, got, received, failed>>

Add(a, b) == (a + b) % Word
Mul(a, b) == (a * b) % Word

add_overflows(a, b) == Add(a, b) < b
mul_overflows(a, b) == b # 0 /\ Mul(a, b) \div b # a

(* unmarshal_block_into(): each part is added to the length, and the size  *)
(* has to be exactly right.                                                *)
unmarshal_block_into(size, h) ==
    LET shard_len == 2^h.order
        merkle_len == Mul(shard_len, SHA)
        len1 == Add(HDR, shard_len)
        len2 == Add(len1, merkle_len)
        len3 == Add(len2, h.count)
    IN /\ size >= HDR
       /\ h.order <= MaxOrder
       /\ ~add_overflows(shard_len, HDR)
       /\ ~mul_overflows(shard_len, SHA)
       /\ ~add_overflows(len1, merkle_len)
       /\ ~add_overflows(len2, h.count)
       /\ ~add_overflows(len3, TAILER)
       /\ size = Add(len3, TAILER)

unmarshal_block(p) == unmarshal_block_into((p.len - PKT) % Word, p)

block_lengths(h) == (HDR + 2^h.order + SHA * 2^h.order + h.count + TAILER) % Word
marshal_block_len(h) == block_lengths(h)

(* marshal_block(): the packet of a block. *)
marshal_block(order, count) ==
    LET h == [kind |-> "block", order |-> order, count |-> count, len |-> 0]
    IN [h EXCEPT !.len = PKT + marshal_block_len(h)]

(* unmarshal_tx(), for a caller that expects nothing after it. *)
unmarshal_tx(size, t) ==
    LET i == Mul(TxExtra[t.kind], t.count) IN
    /\ size >= TxSize[t.kind]
    /\ ~mul_overflows(TxExtra[t.kind], t.count)
    /\ ~add_overflows(TxSize[t.kind], i)
    /\ size = Add(TxSize[t.kind], i)

(* varsize(): 0 on overflow. *)
varsize(base, num, fieldsize) ==
    IF mul_overflows(fieldsize, num) \/ add_overflows(base, Mul(fieldsize, num)) THEN 0
    ELSE base + fieldsize * num
marshal_tx_len(t) == varsize(TxSize[t.kind], t.count, TxExtra[t.kind])

Accepted(p) ==
    IF p.kind = "block" THEN unmarshal_block(p)
    ELSE unmarshal_tx((p.len - PKT) % Word, p)

Packets ==
    [kind : {"block"}, order : Orders, count : Counts, len : Lens]
    \cup [kind : DOMAIN TxSize, order : {0}, count : Counts, len : Lens]
    \cup {marshal_block(o, n) : o \in Orders, n \in Counts}

Bytes(i, p) == [k \in 1 .. p.len |-> <<i, k>>]

(* peer_write_packet(): the previous one is written by then.  This node's  *)
(* assertions on the length do not bind its peers.                         *)
peer_write_packet ==
    /\ unwritten = <<>> /\ Len(sent) < MaxSent
    /\ \E p \in Packets :
         /\ sent' = Append(sent, p)
         /\ unwritten' = Bytes(Len(sent) + 1, p)
    /\ UNCHANGED <<stream, got, received, failed>>

do_write ==
    /\ unwritten # <<>>
    /\ \E n \in 1 .. Len(unwritten) :
         /\ stream' = stream \o SubSeq(unwritten, 1, n)
         /\ unwritten' = SubSeq(unwritten, n + 1, Len(unwritten))
    /\ UNCHANGED <<sent, got, received, failed>>

(* What the first bytes say: the length, if they are the first bytes. *)
le32_to_cpu(s) ==
    IF \A k \in 1 .. LEN : s[k] = <<s[1][1], k>> THEN sent[s[1][1]].len ELSE MaxPacket + 1

(* Mutant: what has been read of the packet is forgotten. *)
MutWanted == IF Len(got) < LEN THEN LEN - Len(got) ELSE le32_to_cpu(got)

(* How much read() is asked for. *)
Wanted == IF Len(got) < LEN THEN LEN - Len(got) ELSE le32_to_cpu(got) - Len(got)

TooBig == Len(got) >= LEN /\ (le32_to_cpu(got) > MaxPacket \/ le32_to_cpu(got) < PKT)

(* read_packet_part(): the length into the plan, then, in a buffer of that *)
(* size, the rest.                                                         *)
read_packet_part ==
    /\ ~failed /\ stream # <<>> /\ ~TooBig
    /\ \E n \in 1 .. Wanted :
         /\ n <= Len(stream)
         /\ stream' = SubSeq(stream, n + 1, Len(stream))
         /\ LET g == got \o SubSeq(stream, 1, n)
                done == Len(got) >= LEN /\ n = Wanted
            IN /\ got' = IF done THEN <<>> ELSE g
               /\ received' = IF done THEN Append(received, g) ELSE received
    /\ UNCHANGED <<sent, unwritten, failed>>

read_packet_fail ==
    /\ ~failed /\ TooBig
    /\ failed' = TRUE
    /\ UNCHANGED <<sent, unwritten, stream, got, received>>

WireInit ==
    /\ sent = <<>> /\ unwritten = <<>> /\ stream = <<>>
    /\ got = <<>> /\ received = <<>> /\ failed = FALSE
WireNext == peer_write_packet \/ do_write \/ read_packet_part \/ read_packet_fail
WireSpec == WireInit /\ [][WireNext]_wireVars

-----------------------------------------------------------------------------
(* Properties *)

(* The packets read are those sent, in order, each with all of its bytes,  *)
(* however the stream was cut, and the reader only gives up on a packet    *)
(* whose length the protocol does not allow.                               *)
StreamIntact ==
    /\ \A i \in DOMAIN received : received[i] = Bytes(i, sent[i])
    /\ failed => sent[Len(received) + 1].len \notin PKT .. MaxPacket

TrueLength(p) ==
    IF p.kind = "block" THEN HDR + 2^p.order + SHA * 2^p.order + p.count + TAILER
    ELSE TxSize[p.kind] + TxExtra[p.kind] * p.count

(* A packet that was read is accepted only if all that its counts speak of *)
(* is in it: no sum or product wraps around to the right size.  A block as *)
(* the sender lays it out is accepted unless its length wraps around.      *)
CountsFit ==
    \A i \in DOMAIN sent :
        LET p == sent[i] IN
        /\ i \in DOMAIN received /\ Accepted(p) => TrueLength(p) = p.len - PKT
        /\ p.kind = "block" /\ p.order <= MaxOrder /\ p = marshal_block(p.order, p.count)
             => (Accepted(p) <=> TrueLength(p) < Word)
        /\ p.kind # "block" /\ marshal_tx_len(p) # 0 => marshal_tx_len(p) = TrueLength(p)

(* What a node gets from a peer is what was sent (read_packet_part()), and *)
(* what it accepts of that is consistent (unmarshal_block_into(),          *)
(* unmarshal_tx()).                                                        *)
PacketsIntact == StreamIntact /\ CountsFit
=============================================================================
