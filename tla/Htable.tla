------------------------------- MODULE Htable -------------------------------
(***************************************************************************)
(* The hash table ccan/htable, which holds state->txhash, state->inputhash *)
(* and the gateway's list of payments.                                     *)
(*                                                                         *)
(* An entry is a pointer in which the bits that all pointers of the table  *)
(* share are replaced by bits of the hash, and one of them by a mark that  *)
(* the entry is in the bucket of its hash.  A word is the set of its bits; *)
(* 0 is {} and HTABLE_DELETED is {0}.  All pointers have their highest bit *)
(* in common, as those of one heap do, and each is added once, as new      *)
(* elements are.  calloc() does not fail.                                  *)
(***************************************************************************)
EXTENDS Integers, Sequences, FiniteSets, SequencesExt

CONSTANTS
    Width,    \* bits of a word
    Ptrs,     \* pointers, as sets of bits
    Hash,     \* [Ptrs -> hash of the element, as a set of bits]
    MaxBits   \* bound: bits of the size of the table

ASSUME HtableAssumption ==
    /\ Width \in Nat
    /\ \A p \in Ptrs : p \subseteq 0 .. Width - 1 /\ Width - 1 \in p
    /\ \A p \in Ptrs : Hash[p] \subseteq 0 .. Width - 1

VARIABLE ht  \* struct htable

Words == SUBSET (0 .. Width - 1)
HTABLE_DELETED == {0}

entry_is_valid(e) == e \notin {{}, HTABLE_DELETED}
get_extra_ptr_bits(h, e) == e \cap h.common_mask
get_raw_ptr(h, e) == (e \ h.common_mask) \cup h.common_bits
make_hval(h, p, bits) == (p \ h.common_mask) \cup bits

ShiftRight(w, n) == {b - n : b \in {c \in w : c >= n}}
get_hash_ptr_bits(h, hash) ==
    (SymDiff(hash, ShiftRight(hash, h.bits)) \cap h.common_mask) \ h.perfect_bit

Size(h) == 2^h.bits
hash_bucket(h, hash) ==
    LET v[b \in 0 .. h.bits] ==
            IF b = 0 THEN 0 ELSE v[b - 1] + (IF b - 1 \in hash THEN 2^(b - 1) ELSE 0)
    IN v[h.bits]

(* Before the first element the table is the word perfect_bit itself. *)
htable_init ==
    [table |-> [i \in {0} |-> {}], bits |-> 0, elems |-> 0, deleted |-> 0,
     max |-> 0, max_with_deleted |-> 0,
     common_mask |-> 0 .. Width - 1, common_bits |-> {}, perfect_bit |-> {}]

(* htable_val(): the offsets an iteration over `hash' stops at.  It ends   *)
(* at an empty entry; the perfect bit only counts in the first.            *)
Found(h, hash) ==
    LET start == hash_bucket(h, hash)
        At(k) == h.table[(start + k) % Size(h)]
        h2(k) == get_hash_ptr_bits(h, hash) \cup (IF k = 0 THEN h.perfect_bit ELSE {})
        Reached(k) == \A j \in 0 .. k : At(j) # {}
    IN {(start + k) % Size(h) : k \in
          {k \in 0 .. Size(h) - 1 :
              /\ Reached(k) /\ At(k) # HTABLE_DELETED
              /\ get_extra_ptr_bits(h, At(k)) = h2(k)}}

(* The elements that htable_firstval() and htable_nextval() give. *)
Values(h, hash) == {get_raw_ptr(h, h.table[i]) : i \in Found(h, hash)}

(* ht_add() *)
ht_add(h, p) ==
    LET start == hash_bucket(h, Hash[p])
        k == CHOOSE k \in 0 .. Size(h) - 1 :
                /\ ~entry_is_valid(h.table[(start + k) % Size(h)])
                /\ \A j \in 0 .. k - 1 : entry_is_valid(h.table[(start + j) % Size(h)])
        perfect == IF k = 0 THEN h.perfect_bit ELSE {}
    IN [h EXCEPT !.table[(start + k) % Size(h)] =
            make_hval(h, p, get_hash_ptr_bits(h, Hash[p]) \cup perfect)]

Offsets(h) == [i \in 1 .. Size(h) |-> i - 1]

Lowest(w) == {CHOOSE b \in w : \A c \in w : b <= c}

(* double_table(): a perfect bit that was lost is taken again. *)
double_table(h) ==
    LET new == [h EXCEPT
            !.bits = @ + 1,
            !.table = [i \in 0 .. 2 * Size(h) - 1 |-> {}],
            !.max = (3 * 2^(h.bits + 1)) \div 4,
            !.max_with_deleted = (9 * 2^(h.bits + 1)) \div 10,
            !.perfect_bit = IF @ = {} /\ h.common_mask # {}
                            THEN Lowest(h.common_mask) ELSE @,
            !.deleted = 0]
    IN IF h.bits = 0 THEN new
       ELSE FoldLeft(LAMBDA n, i : IF entry_is_valid(h.table[i])
                                   THEN ht_add(n, get_raw_ptr(n, h.table[i])) ELSE n,
                     new, Offsets(h))

FirstEmpty(h) ==
    CHOOSE i \in 0 .. Size(h) - 1 :
        h.table[i] = {} /\ \A j \in 0 .. i - 1 : h.table[j] # {}

(* rehash_table(): entries that are not in their bucket move, from the     *)
(* first empty one on.                                                     *)
rehash_table(h) ==
    LET start == FirstEmpty(h)
        Visit(n, i) ==
            LET o == (start + i) % Size(h)
                e == n.table[o]
                cleared == [n EXCEPT !.table[o] = {}]
            IN IF e = {} THEN n
               ELSE IF e = HTABLE_DELETED THEN cleared
               ELSE IF e \cap h.perfect_bit = {} THEN ht_add(cleared, get_raw_ptr(n, e))
               ELSE n
    IN [FoldLeft(Visit, h, Offsets(h)) EXCEPT !.deleted = 0]

Highest(w) == CHOOSE b \in w : \A c \in w : b >= c

(* "We stole some bits, now we need to put them back" *)
update_common(h, p) ==
    IF h.elems = 0
    THEN LET mask == (0 .. Width - 1) \ {Highest(p)} IN
         [h EXCEPT !.common_mask = mask, !.common_bits = p \cap mask, !.perfect_bit = {0}]
    ELSE LET maskdiff == SymDiff(h.common_bits, p \cap h.common_mask)
             bitsdiff == h.common_bits \cap maskdiff
         IN [h EXCEPT
                !.table = [i \in DOMAIN @ |->
                    IF entry_is_valid(@[i]) THEN (@[i] \ maskdiff) \cup bitsdiff ELSE @[i]],
                !.common_mask = @ \ maskdiff,
                !.common_bits = @ \ maskdiff,
                !.perfect_bit = @ \ maskdiff]

MakeRoom(h) ==
    LET d == IF h.elems + 1 > h.max THEN double_table(h) ELSE h
    IN IF d.elems + 1 + d.deleted > d.max_with_deleted THEN rehash_table(d) ELSE d

Members(h) == {get_raw_ptr(h, h.table[i]) :
                 i \in {j \in DOMAIN h.table : entry_is_valid(h.table[j])}}

htable_add(p) ==
    /\ p \notin Members(ht)
    /\ ht.bits = MaxBits => ht.elems < ht.max
    /\ LET r == MakeRoom(ht)
           u == IF p \cap r.common_mask # r.common_bits THEN update_common(r, p) ELSE r
       IN ht' = [ht_add(u, p) EXCEPT !.elems = @ + 1]

(* Mutant: the entry is emptied. *)
MutDelval(h, i) == [h EXCEPT !.elems = @ - 1, !.table[i] = {}]

htable_delval(h, i) ==
    [h EXCEPT !.elems = @ - 1, !.table[i] = HTABLE_DELETED, !.deleted = @ + 1]

(* htable_del(), or htable_delval() in an iteration over the hash: the     *)
(* element is looked for first.                                            *)
htable_del(p) ==
    \E i \in Found(ht, Hash[p]) :
        /\ get_raw_ptr(ht, ht.table[i]) = p
        /\ ht' = htable_delval(ht, i)

htable_clear == ht.elems > 0 /\ ht' = htable_init

HtableInit == ht = htable_init
HtableNext == (\E p \in Ptrs : htable_add(p) \/ htable_del(p)) \/ htable_clear
HtableSpec == HtableInit /\ [][HtableNext]_ht

-----------------------------------------------------------------------------
(* Properties *)

(* The table implements a set: what lookups by hash find changes by the    *)
(* element that is added or deleted and by no other, wherever collisions,  *)
(* deletions, rehashing and a change of the common bits have put them.     *)
Lookups == {p \in Ptrs : p \in Values(ht, Hash[p])}
HtableSet == INSTANCE MemberSet WITH Elems <- Ptrs, members <- Lookups
HtableImplements == HtableSet!MemberSpec
=============================================================================
