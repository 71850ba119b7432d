-------------------------------- MODULE Tal --------------------------------
(***************************************************************************)
(* The hierarchical allocator of ccan/tal/tal.c, which owns every object   *)
(* of pettycoin: freeing a block, a peer, a conn or the whole state frees  *)
(* everything allocated under it, and destructors (destroy_block,          *)
(* destroy_peer, destroy_state, unset_peer_seeding) run in the middle of   *)
(* that and call the allocator again.                                      *)
(*                                                                         *)
(* An address holds a header (struct tal_hdr): its properties, the         *)
(* children group it is linked in, and the destroying bit.  A CHILDREN     *)
(* property is a group of its own: the parent it belongs to and the list   *)
(* of the children.  del_tree() recurses, so a frame of `stack' is one     *)
(* activation of it.  What a destructor may do here is what the            *)
(* ones of pettycoin do: allocate, steal, or free another object that is   *)
(* not being destroyed already.  The other notifiers are never used.       *)
(***************************************************************************)
EXTENDS Naturals, Sequences, FiniteSets, SequencesExt

CONSTANTS Addrs,                \* the addresses malloc() can return, from 1
          Arrays                \* whether what is allocated has a length: of BOOLEAN

VARIABLE tal

(* Address and group 0 are the static null_parent. *)
TalAssumption == Arrays \subseteq BOOLEAN /\ Addrs \subseteq Nat \ {0} /\ IsFiniteSet(Addrs)

NoObject == [live |-> FALSE]

Objects(s) == {a \in Addrs : s.hdr[a].live}
Unused(s) == Addrs \ Objects(s)
Groups(s) == {g \in {0} \cup Addrs : s.group[g].live}

-----------------------------------------------------------------------------
(* The property list of a header as its three properties: the group of the *)
(* children and the place of the length, 0 if there is none, and whether   *)
(* there is a destructor.  null_parent has group 0 from the start.         *)
HasGroup(s, a) == a # 0 => s.hdr[a].children # 0
GroupOf(s, a) == IF a = 0 THEN 0 ELSE s.hdr[a].children

(* add_child_property() allocates the group, where malloc() finds room. *)
add_child_property(s, parent) ==
    LET g == CHOOSE x \in Addrs : ~s.group[x].live
    IN  [s EXCEPT !.group[g] = [live |-> TRUE, parent |-> parent, list |-> <<>>],
                  !.hdr[parent].children = g]

(* add_child(): at the head of the list.  Writing parent_child clears the  *)
(* destroying bit as well.                                                 *)
add_child(s0, parent, child) ==
    LET s == IF HasGroup(s0, parent) THEN s0 ELSE add_child_property(s0, parent)
        g == GroupOf(s, parent)
    IN  [s EXCEPT !.group[g].list = <<child>> \o s.group[g].list,
                  !.hdr[child].parent_child = g,
                  !.hdr[child].destroying = FALSE]

list_del(s, a) ==
    [s EXCEPT !.group[s.hdr[a].parent_child].list =
                  SelectSeq(s.group[s.hdr[a].parent_child].list, LAMBDA x : x # a)]

-----------------------------------------------------------------------------
(* tal_alloc_() and tal_alloc_arr_(): an array carries its LENGTH behind   *)
(* its own data.                                                           *)
tal_alloc_(s, ctx, a, array) ==
    LET h == [live |-> TRUE, children |-> 0, length |-> IF array THEN a ELSE 0,
              destructor |-> FALSE, parent_child |-> 0, destroying |-> FALSE]
    IN  add_child([s EXCEPT !.hdr[a] = h], ctx, a)

tal_add_destructor_(s, a) == [s EXCEPT !.hdr[a].destructor = TRUE]
tal_del_destructor_(s, a) == [s EXCEPT !.hdr[a].destructor = FALSE]

(* tal_steal_(): unlinked from the old parent, the youngest child of the   *)
(* new one.                                                                *)
tal_steal_(s, newpar, a) == add_child(list_del(s, a), newpar, a)

(* del_tree() is entered: the bit is set before the destructor is called. *)
enter_del_tree(s, a) ==
    [s EXCEPT !.hdr[a].destroying = TRUE,
              !.stack = <<[t |-> a, notify |-> s.hdr[a].destructor]>> \o s.stack]

tal_free(s, a) == enter_del_tree(list_del(s, a), a)

(* The rest of del_tree(): the top of the children's list until there is   *)
(* none, whatever the destructors below do to that list meanwhile; then    *)
(* the properties and the object itself.                                   *)
del_tree(s) ==
    LET t == Head(s.stack).t
        g == GroupOf(s, t)
        kids == IF HasGroup(s, t) THEN s.group[g].list ELSE <<>>
    IN  IF kids # <<>> THEN enter_del_tree(list_del(s, kids[1]), kids[1])
        ELSE [hdr |-> [s.hdr EXCEPT ![t] = NoObject],
              group |-> IF HasGroup(s, t) THEN [s.group EXCEPT ![g] = NoObject] ELSE s.group,
              stack |-> Tail(s.stack)]

MutResize(s, a, new) ==         \* the children's group still names the old address
    LET h == s.hdr[a]
        Fixed(x) == IF x = a THEN new ELSE x
        siblings == s.group[h.parent_child].list
    IN  [s EXCEPT
            !.hdr[new] = [h EXCEPT !.length = IF h.length # 0 THEN new ELSE 0],
            !.hdr[a] = NoObject,
            !.group[h.parent_child].list = [i \in DOMAIN siblings |-> Fixed(siblings[i])]]

(* tal_resize_() when realloc() moves the object: LENGTH is written behind *)
(* the new data, the neighbours in the list and the children's group are   *)
(* made to point at the new address.                                       *)
tal_resize_(s, a, new) ==
    LET h == s.hdr[a]
        Fixed(x) == IF x = a THEN new ELSE x
        siblings == s.group[h.parent_child].list
        moved == [s EXCEPT
            !.hdr[new] = [h EXCEPT !.length = IF h.length # 0 THEN new ELSE 0],
            !.hdr[a] = NoObject,
            !.group[h.parent_child].list = [i \in DOMAIN siblings |-> Fixed(siblings[i])]]
    IN  IF HasGroup(s, a) THEN [moved EXCEPT !.group[GroupOf(s, a)].parent = new]
        ELSE moved

-----------------------------------------------------------------------------
(* The walk of tal_first() and tal_next() below null_parent. *)
first_child(s, a) ==
    IF HasGroup(s, a) /\ s.group[GroupOf(s, a)].list # <<>>
    THEN s.group[GroupOf(s, a)].list[1] ELSE 0

tal_parent(s, a) == s.group[s.hdr[a].parent_child].parent

(* The next sibling, or that of the nearest ancestor that has one. *)
NextUp(s) ==
    LET up[a \in Addrs, n \in 0..Cardinality(Addrs)] ==
            LET list == s.group[s.hdr[a].parent_child].list
                here == SelectInSeq(list, LAMBDA x : x = a)
            IN  IF here < Len(list) THEN list[here + 1]
                ELSE IF tal_parent(s, a) = 0 \/ n = 0 THEN 0
                ELSE up[tal_parent(s, a), n - 1]
    IN  [a \in Objects(s) |-> up[a, Cardinality(Addrs)]]

tal_next(s, a) == IF first_child(s, a) # 0 THEN first_child(s, a) ELSE NextUp(s)[a]

(* The objects that a walk visits, in order. *)
Walk(s) ==
    LET walk[n \in 0..Cardinality(Addrs)] ==
            IF n = 0 THEN IF first_child(s, 0) = 0 THEN <<>> ELSE <<first_child(s, 0)>>
            ELSE LET before == walk[n - 1]
                 IN  IF Len(before) < n \/ tal_next(s, before[n]) = 0 THEN before
                     ELSE Append(before, tal_next(s, before[n]))
    IN  walk[Cardinality(Addrs)]

-----------------------------------------------------------------------------
(* The program runs its own code, or a destructor does, once. *)
Calling == tal.stack # <<>> => Head(tal.stack).notify
Return(s) == IF tal.stack = <<>> THEN s ELSE
             [s EXCEPT !.stack = [i \in DOMAIN s.stack |->
                 [s.stack[i] EXCEPT !.notify =
                     s.stack[i].notify /\ i < Len(s.stack) - Len(tal.stack) + 1]]]

(* Objects that still belong to somebody. *)
Owned == {a \in Objects(tal) : ~tal.hdr[a].destroying}

Ancestors(a) ==                 \* the object itself and those it is under
    LET anc[x \in {0} \cup Addrs, n \in 0..Cardinality(Addrs)] ==
            IF x = 0 \/ n = 0 THEN {x} ELSE {x} \cup anc[tal_parent(tal, x), n - 1]
    IN  anc[a, Cardinality(Addrs)]

Alloc == /\ Calling
         /\ \E ctx \in {0} \cup Objects(tal), a \in Unused(tal), array \in Arrays :
                tal' = Return(tal_alloc_(tal, ctx, a, array))

FreeIt == /\ Calling
          /\ \E a \in Owned : tal' = Return(tal_free(tal, a))

(* A caller never steals an object to one of its own descendants. *)
Steal == /\ Calling
         /\ \E a \in Owned, newpar \in {0} \cup Objects(tal) :
                /\ a \notin Ancestors(newpar)
                /\ tal' = Return(tal_steal_(tal, newpar, a))

AddDestructor == /\ tal.stack = <<>>
                 /\ \E a \in Owned :
                        /\ ~tal.hdr[a].destructor
                        /\ tal' = tal_add_destructor_(tal, a)

DelDestructor == /\ tal.stack = <<>>
                 /\ \E a \in Owned :
                        /\ tal.hdr[a].destructor
                        /\ tal' = tal_del_destructor_(tal, a)

Resize == /\ Calling
          /\ \E a \in Owned, new \in Unused(tal) : tal' = Return(tal_resize_(tal, a, new))

(* The destructor returns having done nothing to the tree. *)
Destructed == /\ tal.stack # <<>> /\ Head(tal.stack).notify
              /\ tal' = Return(tal)

DelTree == /\ tal.stack # <<>> /\ ~Head(tal.stack).notify
           /\ tal' = del_tree(tal)

TalInit == tal = [hdr |-> [a \in Addrs |-> NoObject],
                  group |-> [g \in {0} \cup Addrs |->
                                IF g = 0 THEN [live |-> TRUE, parent |-> 0, list |-> <<>>]
                                ELSE NoObject],
                  stack |-> <<>>]

TalNext == Alloc \/ FreeIt \/ Steal \/ AddDestructor \/ DelDestructor \/ Resize
           \/ Destructed \/ DelTree

TalSpec == TalInit /\ [][TalNext]_tal

-----------------------------------------------------------------------------
(* Between two frees, a walk with tal_first() and tal_next() meets every   *)
(* live object exactly once: nothing that a free, a steal or a resize in a *)
(* destructor left behind is out of the tree, so freeing the root frees    *)
(* all.                                                                    *)
NothingLost ==
    tal.stack = <<>> => /\ Len(Walk(tal)) = Cardinality(Objects(tal))
                        /\ {Walk(tal)[i] : i \in DOMAIN Walk(tal)} = Objects(tal)

(* However destructors allocate, steal, move and free in the middle of a   *)
(* del_tree(), the tree is sound: a children's list holds live objects     *)
(* that are linked in it and no other, each once; every object that is not *)
(* being destroyed is in the list of its parent; the objects being         *)
(* destroyed are exactly those some del_tree() is busy with; a group's     *)
(* parent is the live object that owns the group; and an array's length    *)
(* lies in the array.  And nothing is lost.                                *)
TreeSound ==
    /\ \A g \in Groups(tal) :
        LET list == tal.group[g].list  p == tal.group[g].parent IN
        /\ \A i \in DOMAIN list : /\ list[i] \in Objects(tal)
                                  /\ tal.hdr[list[i]].parent_child = g
                                  /\ \A j \in DOMAIN list : list[i] = list[j] => i = j
        /\ g # 0 => p \in Objects(tal) /\ HasGroup(tal, p) /\ GroupOf(tal, p) = g
    /\ \A a \in Owned : /\ tal.hdr[a].parent_child \in Groups(tal)
                        /\ Contains(tal.group[tal.hdr[a].parent_child].list, a)
    /\ Objects(tal) \ Owned = {tal.stack[i].t : i \in DOMAIN tal.stack}
    /\ \A a \in Objects(tal) : tal.hdr[a].length \in {0, a}
    /\ NothingLost
=============================================================================
